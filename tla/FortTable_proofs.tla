-------------------------- MODULE FortTable_proofs --------------------------
(***************************************************************************)
(* No call puts a cell that was never created into a table, apart from the *)
(* calls that skip cells, for tables of every size, whatever is written    *)
(* into them and however many calls are made; the lines of what is printed *)
(* are equally wide; no call but an erasure takes away a text that was     *)
(* written, when cells are inserted, or one before the cursor; no measure  *)
(* or margin is ever negative; and the room measured for a table is enough *)
(* to print it in any style.                                               *)
(*                                                                         *)
(* First come the growing arrays of FortVector, then one lemma per call:   *)
(* it keeps a clean table clean.  After the widths of lines come the texts *)
(* of a table as they are read, in two parts, before the cursor and behind *)
(* it: a call that writes puts its texts between them.  Then the widths of *)
(* the columns, from the cells over the masters that widen them to the     *)
(* lines they make, whose bytes are added up and compared with the room.   *)
(***************************************************************************)
EXTENDS FortLayout, SequenceTheorems, FiniteSetTheorems, TLAPS

-----------------------------------------------------------------------------
(* Growing arrays *)

\* An array that is long enough is left alone.
LEMMA NotPadded ==
  ASSUME NEW X, NEW v \in Seq(X), NEW n \in Nat, n <= Len(v), NEW item
  PROVE  PushedUpTo(v, n, item) = v
<1>1. [i \in 1 .. (n - Len(v)) |-> item] = << >>
  <2>1. 1 .. (n - Len(v)) = {}
    OBVIOUS
  <2> QED
    BY <2>1
<1> QED
  BY <1>1, ConcatEmptySeq DEF PushedUpTo

\* An array after items of its type were pushed.
LEMMA PaddedType ==
  ASSUME NEW X, NEW v \in Seq(X), NEW n \in Nat, NEW item \in X
  PROVE  /\ PushedUpTo(v, n, item) \in Seq(X)
         /\ Len(v) <= Len(PushedUpTo(v, n, item)) /\ n <= Len(PushedUpTo(v, n, item))
<1>1. CASE n <= Len(v)
  BY <1>1, NotPadded
<1>2. CASE ~(n <= Len(v))
  <2> DEFINE more == [i \in 1 .. (n - Len(v)) |-> item]
  <2>1. n - Len(v) \in Nat
    BY <1>2
  <2>2. more \in Seq(X) /\ Len(more) = n - Len(v)
    BY <2>1
  <2> HIDE DEF more
  <2>3. v \o more \in Seq(X) /\ Len(v \o more) = Len(v) + Len(more)
    BY <2>2, ConcatProperties
  <2> QED
    BY <2>1, <2>2, <2>3 DEF PushedUpTo, more
<1> QED
  BY <1>1, <1>2

\* What is pushed fills the end of the array.
LEMMA PaddedElements ==
  ASSUME NEW X, NEW v \in Seq(X), NEW n \in Nat, Len(v) <= n, NEW item
  PROVE  /\ Len(PushedUpTo(v, n, item)) = n
         /\ DOMAIN PushedUpTo(v, n, item) = 1 .. n
         /\ \A i \in 1 .. Len(v) : PushedUpTo(v, n, item)[i] = v[i]
<1> DEFINE more == [i \in 1 .. (n - Len(v)) |-> item]
           Y == X \cup {item}
<1>1. n - Len(v) \in Nat
  OBVIOUS
<1>2. more \in Seq(Y) /\ Len(more) = n - Len(v)
  BY <1>1
<1>3. v \in Seq(Y)
  OBVIOUS
<1> HIDE DEF more, Y
<1>4. /\ v \o more \in Seq(Y) /\ Len(v \o more) = Len(v) + Len(more)
      /\ \A i \in 1 .. Len(v) : (v \o more)[i] = v[i]
  BY <1>2, <1>3, ConcatProperties
<1>5. DOMAIN (v \o more) = 1 .. Len(v \o more)
  BY <1>4, LenProperties
<1> QED
  BY <1>1, <1>2, <1>4, <1>5 DEF PushedUpTo, more

\* The two parts of an array that is split.
LEMMA SplitTypes ==
  ASSUME NEW X, NEW v \in Seq(X), NEW pos \in Nat
  PROVE  SplitHead(v, pos) \in Seq(X) /\ SplitTail(v, pos) \in Seq(X)
<1>1. SplitHead(v, pos) \in Seq(X)
  BY SubSeqProperties DEF SplitHead
<1>2. SplitTail(v, pos) \in Seq(X)
  <2>1. \A i \in pos + 1 .. Len(v) : i \in 1 .. Len(v)
    OBVIOUS
  <2> QED
    BY <2>1, SubSeqProperties DEF SplitTail
<1> QED
  BY <1>1, <1>2

\* An item put in between the elements.
LEMMA InsertedInside ==
  ASSUME NEW X, NEW v \in Seq(X), NEW item \in X, NEW pos \in Nat, pos < Len(v)
  PROVE  /\ InsertAt(v, pos + 1, item) \in Seq(X)
         /\ Len(InsertAt(v, pos + 1, item)) = Len(v) + 1
         /\ InsertAt(v, pos + 1, item)[pos + 1] = item
<1> DEFINE head == SubSeq(v, 1, pos)
           tail == SubSeq(v, pos + 1, Len(v))
<1>1. head \in Seq(X) /\ Len(head) = pos
  BY SubSeqProperties
<1>2. tail \in Seq(X) /\ Len(tail) = Len(v) - pos
  <2>1. \A i \in pos + 1 .. Len(v) : i \in 1 .. Len(v)
    OBVIOUS
  <2>2. tail \in Seq(X)
    BY <2>1, SubSeqProperties
  <2>3. Len(tail) = IF pos + 1 <= Len(v) THEN Len(v) - (pos + 1) + 1 ELSE 0
    BY <2>1, SubSeqProperties
  <2>4. Len(tail) = Len(v) - pos
    BY <2>3
  <2> QED
    BY <2>2, <2>4
<1>3. InsertAt(v, pos + 1, item) = (head \o << item >>) \o tail
  <2>1. SubSeq(v, 1, (pos + 1) - 1) = head
    <3>1. (pos + 1) - 1 = pos
      OBVIOUS
    <3> QED
      BY <3>1
  <2> QED
    BY <2>1 DEF InsertAt
<1> DEFINE front == head \o << item >>
<1> HIDE DEF head, tail
<1>4. << item >> \in Seq(X) /\ Len(<< item >>) = 1 /\ << item >>[1] = item
  OBVIOUS
<1>5. front \in Seq(X) /\ Len(front) = pos + 1 /\ front[pos + 1] = item
  <2>1. front \in Seq(X) /\ Len(front) = Len(head) + Len(<< item >>)
    BY <1>1, <1>4, ConcatProperties
  <2>2. front[pos + 1] = << item >>[(pos + 1) - pos]
    <3>1. pos + 1 \in pos + 1 .. pos + 1
      OBVIOUS
    <3> QED
      BY <1>1, <1>4, <3>1, ConcatProperties
  <2>3. (pos + 1) - pos = 1
    OBVIOUS
  <2> QED
    BY <1>1, <1>4, <2>1, <2>2, <2>3
<1>6. InsertAt(v, pos + 1, item) = front \o tail
  BY <1>3
<1> HIDE DEF front
<1>7. front \o tail \in Seq(X) /\ Len(front \o tail) = Len(front) + Len(tail)
  BY <1>2, <1>5, ConcatProperties
<1>8. Len(front \o tail) = Len(v) + 1
  BY <1>2, <1>5, <1>7
<1>9. (front \o tail)[pos + 1] = item
  <2>1. \A i \in 1 .. Len(front) : (front \o tail)[i] = front[i]
    BY <1>2, <1>5, ConcatProperties
  <2> QED
    BY <1>5, <2>1
<1> QED
  BY <1>6, <1>7, <1>8, <1>9

\* An item put behind the elements leaves no gap, if it comes right after them.
LEMMA InsertedBehind ==
  ASSUME NEW X, NEW v \in Seq(X), NEW item \in X, NEW pos \in Nat, Len(v) <= pos,
         NEW gap, gap \in X \/ pos = Len(v)
  PROVE  /\ Append(PushedUpTo(v, pos, gap), item) \in Seq(X)
         /\ Len(Append(PushedUpTo(v, pos, gap), item)) = pos + 1
         /\ Append(PushedUpTo(v, pos, gap), item)[pos + 1] = item
<1> DEFINE padded == PushedUpTo(v, pos, gap)
<1>1. padded \in Seq(X)
  <2>1. CASE gap \in X
    BY <2>1, PaddedType
  <2>2. CASE pos = Len(v)
    BY <2>2, NotPadded
  <2> QED
    BY <2>1, <2>2
<1>2. Len(padded) = pos
  BY PaddedElements
<1> HIDE DEF padded
<1>3. Append(padded, item) \in Seq(X) /\ Len(Append(padded, item)) = pos + 1
  BY <1>1, <1>2, AppendProperties
<1>4. Append(padded, item)[Len(padded) + 1] = item
  BY <1>1, AppendProperties
<1> QED
  BY <1>2, <1>3, <1>4 DEF padded

\* The item is where it was put, and the elements of the array stay in X.
LEMMA VectorInsertType ==
  ASSUME NEW X, NEW v \in Seq(X), NEW item \in X, NEW pos \in Nat,
         Hole \in X \/ pos <= Len(v)
  PROVE  /\ vector_insert(v, item, pos) \in Seq(X)
         /\ pos + 1 <= Len(vector_insert(v, item, pos))
         /\ vector_insert(v, item, pos)[pos + 1] = item
<1>0. Len(v) \in Nat
  OBVIOUS
<1>1. CASE pos < Len(v)
  <2>1. vector_insert(v, item, pos) = InsertAt(v, pos + 1, item)
    BY <1>0, <1>1 DEF vector_insert
  <2>2. /\ InsertAt(v, pos + 1, item) \in Seq(X)
        /\ Len(InsertAt(v, pos + 1, item)) = Len(v) + 1
        /\ InsertAt(v, pos + 1, item)[pos + 1] = item
    BY <1>1, InsertedInside
  <2>3. pos + 1 <= Len(v) + 1
    BY <1>0, <1>1
  <2> QED
    BY <2>1, <2>2, <2>3
<1>2. CASE ~(pos < Len(v))
  <2>1. vector_insert(v, item, pos) = Append(PushedUpTo(v, pos, Hole), item)
    BY <1>0, <1>2 DEF vector_insert, vector_push
  <2>2. Len(v) <= pos /\ (Hole \in X \/ pos = Len(v))
    BY <1>0, <1>2
  <2>3. /\ Append(PushedUpTo(v, pos, Hole), item) \in Seq(X)
        /\ Len(Append(PushedUpTo(v, pos, Hole), item)) = pos + 1
        /\ Append(PushedUpTo(v, pos, Hole), item)[pos + 1] = item
    BY <2>2, InsertedBehind
  <2> QED
    BY <2>1, <2>3
<1> QED
  BY <1>1, <1>2

\* Elements written over others, or right behind them, leave no gap either.
LEMMA SwapType ==
  ASSUME NEW X, NEW v \in Seq(X), NEW mv \in Seq(X), NEW pos \in Nat,
         Hole \in X \/ pos <= Len(v)
  PROVE  vector_swap(v, mv, pos) \in Seq(X)
<1>1. CASE mv = << >>
  BY <1>1 DEF vector_swap
<1>2. CASE mv # << >>
  <2> DEFINE n == pos + Len(mv)
             old == PushedUpTo(v, n, Hole)
             new == [i \in DOMAIN old |-> IF i \in pos + 1 .. n THEN mv[i - pos] ELSE old[i]]
  <2>1. n \in Nat /\ Len(mv) \in Nat /\ Len(v) \in Nat
    OBVIOUS
  <2>2. vector_swap(v, mv, pos) = new
    BY <1>2 DEF vector_swap
  <2>3. \E m \in Nat : /\ DOMAIN old = 1 .. m
                       /\ \A i \in 1 .. m : i \notin pos + 1 .. n => old[i] \in X
    <3>0. CASE Hole \in X
      <4>1. old \in Seq(X)
        BY <2>1, <3>0, PaddedType
      <4> HIDE DEF old
      <4>2. DOMAIN old = 1 .. Len(old) /\ Len(old) \in Nat /\ \A i \in 1 .. Len(old) : old[i] \in X
        BY <4>1
      <4> QED
        BY <4>2
    <3>1. CASE n <= Len(v)
      <4>1. old = v
        BY <2>1, <3>1, NotPadded
      <4> QED
        BY <2>1, <4>1
    <3>2. CASE ~(n <= Len(v)) /\ Hole \notin X
      <4>0. pos <= Len(v)
        BY <3>2
      <4> HIDE DEF n
      <4>1. DOMAIN old = 1 .. n /\ \A i \in 1 .. Len(v) : old[i] = v[i]
        BY <2>1, <3>2, PaddedElements
      <4> HIDE DEF old
      <4>2. \A i \in 1 .. n : i \notin pos + 1 .. n => i \in 1 .. Len(v)
        BY <2>1, <4>0 DEF n
      <4>3. \A i \in 1 .. Len(v) : v[i] \in X
        OBVIOUS
      <4> QED
        BY <2>1, <4>1, <4>2, <4>3
    <3> QED
      BY <3>0, <3>1, <3>2
  <2> HIDE DEF old
  <2>4. \A i \in pos + 1 .. n : i - pos \in 1 .. Len(mv)
    BY <2>1
  <2>5. \A i \in pos + 1 .. n : mv[i - pos] \in X
    BY <2>4
  <2>6. PICK m \in Nat : /\ DOMAIN old = 1 .. m
                         /\ \A i \in 1 .. m : i \notin pos + 1 .. n => old[i] \in X
    BY <2>3
  <2> HIDE DEF n
  <2>7. new = [i \in 1 .. m |-> IF i \in pos + 1 .. n THEN mv[i - pos] ELSE old[i]]
    BY <2>6
  <2>8. \A i \in 1 .. m : (IF i \in pos + 1 .. n THEN mv[i - pos] ELSE old[i]) \in X
    BY <2>5, <2>6
  <2> QED
    BY <2>2, <2>7, <2>8
<1> QED
  BY <1>1, <1>2

-----------------------------------------------------------------------------
(* What an erasure leaves *)

\* A set of natural numbers that has an element has a least one.
LEMMA LeastPosition ==
  ASSUME NEW T \in SUBSET Nat, T # {}
  PROVE  \E m \in T : m \in Nat /\ \A n \in Nat : n < m => n \notin T
<1> DEFINE Less == {ss \in Nat \X Nat : ss[1] < ss[2]}
<1>1. IsWellFoundedOn(Less, Nat)
  BY NatLessThanWellFounded DEF OpToRel
<1>2. \A m, n \in Nat : <<n, m>> \in Less <=> n < m
  OBVIOUS
<1> HIDE DEF Less
<1>3. \E m \in T : \A n \in T : ~(<<n, m>> \in Less)
  BY <1>1, WFMin
<1> QED
  BY <1>2, <1>3

\* How the parts that are kept are put together: one after the other.
Joins(parts, f, i) == IF i = 1 THEN parts[i] ELSE f[i - 1] \o parts[i]
JoinedUpTo(f, parts, n) == \A i \in 1 .. n : f[i] = Joins(parts, f, i)
Joining(f, parts) == f = [i \in 1 .. Len(parts) |-> Joins(parts, f, i)]

\* That can be done for any number of parts, by one more at a time.
LEMMA JoinOneMore ==
  ASSUME NEW parts, NEW n \in Nat, NEW f, JoinedUpTo(f, parts, n)
  PROVE  \E g : JoinedUpTo(g, parts, n + 1)
<1> DEFINE g == [i \in 1 .. n + 1 |-> IF i <= n THEN f[i] ELSE Joins(parts, f, i)]
<1>1. ASSUME NEW i \in 1 .. n + 1 PROVE g[i] = Joins(parts, f, i)
  BY <1>1 DEF JoinedUpTo
<1>2. ASSUME NEW i \in 1 .. n + 1, i # 1 PROVE g[i - 1] = f[i - 1]
  <2>1. i - 1 \in 1 .. n + 1 /\ i - 1 <= n
    BY <1>2
  <2> QED
    BY <2>1
<1> HIDE DEF g
<1>3. ASSUME NEW i \in 1 .. n + 1 PROVE g[i] = Joins(parts, g, i)
  BY <1>1, <1>2, <1>3 DEF Joins
<1> QED
  BY <1>3 DEF JoinedUpTo

LEMMA JoiningExists ==
  ASSUME NEW X, NEW parts \in Seq(X)
  PROVE  \E f : Joining(f, parts)
<1> DEFINE T == {n \in Nat : ~\E f : JoinedUpTo(f, parts, n)}
<1>1. T = {}
  <2>1. SUFFICES ASSUME T # {} PROVE FALSE
    OBVIOUS
  <2>2. PICK m \in T : m \in Nat /\ \A n \in Nat : n < m => n \notin T
    BY <2>1, LeastPosition
  <2>3. m # 0
    BY <2>2 DEF JoinedUpTo
  <2>4. m - 1 \in Nat /\ m - 1 \notin T
    BY <2>2, <2>3
  <2>5. PICK f : JoinedUpTo(f, parts, m - 1)
    BY <2>4
  <2>6. \E g : JoinedUpTo(g, parts, (m - 1) + 1)
    BY <2>4, <2>5, JoinOneMore
  <2> QED
    BY <2>2, <2>6
<1>2. Len(parts) \in Nat
  OBVIOUS
<1>3. PICK f : JoinedUpTo(f, parts, Len(parts))
  BY <1>1, <1>2
<1> DEFINE g == [i \in 1 .. Len(parts) |-> f[i]]
<1>4. ASSUME NEW i \in 1 .. Len(parts) PROVE f[i] = Joins(parts, g, i)
  <2>1. i # 1 => i - 1 \in 1 .. Len(parts)
    OBVIOUS
  <2>2. i # 1 => g[i - 1] = f[i - 1]
    BY <2>1
  <2> QED
    BY <1>3, <2>2 DEF Joins, JoinedUpTo
<1>5. Joining(g, parts)
  BY <1>4 DEF Joining
<1> QED
  BY <1>5

\* Parts of a type, put together, are of that type.
LEMMA FlattenedType ==
  ASSUME NEW X, NEW parts \in Seq(Seq(X))
  PROVE  FlattenSeq(parts) \in Seq(X)
<1>1. CASE parts = << >>
  <2>1. FlattenSeq(<< >>) = << >>
    BY DEF FlattenSeq
  <2> QED
    BY <1>1, <2>1, EmptySeq
<1>2. CASE parts # << >>
  <2> DEFINE f == CHOOSE f : Joining(f, parts)
  <2>1. Joining(f, parts)
    BY JoiningExists
  <2>2. Len(parts) # 0 /\ Len(parts) \in 1 .. Len(parts)
    BY <1>2
  <2>3. FlattenSeq(parts) = f[Len(parts)]
    BY <2>2 DEF FlattenSeq, Joining, Joins
  <2> HIDE DEF f
  <2> DEFINE T == {n \in Nat : n \in 1 .. Len(parts) /\ f[n] \notin Seq(X)}
  <2>4. T = {}
    <3>1. SUFFICES ASSUME T # {} PROVE FALSE
      OBVIOUS
    <3>2. PICK m \in T : m \in Nat /\ \A n \in Nat : n < m => n \notin T
      BY <3>1, LeastPosition
    <3>3. m \in 1 .. Len(parts) /\ f[m] \notin Seq(X) /\ parts[m] \in Seq(X)
      BY <3>2
    <3>4. f[m] = Joins(parts, f, m)
      BY <2>1, <3>3 DEF Joining
    <3>5. m # 1
      BY <3>3, <3>4 DEF Joins
    <3>6. m - 1 \in Nat /\ m - 1 < m /\ m - 1 \in 1 .. Len(parts)
      BY <3>3, <3>5
    <3>7. f[m - 1] \in Seq(X)
      BY <3>2, <3>6
    <3> HIDE DEF T
    <3> QED
      BY <3>3, <3>4, <3>5, <3>7 DEF Joins
  <2>5. f[Len(parts)] \in Seq(X)
    BY <2>2, <2>4
  <2> QED
    BY <2>3, <2>5
<1> QED
  BY <1>1, <1>2

\* What is left of an array is of its type.
LEMMA ErasedType ==
  ASSUME NEW X, NEW v \in Seq(X), NEW gone
  PROVE  Erased(v, gone) \in Seq(X)
<1> DEFINE part(i) == IF i - 1 \in gone THEN << >> ELSE << v[i] >>
           parts == [i \in DOMAIN v |-> part(i)]
<1>1. \A i \in 1 .. Len(v) : part(i) \in Seq(X)
  OBVIOUS
<1>2. DOMAIN v = 1 .. Len(v) /\ Len(v) \in Nat
  OBVIOUS
<1> DEFINE Y == Seq(X)
<1> HIDE DEF part, Y
<1>3. parts \in Seq(Y)
  BY <1>1, <1>2 DEF Y
<1>4. FlattenSeq(parts) \in Seq(X)
  BY <1>3, FlattenedType DEF Y
<1> QED
  BY <1>4 DEF Erased, part

-----------------------------------------------------------------------------
(* Clean tables *)

TableFields ==
  {"rows", "separators", "cellProps", "tableProps", "style", "curRow", "curCol"}

\* A table with such elements, and with its cursor somewhere.
HasRows(t, X) ==
  /\ DOMAIN t = TableFields
  /\ t.rows \in Seq(Seq(X))
  /\ t.curRow \in Nat /\ t.curCol \in Nat

\* All cells of the table were created; or some were not.
Clean(t) == HasRows(t, Cells)
Elements == Cells \cup {Hole}
Typed(t) == HasRows(t, Elements)

CurrentRow(t) == RowOrEmpty(t, t.curRow)

\* The next cell that is written follows the ones of the row, or is one of
\* them.
Within(t) == t.curCol <= Len(CurrentRow(t))

\* A text can be written so that the elements of the table stay in X: no cells
\* are skipped, or X has what is left in their place, and the text does not go
\* into a cell that was never created.
Writable(t, X) ==
  /\ HasRows(t, X) /\ Cells \subseteq X
  /\ X = Cells \/ t.tableProps.strategy = "insert"
  /\ t.tableProps.strategy = "insert" => Hole \in X \/ Within(t)

\* The empty cell is one, and the unwritten one is not.
LEMMA CellFacts == create_cell \in Cells /\ Hole \notin Cells
<1>1. << >> \in Seq(Nat)
  BY EmptySeq
<1> QED
  BY <1>1, FortAssumption DEF create_cell, Cells

\* Rows are sequences of elements, those the table does not have too.
LEMMA RowType ==
  ASSUME NEW X, NEW t, HasRows(t, X), NEW r \in Nat
  PROVE  RowOrEmpty(t, r) \in Seq(X)
<1>1. CASE r < Len(t.rows)
  <2>1. r + 1 \in 1 .. Len(t.rows)
    BY <1>1 DEF HasRows
  <2> QED
    BY <1>1, <2>1 DEF RowOrEmpty, vector_at, HasRows
<1>2. CASE ~(r < Len(t.rows))
  BY <1>2, EmptySeq DEF RowOrEmpty
<1> QED
  BY <1>1, <1>2

\* The rows after one of them was replaced: it is there, and they are many
\* enough.
LEMMA WithRowRows ==
  ASSUME NEW X, NEW t, HasRows(t, X), NEW r \in Nat, NEW row \in Seq(X)
  PROVE  /\ WithRow(t, r, row).rows \in Seq(Seq(X))
         /\ r + 1 <= Len(WithRow(t, r, row).rows)
         /\ WithRow(t, r, row).rows[r + 1] = row
<1> DEFINE Y == Seq(X)
           padded == PushedUpTo(t.rows, r + 1, << >>)
           new == [padded EXCEPT ![r + 1] = row]
<1>1. WithRow(t, r, row).rows = new
  BY DEF WithRow, HasRows, TableFields
<1>2. t.rows \in Seq(Y) /\ << >> \in Y /\ r + 1 \in Nat /\ row \in Y
  BY EmptySeq DEF HasRows
<1> HIDE DEF Y
<1>3. padded \in Seq(Y) /\ r + 1 <= Len(padded)
  BY <1>2, PaddedType
<1> HIDE DEF padded
<1>4. r + 1 \in 1 .. Len(padded) /\ DOMAIN padded = 1 .. Len(padded)
  BY <1>3
<1>5. new \in Seq(Y) /\ Len(new) = Len(padded)
  BY <1>2, <1>3, <1>4, ExceptSeq
<1>6. new[r + 1] = row
  BY <1>4
<1> HIDE DEF new
<1> QED
  BY <1>1, <1>3, <1>5, <1>6 DEF Y

\* The other fields stay.
LEMMA WithRowRest ==
  ASSUME NEW X, NEW t, HasRows(t, X), NEW r, NEW row
  PROVE  /\ DOMAIN WithRow(t, r, row) = TableFields
         /\ WithRow(t, r, row).curRow = t.curRow
         /\ WithRow(t, r, row).curCol = t.curCol
         /\ WithRow(t, r, row).tableProps = t.tableProps
BY DEF WithRow, HasRows, TableFields

LEMMA WithRowIn ==
  ASSUME NEW X, NEW t, HasRows(t, X), NEW r \in Nat, NEW row \in Seq(X)
  PROVE  HasRows(WithRow(t, r, row), X)
<1>1. t.curRow \in Nat /\ t.curCol \in Nat
  BY DEF HasRows
<1>2. WithRow(t, r, row).rows \in Seq(Seq(X))
  BY WithRowRows
<1>3. /\ DOMAIN WithRow(t, r, row) = TableFields
      /\ WithRow(t, r, row).curRow = t.curRow /\ WithRow(t, r, row).curCol = t.curCol
  BY WithRowRest
<1> QED
  BY <1>1, <1>2, <1>3 DEF HasRows

\* A row that was put into the table is found there.
LEMMA RowFound ==
  ASSUME NEW X, NEW t, NEW r \in Nat, t.rows \in Seq(Seq(X)), r + 1 <= Len(t.rows)
  PROVE  RowOrEmpty(t, r) = t.rows[r + 1]
<1>1. r < Len(t.rows)
  OBVIOUS
<1> QED
  BY <1>1 DEF RowOrEmpty, vector_at

\* A clean table has no holes.
LEMMA CleanHasNoHoles ==
  ASSUME NEW t, Clean(t)
  PROVE  ~Holes(t)
<1> SUFFICES ASSUME NEW i \in DOMAIN t.rows, NEW j \in DOMAIN t.rows[i], t.rows[i][j] = Hole
             PROVE  FALSE
  BY DEF Holes
<1>1. t.rows[i] \in Seq(Cells)
  BY DEF Clean, HasRows
<1>2. t.rows[i][j] \in Cells
  BY <1>1
<1> QED
  BY <1>2, CellFacts

-----------------------------------------------------------------------------
(* Writing a cell *)

\* The row before the text is written into the cell at the cursor.
Placed(t) ==
  IF t.tableProps.strategy = "insert"
    THEN vector_insert(CurrentRow(t), create_cell, t.curCol)
    ELSE PushedUpTo(CurrentRow(t), t.curCol + 1, create_cell)

LEMMA PlacedType ==
  ASSUME NEW X, NEW t, Writable(t, X)
  PROVE  /\ Placed(t) \in Seq(X)
         /\ t.curCol + 1 <= Len(Placed(t)) /\ Placed(t)[t.curCol + 1] \in Cells
<1>1. t.curRow \in Nat /\ t.curCol \in Nat /\ t.curCol + 1 \in Nat
  BY DEF Writable, HasRows
<1>2. CurrentRow(t) \in Seq(X)
  BY <1>1, RowType DEF Writable, CurrentRow
<1>3. create_cell \in Cells /\ create_cell \in X
  BY CellFacts DEF Writable
<1>4. CASE t.tableProps.strategy = "insert"
  <2>1. Hole \in X \/ t.curCol <= Len(CurrentRow(t))
    BY <1>4 DEF Writable, Within
  <2> DEFINE new == vector_insert(CurrentRow(t), create_cell, t.curCol)
  <2>2. new \in Seq(X) /\ t.curCol + 1 <= Len(new) /\ new[t.curCol + 1] = create_cell
    BY <1>1, <1>2, <1>3, <2>1, VectorInsertType
  <2>3. Placed(t) = new
    BY <1>4 DEF Placed
  <2> QED
    BY <1>3, <2>2, <2>3
<1>5. CASE ~(t.tableProps.strategy = "insert")
  <2>1. X = Cells
    BY <1>5 DEF Writable
  <2>2. Placed(t) \in Seq(X) /\ t.curCol + 1 <= Len(Placed(t))
    BY <1>1, <1>2, <1>3, <1>5, PaddedType DEF Placed
  <2>3. t.curCol + 1 \in 1 .. Len(Placed(t))
    BY <1>1, <2>2
  <2> QED
    BY <2>1, <2>2, <2>3
<1> QED
  BY <1>4, <1>5

\* A written cell is one.
LEMMA WrittenRow ==
  ASSUME NEW X, Cells \subseteq X, NEW row \in Seq(X), NEW k \in Nat, 1 <= k, k <= Len(row),
         row[k] \in Cells, NEW text \in Seq(Nat)
  PROVE  /\ [row EXCEPT ![k].text = text] \in Seq(X)
         /\ Len([row EXCEPT ![k].text = text]) = Len(row)
<1> DEFINE cell == [row[k] EXCEPT !.text = text]
<1>1. cell \in X
  <2>1. cell \in Cells
    BY DEF Cells
  <2> QED
    BY <2>1
<1>2. [row EXCEPT ![k].text = text] = [row EXCEPT ![k] = cell]
  OBVIOUS
<1> HIDE DEF cell
<1>3. k \in 1 .. Len(row)
  OBVIOUS
<1>4. [row EXCEPT ![k] = cell] \in Seq(X) /\ Len([row EXCEPT ![k] = cell]) = Len(row)
  BY <1>1, <1>3, ExceptSeq
<1> QED
  BY <1>2, <1>4

\* After a text was written the next one can be written too: the cursor stands
\* right behind it.
LEMMA WriteIn ==
  ASSUME NEW X, NEW t, Writable(t, X), NEW text \in Seq(Nat)
  PROVE  Writable(ft_write(t, text), X)
<1> DEFINE k == t.curCol + 1
           row == [Placed(t) EXCEPT ![k].text = text]
           u == WithRow(t, t.curRow, row)
           new == [u EXCEPT !.curCol = @ + 1]
<1>1. ft_write(t, text) = new
  BY DEF ft_write, Placed, CurrentRow
<1>0. /\ HasRows(t, X) /\ Cells \subseteq X
      /\ X = Cells \/ t.tableProps.strategy = "insert"
  BY DEF Writable
<1>2. t.curRow \in Nat /\ t.curCol \in Nat /\ k \in Nat /\ 1 <= k
  BY <1>0 DEF HasRows
<1>3. Placed(t) \in Seq(X) /\ k <= Len(Placed(t)) /\ Placed(t)[k] \in Cells
  BY PlacedType
<1> HIDE DEF k
<1>4. row \in Seq(X) /\ Len(row) = Len(Placed(t))
  BY <1>0, <1>2, <1>3, WrittenRow
<1> HIDE DEF row
<1>5. u.rows \in Seq(Seq(X)) /\ t.curRow + 1 <= Len(u.rows) /\ u.rows[t.curRow + 1] = row
  <2>1. HasRows(t, X) /\ t.curRow \in Nat /\ row \in Seq(X)
    BY <1>0, <1>2, <1>4
  <2> DEFINE r == t.curRow
  <2> HIDE DEF r
  <2>2. /\ WithRow(t, r, row).rows \in Seq(Seq(X))
        /\ r + 1 <= Len(WithRow(t, r, row).rows)
        /\ WithRow(t, r, row).rows[r + 1] = row
    <3>1. HasRows(t, X) /\ r \in Nat /\ row \in Seq(X)
      BY <2>1 DEF r
    <3> QED
      BY <3>1, WithRowRows
  <2> QED
    BY <2>2 DEF r
<1>6. /\ DOMAIN u = TableFields /\ u.curRow = t.curRow /\ u.curCol = t.curCol
      /\ u.tableProps = t.tableProps
  BY <1>0, WithRowRest
<1> HIDE DEF u
<1>7. /\ DOMAIN new = TableFields /\ new.rows = u.rows
      /\ new.curRow = t.curRow /\ new.curCol = k /\ new.tableProps = t.tableProps
  BY <1>6 DEF TableFields, k
<1> HIDE DEF new
<1>8. HasRows(new, X)
  BY <1>2, <1>5, <1>7 DEF HasRows
<1>9. CurrentRow(new) = row
  <2>1. RowOrEmpty(new, t.curRow) = new.rows[t.curRow + 1]
    BY <1>2, <1>5, <1>7, RowFound
  <2> QED
    BY <1>5, <1>7, <2>1 DEF CurrentRow
<1>10. Within(new)
  BY <1>3, <1>4, <1>7, <1>9 DEF Within
<1> QED
  BY <1>0, <1>1, <1>7, <1>8, <1>10 DEF Writable

-----------------------------------------------------------------------------
(* The next line *)

LEMMA LnIn ==
  ASSUME NEW X, NEW t, HasRows(t, X)
  PROVE  HasRows(ft_ln(t), X) /\ Within(ft_ln(t)) /\ ft_ln(t).tableProps = t.tableProps
<1> DEFINE row == CurrentRow(t)
           split == t.tableProps.strategy = "insert" /\ t.curCol < columns_in_row(row)
           head == SplitHead(row, t.curCol)
           tail == SplitTail(row, t.curCol)
           divided == WithRow(t, t.curRow, head).rows
           rows == IF split THEN vector_insert(divided, tail, t.curRow + 1) ELSE t.rows
           new == [t EXCEPT !.rows = rows, !.curCol = 0, !.curRow = @ + 1]
<1>1. ft_ln(t) = new
  BY DEF ft_ln, CurrentRow
<1>2. t.curRow \in Nat /\ t.curCol \in Nat /\ t.curRow + 1 \in Nat
  BY DEF HasRows
<1>3. row \in Seq(X)
  BY <1>2, RowType DEF CurrentRow
<1> HIDE DEF row
<1>4. head \in Seq(X) /\ tail \in Seq(X)
  BY <1>2, <1>3, SplitTypes
<1> HIDE DEF head, tail
<1>5. divided \in Seq(Seq(X)) /\ t.curRow + 1 <= Len(divided)
  BY <1>2, <1>4, WithRowRows
<1> HIDE DEF divided
<1>6. vector_insert(divided, tail, t.curRow + 1) \in Seq(Seq(X))
  <2> DEFINE Y == Seq(X)
  <2>1. divided \in Seq(Y) /\ tail \in Y
    BY <1>4, <1>5
  <2> HIDE DEF Y
  <2>2. vector_insert(divided, tail, t.curRow + 1) \in Seq(Y)
    BY <1>2, <1>5, <2>1, VectorInsertType
  <2> QED
    BY <2>2 DEF Y
<1>7. rows \in Seq(Seq(X))
  BY <1>6 DEF HasRows
<1> HIDE DEF rows
<1>8. /\ DOMAIN new = TableFields /\ new.rows = rows /\ new.tableProps = t.tableProps
      /\ new.curRow = t.curRow + 1 /\ new.curCol = 0
  BY DEF HasRows, TableFields
<1> HIDE DEF new
<1>9. HasRows(new, X)
  BY <1>2, <1>7, <1>8 DEF HasRows
<1>10. CurrentRow(new) \in Seq(X)
  BY <1>2, <1>8, <1>9, RowType DEF CurrentRow
<1>11. Within(new)
  BY <1>8, <1>10 DEF Within
<1> QED
  BY <1>1, <1>8, <1>9, <1>11

-----------------------------------------------------------------------------
(* Several texts *)

\* The least and the last of one or two positions.
LEMMA LastPosition == Max({1}) = 1 /\ Max({2}) = 2 /\ Max({1, 2}) = 2
BY DEF Max

\* One text after the other.
Texted(t, texts, g, s) == IF s = {} THEN t ELSE ft_write(g[s \ {Max(s)}], texts[Max(s)])

LEMMA TextedExists ==
  ASSUME NEW t, NEW texts, NEW S, S = {1} \/ S = {1, 2}
  PROVE  \E g : g = [s \in SUBSET S |-> Texted(t, texts, g, s)]
<1> DEFINE one == ft_write(t, texts[1])
           g == [s \in SUBSET S |-> CASE s = {} -> t
                                      [] s = {1} -> one
                                      [] s = {2} -> ft_write(t, texts[2])
                                      [] s = {1, 2} -> ft_write(one, texts[2])]
<1>1. \A s \in SUBSET S : s = {} \/ s = {1} \/ s = {2} \/ s = {1, 2}
  OBVIOUS
<1>2. {1} \ {1} = {} /\ {2} \ {2} = {} /\ {1, 2} \ {2} = {1} /\ {1} \in SUBSET S /\ {} \in SUBSET S
  OBVIOUS
<1>3. g[{}] = t /\ g[{1}] = one
  BY <1>2
<1>4. ASSUME NEW s \in SUBSET S PROVE g[s] = Texted(t, texts, g, s)
  <2>1. CASE s = {}
    BY <2>1 DEF Texted
  <2>2. CASE s = {1}
    <3>1. Texted(t, texts, g, s) = ft_write(g[{}], texts[1])
      BY <1>2, <2>2, LastPosition DEF Texted
    <3> QED
      BY <1>3, <2>2, <3>1
  <2>3. CASE s = {2}
    <3>1. Texted(t, texts, g, s) = ft_write(g[{}], texts[2])
      BY <1>2, <2>3, LastPosition DEF Texted
    <3> QED
      BY <1>3, <2>3, <3>1
  <2>4. CASE s = {1, 2}
    <3>1. Texted(t, texts, g, s) = ft_write(g[{1}], texts[2])
      BY <1>2, <2>4, LastPosition DEF Texted
    <3>2. g[s] = ft_write(one, texts[2])
      BY <2>4
    <3> QED
      BY <1>3, <3>1, <3>2
  <2> QED
    BY <1>1, <2>1, <2>2, <2>3, <2>4
<1> HIDE DEF g
<1>5. \A s \in SUBSET S : g[s] = Texted(t, texts, g, s)
  BY <1>4
<1>6. g = [s \in SUBSET S |-> g[s]]
  BY DEF g
<1>7. g = [s \in SUBSET S |-> Texted(t, texts, g, s)]
  BY <1>5, <1>6
<1> QED
  BY <1>7

LEMMA Texting ==
  ASSUME NEW t, NEW texts, DOMAIN texts = {1} \/ DOMAIN texts = {1, 2}
  PROVE  ft_nwrite(t, texts) =
           IF DOMAIN texts = {1} THEN ft_write(t, texts[1])
                                 ELSE ft_write(ft_write(t, texts[1]), texts[2])
<1> DEFINE S == DOMAIN texts
           g == CHOOSE g : g = [s \in SUBSET S |-> Texted(t, texts, g, s)]
<1>1. g = [s \in SUBSET S |-> Texted(t, texts, g, s)]
  BY TextedExists
<1>2. ft_nwrite(t, texts) = g[S]
  BY DEF ft_nwrite, FoldLeft, MapThenFoldSet, Texted
<1> HIDE DEF g
<1>3. {1} \ {1} = {} /\ {1, 2} \ {2} = {1} /\ {1} \in SUBSET S /\ {} \in SUBSET S
  OBVIOUS
<1>4. g[{}] = t
  BY <1>1, <1>3 DEF Texted
<1>5. g[{1}] = ft_write(t, texts[1])
  <2>1. g[{1}] = Texted(t, texts, g, {1})
    BY <1>1, <1>3
  <2>2. Texted(t, texts, g, {1}) = ft_write(g[{}], texts[1])
    BY <1>3, LastPosition DEF Texted
  <2> QED
    BY <1>4, <2>1, <2>2
<1>6. CASE S = {1}
  BY <1>2, <1>5, <1>6
<1>7. CASE S = {1, 2}
  <2>1. g[S] = Texted(t, texts, g, {1, 2})
    BY <1>1, <1>7
  <2>2. Texted(t, texts, g, {1, 2}) = ft_write(g[{1}], texts[2])
    BY <1>3, LastPosition DEF Texted
  <2>3. DOMAIN texts # {1}
    BY <1>7
  <2> QED
    BY <1>2, <1>5, <2>1, <2>2, <2>3
<1> QED
  BY <1>6, <1>7

\* One or two texts.
LEMMA OneTextIn ==
  ASSUME NEW X, NEW t, Writable(t, X), NEW a \in Seq(Nat)
  PROVE  Writable(ft_nwrite(t, <<a>>), X)
<1> DEFINE texts == <<a>>
<1>1. DOMAIN texts = {1} /\ texts[1] = a
  OBVIOUS
<1> HIDE DEF texts
<1>2. ft_nwrite(t, texts) = ft_write(t, a)
  BY <1>1, Texting
<1>3. Writable(ft_write(t, a), X)
  BY WriteIn
<1> QED
  BY <1>2, <1>3 DEF texts

LEMMA TwoTextsIn ==
  ASSUME NEW X, NEW t, Writable(t, X), NEW a \in Seq(Nat), NEW b \in Seq(Nat)
  PROVE  Writable(ft_nwrite(t, <<a, b>>), X)
<1> DEFINE texts == <<a, b>>
           u == ft_write(t, a)
<1>1. DOMAIN texts = {1, 2} /\ texts[1] = a /\ texts[2] = b /\ {1, 2} # {1}
  OBVIOUS
<1> HIDE DEF texts
<1>2. ft_nwrite(t, texts) = ft_write(u, b)
  BY <1>1, Texting
<1>3. Writable(u, X)
  BY WriteIn
<1> HIDE DEF u
<1>4. Writable(ft_write(u, b), X)
  BY <1>3, WriteIn
<1> QED
  BY <1>2, <1>4 DEF texts

\* A table of one line and then another.
Lined(t, lines, g, s) == IF s = {} THEN t ELSE WriteOnNextLine(g[s \ {Max(s)}], lines[Max(s)])

LEMMA Lining ==
  ASSUME NEW t, NEW lines, DOMAIN lines = {1}
  PROVE  FoldLeft(WriteOnNextLine, t, lines) = WriteOnNextLine(t, lines[1])
<1> DEFINE S == {1}
           f == [s \in SUBSET S |-> IF s = {} THEN t ELSE WriteOnNextLine(t, lines[1])]
           g == CHOOSE g : g = [s \in SUBSET S |-> Lined(t, lines, g, s)]
<1>1. {1} \ {1} = {} /\ {1} \in SUBSET S /\ {} \in SUBSET S /\ \A s \in SUBSET S : s = {} \/ s = {1}
  OBVIOUS
<1>2. \E h : h = [s \in SUBSET S |-> Lined(t, lines, h, s)]
  <2>1. f[{}] = t
    BY <1>1
  <2>2. ASSUME NEW s \in SUBSET S PROVE f[s] = Lined(t, lines, f, s)
    <3>1. CASE s = {}
      BY <3>1 DEF Lined
    <3>2. CASE s = {1}
      <4>1. Lined(t, lines, f, s) = WriteOnNextLine(f[{}], lines[1])
        BY <1>1, <3>2, LastPosition DEF Lined
      <4> QED
        BY <2>1, <3>2, <4>1
    <3> QED
      BY <1>1, <3>1, <3>2
  <2>3. f = [s \in SUBSET S |-> f[s]]
    OBVIOUS
  <2> HIDE DEF f
  <2>4. f = [s \in SUBSET S |-> Lined(t, lines, f, s)]
    BY <2>2, <2>3
  <2> QED
    BY <2>4
<1>3. g = [s \in SUBSET S |-> Lined(t, lines, g, s)]
  BY <1>2
<1>4. FoldLeft(WriteOnNextLine, t, lines) = g[S]
  BY DEF FoldLeft, MapThenFoldSet, Lined
<1> HIDE DEF g
<1>5. g[{}] = t
  BY <1>1, <1>3 DEF Lined
<1>6. g[{1}] = Lined(t, lines, g, {1})
  BY <1>1, <1>3
<1>7. Lined(t, lines, g, {1}) = WriteOnNextLine(g[{}], lines[1])
  BY <1>1, LastPosition DEF Lined
<1> QED
  BY <1>4, <1>5, <1>6, <1>7

LEMMA TableWriteIn ==
  ASSUME NEW X, NEW t, Writable(t, X), NEW a \in Seq(Nat), NEW b \in Seq(Nat)
  PROVE  Writable(ft_table_write(t, <<<<a>>, <<b>>>>), X)
<1> DEFINE grid == <<<<a>>, <<b>>>>
           lines == <<<<b>>>>
           u == ft_nwrite(t, <<a>>)
           v == ft_ln(u)
<1>1. grid[1] = <<a>> /\ Tail(grid) = lines /\ DOMAIN lines = {1} /\ lines[1] = <<b>>
  OBVIOUS
<1>2. ft_table_write(t, grid) = FoldLeft(WriteOnNextLine, u, lines)
  BY <1>1 DEF ft_table_write
<1> HIDE DEF grid, lines
<1>3. FoldLeft(WriteOnNextLine, u, lines) = WriteOnNextLine(u, <<b>>)
  BY <1>1, Lining
<1>4. Writable(u, X)
  BY OneTextIn
<1> HIDE DEF u
<1>5. Writable(v, X)
  BY <1>4, LnIn DEF Writable
<1>6. WriteOnNextLine(u, <<b>>) = ft_nwrite(v, <<b>>)
  BY DEF WriteOnNextLine
<1> HIDE DEF v
<1>7. Writable(ft_nwrite(v, <<b>>), X)
  BY <1>5, OneTextIn
<1> QED
  BY <1>2, <1>3, <1>6, <1>7 DEF grid

-----------------------------------------------------------------------------
(* Sums *)

\* How a sum is computed: one element after the other, in the order of CHOOSE.
Pick(s) == CHOOSE x \in s : TRUE
Turn(fun, g, s) == IF s = {} THEN 0 ELSE fun[Pick(s)] + g[s \ {Pick(s)}]
Agree(fun, gun, S) == \A x \in S : fun[x] = gun[x]
Solves(g, fun, S) == g = [s \in SUBSET S |-> Turn(fun, g, s)]

\* The element CHOOSE takes is one of the set.
LEMMA PickIn ==
  ASSUME NEW s, s # {}
  PROVE  Pick(s) \in s
  BY DEF Pick

\* The subsets of a finite set, smaller ones by smaller numbers.
LEMMA SmallerSets ==
  ASSUME NEW S, IsFiniteSet(S), NEW s \in SUBSET S
  PROVE  /\ IsFiniteSet(s) /\ Cardinality(s) \in Nat
         /\ Cardinality(s) <= Cardinality(S)
         /\ Cardinality(s) <= 0 => s = {}
         /\ \A x \in s : /\ s \ {x} \in SUBSET S
                         /\ Cardinality(s \ {x}) = Cardinality(s) - 1
<1>1. IsFiniteSet(s) /\ Cardinality(s) <= Cardinality(S)
  BY FS_Subset
<1>2. Cardinality(s) \in Nat
  BY <1>1, FS_CardinalityType
<1>3. Cardinality(s) = 0 <=> s = {}
  BY <1>1, FS_EmptySet
<1>4. \A x \in s : Cardinality(s \ {x}) = Cardinality(s) - 1
  BY <1>1, FS_RemoveElement
<1> QED
  BY <1>1, <1>2, <1>3, <1>4

\* The recursion of a sum over a finite set has a solution.
LEMMA SumExists ==
  ASSUME NEW fun, NEW S, IsFiniteSet(S)
  PROVE  \E g : Solves(g, fun, S)
<1> DEFINE Good(n) == \E g : \A s \in SUBSET S : Cardinality(s) <= n => g[s] = Turn(fun, g, s)
<1>1. Good(0)
  <2> DEFINE g == [s \in SUBSET S |-> 0]
  <2>1. \A s \in SUBSET S : Cardinality(s) <= 0 => g[s] = Turn(fun, g, s)
    BY SmallerSets DEF Turn
  <2> QED
    BY <2>1
<1>2. ASSUME NEW n \in Nat, Good(n) PROVE Good(n + 1)
  <2> PICK g : \A s \in SUBSET S : Cardinality(s) <= n => g[s] = Turn(fun, g, s)
    BY <1>2
  <2> DEFINE h == [s \in SUBSET S |-> IF Cardinality(s) <= n THEN g[s] ELSE Turn(fun, g, s)]
  <2>1. ASSUME NEW s \in SUBSET S, Cardinality(s) <= n + 1 PROVE h[s] = Turn(fun, g, s)
    BY <2>1
  <2>2. ASSUME NEW s \in SUBSET S, Cardinality(s) <= n + 1, s # {}
        PROVE  h[s \ {Pick(s)}] = g[s \ {Pick(s)}]
    <3>1. s \ {Pick(s)} \in SUBSET S /\ Cardinality(s \ {Pick(s)}) = Cardinality(s) - 1
          /\ Cardinality(s) \in Nat
      BY <2>2, PickIn, SmallerSets
    <3> QED
      BY <2>2, <3>1
  <2>3. \A s \in SUBSET S : Cardinality(s) <= n + 1 => h[s] = Turn(fun, h, s)
    BY <2>1, <2>2 DEF Turn
  <2> QED
    BY <2>3
<1> HIDE DEF Good
<1>3. \A n \in Nat : Good(n)
  <2> DEFINE T == {n \in Nat : ~Good(n)}
  <2>1. SUFFICES ASSUME T # {} PROVE FALSE
    OBVIOUS
  <2>2. PICK m \in T : m \in Nat /\ \A n \in Nat : n < m => n \notin T
    BY <2>1, LeastPosition
  <2>3. m # 0
    BY <1>1
  <2>4. m - 1 \in Nat /\ Good(m - 1)
    BY <2>2, <2>3
  <2> QED
    BY <1>2, <2>4
<1>4. PICK g : \A s \in SUBSET S : g[s] = Turn(fun, g, s)
  <2>1. Good(Cardinality(S))
    BY <1>3, FS_CardinalityType
  <2> QED
    BY <2>1, SmallerSets DEF Good
<1> DEFINE sum == [s \in SUBSET S |-> g[s]]
<1>5. ASSUME NEW s \in SUBSET S PROVE sum[s] = Turn(fun, sum, s)
  <2>1. s # {} => s \ {Pick(s)} \in SUBSET S
    OBVIOUS
  <2> QED
    BY <1>4, <2>1 DEF Turn
<1>6. sum = [s \in SUBSET S |-> Turn(fun, sum, s)]
  BY <1>5
<1> QED
  BY <1>6 DEF Solves

\* Two solutions agree where both are defined and the functions do.
LEMMA SumUnique ==
  ASSUME NEW S, IsFiniteSet(S), NEW fun, NEW gun, Agree(fun, gun, S),
         NEW T, S \subseteq T, NEW g, Solves(g, fun, T), NEW h, Solves(h, gun, S)
  PROVE  g[S] = h[S]
<1> DEFINE Bad == {n \in Nat : \E s \in SUBSET S : Cardinality(s) = n /\ g[s] # h[s]}
<1>1. SUFFICES ASSUME g[S] # h[S] PROVE FALSE
  OBVIOUS
<1>2. Cardinality(S) \in Bad
  BY <1>1, FS_CardinalityType
<1>3. PICK n \in Bad : n \in Nat /\ \A m \in Nat : m < n => m \notin Bad
  BY <1>2, LeastPosition
<1>4. PICK s \in SUBSET S : Cardinality(s) = n /\ g[s] # h[s]
  BY <1>3
<1>5. g[s] = Turn(fun, g, s) /\ h[s] = Turn(gun, h, s)
  BY <1>4 DEF Solves
<1>6. s # {}
  BY <1>4, <1>5 DEF Turn
<1> DEFINE t == s \ {Pick(s)}
<1>7. Pick(s) \in s
  BY <1>6, PickIn
<1>8. t \in SUBSET S /\ Cardinality(t) = n - 1 /\ Cardinality(t) \in Nat
  BY <1>4, <1>7, SmallerSets
<1> HIDE DEF t
<1>9. Cardinality(t) \notin Bad
  BY <1>3, <1>8
<1>10. g[t] = h[t]
  BY <1>8, <1>9
<1> QED
  BY <1>4, <1>5, <1>6, <1>7, <1>10 DEF Turn, Agree, t

\* The sum of the community modules is what a solution gives for the whole set.
LEMMA SumSolution ==
  ASSUME NEW fun, NEW S, IsFiniteSet(S)
  PROVE  \E g : Solves(g, fun, S) /\ SumFunctionOnSet(fun, S) = g[S]
<1> DEFINE g == CHOOSE g : Solves(g, fun, S)
<1>1. Solves(g, fun, S)
  BY SumExists
<1>2. SumFunctionOnSet(fun, S) = g[S]
  BY DEF SumFunctionOnSet, FoldFunctionOnSet, MapThenFoldSet, Solves, Turn, Pick
<1> QED
  BY <1>1, <1>2

\* A sum depends on the function's values on the set alone.
LEMMA SumCongruent ==
  ASSUME NEW S, IsFiniteSet(S), NEW fun, NEW gun, \A x \in S : fun[x] = gun[x]
  PROVE  SumFunctionOnSet(fun, S) = SumFunctionOnSet(gun, S)
<1>1. PICK g : Solves(g, fun, S) /\ SumFunctionOnSet(fun, S) = g[S]
  BY SumSolution
<1>2. PICK h : Solves(h, gun, S) /\ SumFunctionOnSet(gun, S) = h[S]
  BY SumSolution
<1>3. g[S] = h[S]
  BY <1>1, <1>2, SumUnique DEF Agree
<1> QED
  BY <1>1, <1>2, <1>3

\* One turn of the recursion: nothing, or one element and the sum of the others.
LEMMA SumTurn ==
  ASSUME NEW fun, NEW S, IsFiniteSet(S)
  PROVE  /\ S = {} => SumFunctionOnSet(fun, S) = 0
         /\ S # {} => SumFunctionOnSet(fun, S) =
                        fun[Pick(S)] + SumFunctionOnSet(fun, S \ {Pick(S)})
<1>1. PICK g : Solves(g, fun, S) /\ SumFunctionOnSet(fun, S) = g[S]
  BY SumSolution
<1>2. g[S] = Turn(fun, g, S)
  BY <1>1 DEF Solves
<1> DEFINE T == S \ {Pick(S)}
<1>3. IsFiniteSet(T) /\ T \subseteq S
  BY FS_RemoveElement
<1> HIDE DEF T
<1>4. PICK h : Solves(h, fun, T) /\ SumFunctionOnSet(fun, T) = h[T]
  BY <1>3, SumSolution
<1>5. g[T] = h[T]
  <2>1. Agree(fun, fun, T)
    BY DEF Agree
  <2> QED
    BY <1>1, <1>3, <1>4, <2>1, SumUnique
<1> QED
  BY <1>1, <1>2, <1>4, <1>5 DEF Turn, T

\* A sum of natural numbers is one, a sum of integers is one and one of zeros is zero.
LEMMA SumType ==
  ASSUME NEW R \in {Nat, Int, {0}}, NEW S, IsFiniteSet(S), NEW fun, \A x \in S : fun[x] \in R
  PROVE  SumFunctionOnSet(fun, S) \in R
<1> DEFINE Sum(T) == SumFunctionOnSet(fun, T)
           Bad == {n \in Nat : \E T \in SUBSET S : Cardinality(T) = n /\ Sum(T) \notin R}
<1>1. SUFFICES ASSUME Sum(S) \notin R PROVE FALSE
  OBVIOUS
<1> HIDE DEF Sum
<1>2. Cardinality(S) \in Bad
  BY <1>1, FS_CardinalityType
<1>3. PICK n \in Bad : n \in Nat /\ \A m \in Nat : m < n => m \notin Bad
  BY <1>2, LeastPosition
<1>4. PICK T \in SUBSET S : Cardinality(T) = n /\ Sum(T) \notin R
  BY <1>3
<1>5. IsFiniteSet(T)
  BY FS_Subset
<1>6. T # {}
  <2>1. Sum({}) = 0
    BY SumTurn, FS_EmptySet DEF Sum
  <2> QED
    BY <1>4, <2>1
<1> DEFINE t == T \ {Pick(T)}
<1>7. Pick(T) \in T /\ Sum(T) = fun[Pick(T)] + Sum(t)
  BY <1>5, <1>6, PickIn, SumTurn DEF Sum
<1>8. t \in SUBSET S /\ Cardinality(t) = n - 1 /\ Cardinality(t) \in Nat
  BY <1>4, <1>7, SmallerSets
<1> HIDE DEF t
<1>9. Cardinality(t) \notin Bad
  BY <1>3, <1>8
<1>10. Sum(t) \in R
  BY <1>8, <1>9
<1> QED
  BY <1>4, <1>7, <1>10

\* Any element may be taken out first.
LEMMA SumRemove ==
  ASSUME NEW S, IsFiniteSet(S), NEW fun, \A x \in S : fun[x] \in Int, NEW x \in S
  PROVE  SumFunctionOnSet(fun, S) = fun[x] + SumFunctionOnSet(fun, S \ {x})
<1> DEFINE Sum(T) == SumFunctionOnSet(fun, T)
           Good(T) == \A y \in T : Sum(T) = fun[y] + Sum(T \ {y})
           Bad == {n \in Nat : \E T \in SUBSET S : Cardinality(T) = n /\ ~Good(T)}
<1>1. SUFFICES ASSUME ~Good(S) PROVE FALSE
  OBVIOUS
<1>2. \A T \in SUBSET S : IsFiniteSet(T) /\ Sum(T) \in Int
  BY FS_Subset, SumType
<1> HIDE DEF Sum
<1>3. Cardinality(S) \in Bad
  BY <1>1, FS_CardinalityType
<1>4. PICK n \in Bad : n \in Nat /\ \A m \in Nat : m < n => m \notin Bad
  BY <1>3, LeastPosition
<1>5. PICK T \in SUBSET S : Cardinality(T) = n /\ ~Good(T)
  BY <1>4
<1>6. ASSUME NEW y \in T PROVE Good(T \ {y})
  <2> DEFINE t == T \ {y}
  <2>1. t \in SUBSET S /\ Cardinality(t) = n - 1 /\ Cardinality(t) \in Nat
    BY <1>5, SmallerSets
  <2> HIDE DEF t
  <2>2. Cardinality(t) \notin Bad
    BY <1>4, <2>1
  <2>3. Good(t)
    BY <2>1, <2>2
  <2> QED
    BY <2>3 DEF t
<1>7. PICK y \in T : Sum(T) # fun[y] + Sum(T \ {y})
  BY <1>5
<1> DEFINE c == Pick(T)
           rest == (T \ {c}) \ {y}
<1>8. c \in T /\ Sum(T) = fun[c] + Sum(T \ {c})
  BY <1>2, <1>7, PickIn, SumTurn DEF Sum
<1> HIDE DEF c
<1>9. y # c
  BY <1>7, <1>8
<1>10. Sum(T \ {c}) = fun[y] + Sum(rest)
  BY <1>6, <1>8, <1>9
<1>11. Sum(T \ {y}) = fun[c] + Sum(rest)
  <2>1. (T \ {y}) \ {c} = rest
    OBVIOUS
  <2> QED
    BY <1>6, <1>8, <1>9, <2>1
<1>12. fun[c] \in Int /\ fun[y] \in Int /\ Sum(rest) \in Int
  BY <1>2, <1>8
<1> HIDE DEF rest
<1> QED
  BY <1>7, <1>8, <1>10, <1>11, <1>12

\* A sum is what any function on the subsets gives that is zero for none of them
\* and grows with some element by its value.
AddsUp(h, fun, S) ==
  /\ h[{}] = 0
  /\ \A T \in SUBSET S : T # {} => \E x \in T : h[T] = fun[x] + h[T \ {x}]

\* Such sums are the sum of the values.
LEMMA SumIs ==
  ASSUME NEW S, IsFiniteSet(S), NEW fun, \A x \in S : fun[x] \in Int, NEW h, AddsUp(h, fun, S)
  PROVE  h[S] = SumFunctionOnSet(fun, S)
<1> DEFINE Sum(T) == SumFunctionOnSet(fun, T)
           Bad == {n \in Nat : \E T \in SUBSET S : Cardinality(T) = n /\ h[T] # Sum(T)}
<1>1. SUFFICES ASSUME h[S] # Sum(S) PROVE FALSE
  OBVIOUS
<1>2. Cardinality(S) \in Bad
  BY <1>1, FS_CardinalityType
<1>3. PICK n \in Bad : n \in Nat /\ \A m \in Nat : m < n => m \notin Bad
  BY <1>2, LeastPosition
<1>4. PICK T \in SUBSET S : Cardinality(T) = n /\ h[T] # Sum(T)
  BY <1>3
<1>5. IsFiniteSet(T)
  BY FS_Subset
<1>6. T # {}
  <2>1. Sum({}) = 0
    BY SumTurn, FS_EmptySet
  <2> QED
    BY <1>4, <2>1 DEF AddsUp
<1>7. PICK x \in T : h[T] = fun[x] + h[T \ {x}]
  BY <1>6 DEF AddsUp
<1>8. Sum(T) = fun[x] + Sum(T \ {x})
  BY <1>5, SumRemove
<1> DEFINE t == T \ {x}
<1>9. t \in SUBSET S /\ Cardinality(t) = n - 1 /\ Cardinality(t) \in Nat
  BY <1>4, SmallerSets
<1> HIDE DEF t, Sum
<1>10. Cardinality(t) \notin Bad
  BY <1>3, <1>9
<1>11. h[t] = Sum(t)
  BY <1>9, <1>10
<1> QED
  BY <1>4, <1>7, <1>8, <1>11 DEF t

\* A sum of one.
LEMMA SumOne ==
  ASSUME NEW fun, NEW x, fun[x] \in Int
  PROVE  SumFunctionOnSet(fun, {x}) = fun[x]
<1>1. SumFunctionOnSet(fun, {}) = 0
  BY SumTurn, FS_EmptySet
<1>2. SumFunctionOnSet(fun, {x}) = fun[x] + SumFunctionOnSet(fun, {x} \ {x})
  BY SumRemove, FS_Singleton
<1>3. {x} \ {x} = {}
  OBVIOUS
<1> QED
  BY <1>1, <1>2, <1>3

\* Two functions may be added before they are summed up or afterwards.
LEMMA SumAdd ==
  ASSUME NEW S, IsFiniteSet(S), NEW fun, NEW gun, NEW both,
         \A x \in S : fun[x] \in Int /\ gun[x] \in Int,
         \A x \in S : both[x] = fun[x] + gun[x]
  PROVE  SumFunctionOnSet(both, S) = SumFunctionOnSet(fun, S) + SumFunctionOnSet(gun, S)
<1> DEFINE F(T) == SumFunctionOnSet(fun, T)
           G(T) == SumFunctionOnSet(gun, T)
           h == [T \in SUBSET S |-> F(T) + G(T)]
<1>1. \A x \in S : both[x] \in Int
  OBVIOUS
<1>2. F({}) = 0 /\ G({}) = 0
  BY SumTurn, FS_EmptySet
<1>3. ASSUME NEW T \in SUBSET S PROVE F(T) \in Int /\ G(T) \in Int
  BY FS_Subset, SumType
<1>4. ASSUME NEW T \in SUBSET S, NEW x \in T
      PROVE  F(T) = fun[x] + F(T \ {x}) /\ G(T) = gun[x] + G(T \ {x})
  BY FS_Subset, SumRemove
<1> HIDE DEF F, G
<1>5. ASSUME NEW T \in SUBSET S, NEW x \in T PROVE h[T] = both[x] + h[T \ {x}]
  <2> DEFINE t == T \ {x}
  <2>1. t \in SUBSET S
    OBVIOUS
  <2>2. F(T) = fun[x] + F(t) /\ G(T) = gun[x] + G(t)
    BY <1>4
  <2> HIDE DEF t
  <2>3. F(t) \in Int /\ G(t) \in Int /\ h[t] = F(t) + G(t) /\ h[T] = F(T) + G(T)
    BY <1>3, <2>1
  <2>4. h[T] = both[x] + h[t]
    BY <2>2, <2>3
  <2> QED
    BY <2>4 DEF t
<1>6. h[{}] = 0
  BY <1>2
<1>7. h[S] = F(S) + G(S)
  OBVIOUS
<1> HIDE DEF h
<1>8. AddsUp(h, both, S)
  BY <1>5, <1>6 DEF AddsUp
<1> QED
  BY <1>1, <1>7, <1>8, SumIs DEF F, G

\* A sum of multiples.
LEMMA SumScale ==
  ASSUME NEW S, IsFiniteSet(S), NEW fun, NEW gun, NEW k \in Int,
         \A x \in S : fun[x] \in Int, \A x \in S : gun[x] = k * fun[x]
  PROVE  SumFunctionOnSet(gun, S) = k * SumFunctionOnSet(fun, S)
<1> DEFINE F(T) == SumFunctionOnSet(fun, T)
           h == [T \in SUBSET S |-> k * F(T)]
<1>1. \A x \in S : gun[x] \in Int
  OBVIOUS
<1>2. F({}) = 0
  BY SumTurn, FS_EmptySet
<1>3. ASSUME NEW T \in SUBSET S PROVE F(T) \in Int
  BY FS_Subset, SumType
<1>4. ASSUME NEW T \in SUBSET S, NEW x \in T PROVE F(T) = fun[x] + F(T \ {x})
  BY FS_Subset, SumRemove
<1> HIDE DEF F
<1>5. ASSUME NEW T \in SUBSET S, NEW x \in T PROVE h[T] = gun[x] + h[T \ {x}]
  <2> DEFINE t == T \ {x}
  <2>1. t \in SUBSET S /\ F(T) = fun[x] + F(t)
    BY <1>4
  <2> HIDE DEF t
  <2>2. F(t) \in Int /\ fun[x] \in Int /\ gun[x] = k * fun[x]
    BY <1>3, <2>1
  <2>3. h[t] = k * F(t) /\ h[T] = k * F(T)
    BY <2>1
  <2>4. k * (fun[x] + F(t)) = k * fun[x] + k * F(t)
    <3> DEFINE a == fun[x]
               b == F(t)
    <3>1. a \in Int /\ b \in Int
      BY <2>2
    <3> HIDE DEF a, b
    <3>2. k * (a + b) = k * a + k * b
      BY <3>1
    <3> QED
      BY <3>2 DEF a, b
  <2>5. h[T] = gun[x] + h[t]
    BY <2>1, <2>2, <2>3, <2>4
  <2> QED
    BY <2>5 DEF t
<1>6. h[{}] = 0
  <2>1. k * 0 = 0
    OBVIOUS
  <2> QED
    BY <1>2, <2>1
<1>7. h[S] = k * F(S)
  OBVIOUS
<1> HIDE DEF h
<1>8. AddsUp(h, gun, S)
  BY <1>5, <1>6 DEF AddsUp
<1> QED
  BY <1>1, <1>7, <1>8, SumIs DEF F

\* The sum of larger values is not smaller.
LEMMA SumMore ==
  ASSUME NEW S, IsFiniteSet(S), NEW fun, NEW gun,
         \A x \in S : fun[x] \in Int /\ gun[x] \in Int /\ fun[x] <= gun[x]
  PROVE  SumFunctionOnSet(fun, S) <= SumFunctionOnSet(gun, S)
<1> DEFINE d == [x \in S |-> gun[x] - fun[x]]
<1>1. \A x \in S : d[x] \in Nat /\ d[x] \in Int /\ gun[x] = fun[x] + d[x]
  OBVIOUS
<1> HIDE DEF d
<1>2. SumFunctionOnSet(gun, S) = SumFunctionOnSet(fun, S) + SumFunctionOnSet(d, S)
  BY <1>1, SumAdd
<1>3. SumFunctionOnSet(d, S) \in Nat
  BY <1>1, SumType
<1>4. SumFunctionOnSet(fun, S) \in Int
  BY SumType
<1> QED
  BY <1>2, <1>3, <1>4

\* A sum over two sets without common elements.
LEMMA SumParts ==
  ASSUME NEW S, IsFiniteSet(S), NEW A, NEW B, S = A \cup B, A \cap B = {},
         NEW fun, \A x \in S : fun[x] \in Int
  PROVE  SumFunctionOnSet(fun, S) = SumFunctionOnSet(fun, A) + SumFunctionOnSet(fun, B)
<1> DEFINE F(T) == SumFunctionOnSet(fun, T)
           h == [T \in SUBSET S |-> F(T \cap A) + F(T \cap B)]
<1>2. F({}) = 0
  BY SumTurn, FS_EmptySet
<1>3. ASSUME NEW T \in SUBSET S PROVE F(T) \in Int
  BY FS_Subset, SumType
<1>4. ASSUME NEW T \in SUBSET S, NEW x \in T PROVE F(T) = fun[x] + F(T \ {x})
  BY FS_Subset, SumRemove
<1> HIDE DEF F
<1>5. ASSUME NEW T \in SUBSET S, NEW x \in T PROVE h[T] = fun[x] + h[T \ {x}]
  <2> DEFINE t == T \ {x}
             a == T \cap A
             b == T \cap B
             c == t \cap A
             e == t \cap B
  <2>0. t \in SUBSET S /\ a \in SUBSET S /\ b \in SUBSET S /\ c \in SUBSET S /\ e \in SUBSET S
    OBVIOUS
  <2>1. h[T] = F(a) + F(b) /\ h[t] = F(c) + F(e)
    BY <2>0
  <2>2. (x \in a /\ c = a \ {x} /\ e = b) \/ (x \in b /\ e = b \ {x} /\ c = a)
    OBVIOUS
  <2> HIDE DEF t, a, b, c, e
  <2>3. F(a) \in Int /\ F(b) \in Int /\ F(c) \in Int /\ F(e) \in Int
    BY <1>3, <2>0
  <2>4. fun[x] \in Int
    OBVIOUS
  <2>5. CASE x \in a /\ c = a \ {x} /\ e = b
    <3>1. F(a) = fun[x] + F(c)
      BY <1>4, <2>0, <2>5
    <3>2. h[T] = fun[x] + h[t]
      BY <2>1, <2>3, <2>4, <2>5, <3>1
    <3> QED
      BY <3>2 DEF t
  <2>6. CASE x \in b /\ e = b \ {x} /\ c = a
    <3>1. F(b) = fun[x] + F(e)
      BY <1>4, <2>0, <2>6
    <3>2. h[T] = fun[x] + h[t]
      BY <2>1, <2>3, <2>4, <2>6, <3>1
    <3> QED
      BY <3>2 DEF t
  <2> QED
    BY <2>2, <2>5, <2>6
<1>6. h[{}] = 0
  <2>1. {} \in SUBSET S /\ {} \cap A = {} /\ {} \cap B = {}
    OBVIOUS
  <2>2. h[{}] = F({}) + F({})
    BY <2>1
  <2> QED
    BY <1>2, <2>2
<1>7. h[S] = F(A) + F(B)
  <2>1. S \cap A = A /\ S \cap B = B
    OBVIOUS
  <2> QED
    BY <2>1
<1> HIDE DEF h
<1>8. AddsUp(h, fun, S)
  BY <1>5, <1>6 DEF AddsUp
<1> QED
  BY <1>7, <1>8, SumIs DEF F

\* The same values at other places.

LEMMA SumMoved ==
  ASSUME NEW S, IsFiniteSet(S), NEW T, NEW f, f \in Bijection(S, T), NEW fun, NEW gun,
         \A x \in S : fun[x] \in Int /\ gun[f[x]] = fun[x]
  PROVE  SumFunctionOnSet(gun, T) = SumFunctionOnSet(fun, S)
<1> DEFINE G(U) == SumFunctionOnSet(gun, U)
           Img(U) == {f[x] : x \in U}
           h == [U \in SUBSET S |-> G(Img(U))]
<1>1. /\ f \in [S -> T] /\ \A x, y \in S : f[x] = f[y] => x = y
      /\ \A y \in T : \E x \in S : f[x] = y
  BY DEF Bijection, Injection, Surjection, IsInjective
<1>2. IsFiniteSet(T)
  BY FS_Surjection DEF Bijection
<1>3. \A y \in T : gun[y] \in Int
  BY <1>1
<1>4. ASSUME NEW U \in SUBSET T, NEW y \in U PROVE G(U) = gun[y] + G(U \ {y})
  BY <1>2, <1>3, FS_Subset, SumRemove
<1>5. G({}) = 0
  BY SumTurn, FS_EmptySet
<1> HIDE DEF G
<1>6. ASSUME NEW U \in SUBSET S, NEW x \in U PROVE h[U] = fun[x] + h[U \ {x}]
  <2>1. Img(U) \in SUBSET T /\ f[x] \in Img(U)
    BY <1>1
  <2>2. Img(U \ {x}) = Img(U) \ {f[x]}
    BY <1>1
  <2>3. G(Img(U)) = gun[f[x]] + G(Img(U) \ {f[x]})
    BY <1>4, <2>1
  <2>4. h[U] = G(Img(U)) /\ h[U \ {x}] = G(Img(U \ {x})) /\ gun[f[x]] = fun[x]
    OBVIOUS
  <2> HIDE DEF h, Img
  <2> QED
    BY <2>2, <2>3, <2>4
<1>7. h[{}] = 0
  <2>1. {} \in SUBSET S /\ Img({}) = {}
    OBVIOUS
  <2> QED
    BY <1>5, <2>1
<1>8. h[S] = G(T)
  <2>1. Img(S) = T
    BY <1>1
  <2> QED
    BY <2>1
<1> HIDE DEF h
<1>9. AddsUp(h, fun, S)
  BY <1>6, <1>7 DEF AddsUp
<1> QED
  BY <1>8, <1>9, SumIs DEF G

\* A sum of ones counts the set.
LEMMA SumOfOnes ==
  ASSUME NEW S, IsFiniteSet(S), NEW fun, \A x \in S : fun[x] = 1
  PROVE  SumFunctionOnSet(fun, S) = Cardinality(S)
<1> DEFINE h == [T \in SUBSET S |-> Cardinality(T)]
<1>1. ASSUME NEW T \in SUBSET S, NEW x \in T PROVE h[T] = fun[x] + h[T \ {x}]
  <2> DEFINE t == T \ {x}
  <2>1. t \in SUBSET S /\ Cardinality(t) = Cardinality(T) - 1 /\ Cardinality(T) \in Nat
    BY SmallerSets
  <2> HIDE DEF t
  <2>2. h[T] = Cardinality(T) /\ h[t] = Cardinality(t) /\ fun[x] = 1
    BY <2>1
  <2>3. h[T] = fun[x] + h[t]
    BY <2>1, <2>2
  <2> QED
    BY <2>3 DEF t
<1>2. h[{}] = 0
  BY FS_EmptySet
<1>3. h[S] = Cardinality(S)
  OBVIOUS
<1> HIDE DEF h
<1>4. AddsUp(h, fun, S)
  BY <1>1, <1>2 DEF AddsUp
<1> QED
  BY <1>3, <1>4, SumIs

\* The total of a function is the sum of its values.
LEMMA TotalIsSum ==
  ASSUME NEW fun
  PROVE  Total(fun) = SumFunctionOnSet(fun, DOMAIN fun)
BY DEF Total, FoldFunction, SumFunctionOnSet

-----------------------------------------------------------------------------
(* Formatted lines *)

\* How wide the fields are together.
LEMMA SumOfWidths ==
  ASSUME NEW fun, DOMAIN fun = {1} \/ DOMAIN fun = {1, 2}, \A x \in DOMAIN fun : fun[x] \in Nat
  PROVE  SumFunction(fun) \in Nat
<1> DEFINE S == DOMAIN fun
<1>1. IsFiniteSet(S)
  <2>1. IsFiniteSet({1}) /\ IsFiniteSet({2})
    BY FS_Singleton
  <2>2. IsFiniteSet({1} \cup {2})
    BY <2>1, FS_Union
  <2>3. {1} \cup {2} = {1, 2}
    OBVIOUS
  <2> QED
    BY <2>1, <2>2, <2>3
<1> HIDE DEF S
<1>2. \A x \in S : fun[x] \in Nat
  BY DEF S
<1>3. SumFunctionOnSet(fun, S) \in Nat
  BY <1>1, <1>2, SumType
<1> QED
  BY <1>3 DEF SumFunction, S

\* What a formatted line is cut into are cells.
LEMMA StringCells ==
  ASSUME NEW texts, DOMAIN texts = {1} \/ DOMAIN texts = {1, 2},
         \A x \in DOMAIN texts : texts[x] \in Seq(Nat)
  PROVE  create_row_from_string(texts) \in Seq(Cells)
<1> DEFINE cell(x) == [create_cell EXCEPT !.text = texts[x]]
<1>1. PICK n \in 1 .. 2 : DOMAIN texts = 1 .. n
  OBVIOUS
<1>2. \A x \in 1 .. n : cell(x) \in Cells
  BY <1>1 DEF create_cell, Cells
<1>3. n \in Nat
  BY <1>1
<1> HIDE DEF cell
<1>4. [x \in 1 .. n |-> cell(x)] \in Seq(Cells)
  BY <1>2, <1>3
<1>5. create_row_from_string(texts) = [x \in DOMAIN texts |-> cell(x)]
  BY DEF create_row_from_string, cell
<1> QED
  BY <1>1, <1>4, <1>5

LEMMA FormattedCells ==
  ASSUME NEW columns, NEW fields, DOMAIN fields = {1} \/ DOMAIN fields = {1, 2},
         \A x \in DOMAIN fields : fields[x] \in Fields, Len(fields) \in 1 .. 2
  PROVE  create_row_from_fmt_string(columns, fields) \in Seq(Cells)
<1> DEFINE widths == [i \in DOMAIN fields |-> fields[i][1]]
           sum == SumFunction(widths)
           whole == <<Len(fields) - 1 + sum>>
<1>1. \A f \in Fields : f \in Seq(Nat) /\ f[1] \in Nat
  <2>1. \A f \in Fields : \E n \in 1 .. 9 : f = <<n>>
    BY FortAssumption
  <2>2. \A n \in 1 .. 9 : <<n>> \in Seq(Nat) /\ <<n>>[1] \in Nat
    OBVIOUS
  <2> QED
    BY <2>1, <2>2
<1>2. DOMAIN widths = DOMAIN fields /\ \A x \in DOMAIN widths : widths[x] \in Nat
  BY <1>1
<1> HIDE DEF widths
<1>3. sum \in Nat
  BY <1>2, SumOfWidths
<1> HIDE DEF sum
<1>4. Len(fields) - 1 + sum \in Nat
  BY <1>3
<1> DEFINE texts == <<whole>>
<1>5. whole \in Seq(Nat)
  <2>1. \A n \in Nat : <<n>> \in Seq(Nat)
    OBVIOUS
  <2> QED
    BY <1>4, <2>1
<1> HIDE DEF whole
<1>10. DOMAIN texts = {1} /\ \A x \in DOMAIN texts : texts[x] \in Seq(Nat)
  BY <1>5
<1> HIDE DEF texts
<1>6. create_row_from_string(texts) \in Seq(Cells)
  BY <1>10, StringCells
<1>7. create_row_from_string(fields) \in Seq(Cells)
  BY <1>1, StringCells
<1>8. << >> \in Seq(Cells)
  BY EmptySeq
<1>9. create_row_from_fmt_string(columns, fields) =
        CASE Len(fields) = columns -> create_row_from_string(fields)
          [] columns = 1           -> create_row_from_string(texts)
          [] OTHER                 -> << >>
  BY DEF create_row_from_fmt_string, NoRow, texts, whole, sum, widths
<1> QED
  BY <1>6, <1>7, <1>8, <1>9

\* The cells of a formatted line leave the elements of the table in X, if they
\* skip none or X has what is left in their place.
LEMMA RowPrintfIn ==
  ASSUME NEW X, Cells \subseteq X, NEW t, HasRows(t, X), NEW cells \in Seq(Cells),
         \/ Hole \in X
         \/ cells # NoRow /\ t.tableProps.strategy # "insert" => Within(t)
  PROVE  HasRows(ft_row_printf(t, cells), X)
<1> DEFINE row == CurrentRow(t)
           new == IF t.tableProps.strategy = "insert"
                    THEN InsertedCells(row, cells, t.curCol)
                    ELSE vector_swap(row, cells, t.curCol)
           u == WithRow(t, t.curRow, new)
           v == [u EXCEPT !.curCol = @ + Len(cells)]
<1>1. CASE cells = NoRow
  BY <1>1 DEF ft_row_printf
<1>2. CASE cells # NoRow
  <2>1. ft_row_printf(t, cells) = v
    BY <1>2 DEF ft_row_printf, CurrentRow
  <2>2. t.curRow \in Nat /\ t.curCol \in Nat /\ cells \in Seq(X) /\ create_cell \in X
    BY CellFacts DEF HasRows
  <2>3. row \in Seq(X)
    BY <2>2, RowType DEF CurrentRow
  <2>4. InsertedCells(row, cells, t.curCol) \in Seq(X)
    <3> DEFINE padded == PushedUpTo(row, t.curCol, create_cell)
               head == SplitHead(padded, t.curCol)
               tail == SplitTail(padded, t.curCol)
    <3>1. padded \in Seq(X)
      BY <2>2, <2>3, PaddedType
    <3> HIDE DEF padded
    <3>2. head \in Seq(X) /\ tail \in Seq(X)
      BY <2>2, <3>1, SplitTypes
    <3> HIDE DEF head, tail
    <3>3. head \o cells \o tail \in Seq(X)
      BY <2>2, <3>2
    <3> QED
      BY <3>3 DEF InsertedCells, head, tail, padded
  <2>5. t.tableProps.strategy # "insert" => vector_swap(row, cells, t.curCol) \in Seq(X)
    <3>1. t.tableProps.strategy # "insert" => Hole \in X \/ t.curCol <= Len(row)
      BY <1>2 DEF Within
    <3> HIDE DEF row
    <3> QED
      BY <2>2, <2>3, <3>1, SwapType
  <2>6. new \in Seq(X)
    BY <2>4, <2>5
  <2> HIDE DEF row, new
  <2>7. u.rows \in Seq(Seq(X))
    BY <2>2, <2>6, WithRowRows
  <2>8. DOMAIN u = TableFields /\ u.curRow = t.curRow /\ u.curCol = t.curCol
    BY WithRowRest
  <2> HIDE DEF u
  <2>9. /\ DOMAIN v = TableFields /\ v.rows = u.rows
        /\ v.curRow = t.curRow /\ v.curCol = t.curCol + Len(cells)
    BY <2>8 DEF TableFields
  <2> HIDE DEF v
  <2>10. t.curCol + Len(cells) \in Nat
    BY <2>2
  <2>11. HasRows(v, X)
    BY <2>2, <2>7, <2>9, <2>10 DEF HasRows
  <2> QED
    BY <2>1, <2>11
<1> QED
  BY <1>1, <1>2

-----------------------------------------------------------------------------
(* Spans and erasures *)

LEMMA SpanClean ==
  ASSUME NEW t, Clean(t), NEW r \in Nat, NEW c \in Nat, NEW span \in Nat
  PROVE  Clean(ft_set_cell_span(t, r, c, span))
<1> DEFINE old == RowOrEmpty(t, r)
           row == PushedUpTo(old, c + span, create_cell)
           spanned(i) == CASE i = c + 1               -> [row[i] EXCEPT !.type = "master"]
                           [] i \in c + 2 .. c + span -> [row[i] EXCEPT !.type = "slave"]
                           [] OTHER                   -> row[i]
<1>1. old \in Seq(Cells)
  BY RowType DEF Clean
<1> HIDE DEF old
<1>2. row \in Seq(Cells)
  <2>1. c + span \in Nat /\ create_cell \in Cells
    BY CellFacts
  <2> QED
    BY <1>1, <2>1, PaddedType
<1> HIDE DEF row
<1>3. \A cell \in Cells : /\ [cell EXCEPT !.type = "master"] \in Cells
                          /\ [cell EXCEPT !.type = "slave"] \in Cells
  BY DEF Cells
<1>4. \A i \in 1 .. Len(row) : row[i] \in Cells
  BY <1>2
<1>5. \A i \in 1 .. Len(row) : spanned(i) \in Cells
  BY <1>3, <1>4
<1>6. DOMAIN row = 1 .. Len(row) /\ Len(row) \in Nat
  BY <1>2
<1> HIDE DEF spanned
<1>7. [i \in DOMAIN row |-> spanned(i)] \in Seq(Cells)
  BY <1>5, <1>6
<1>8. row_set_cell_span(old, c, span) \in Seq(Cells)
  BY <1>7 DEF row_set_cell_span, spanned, row
<1>9. Clean(WithRow(t, r, row_set_cell_span(old, c, span)))
  BY <1>8, WithRowIn DEF Clean
<1> QED
  BY <1>9 DEF ft_set_cell_span, old

LEMMA EraseClean ==
  ASSUME NEW t, Clean(t), NEW top, NEW left, NEW bottom, NEW right
  PROVE  Clean(ft_erase_range(t, top, left, bottom, right))
<1> DEFINE X == Seq(Cells)
           part(i) == IF i - 1 \in top .. bottom THEN ft_row_erase_range(t.rows[i], left, right)
                                                 ELSE t.rows[i]
           cut == [i \in DOMAIN t.rows |-> part(i)]
           gone == {r \in top .. bottom : r < Len(t.rows) /\ vector_at(cut, r) = << >>}
           new == [t EXCEPT !.rows = Erased(cut, gone), !.separators = Erased(@, gone)]
<1>1. ft_erase_range(t, top, left, bottom, right) = new
  BY DEF ft_erase_range
<1>2. \A i \in 1 .. Len(t.rows) : t.rows[i] \in Seq(Cells)
  BY DEF Clean, HasRows
<1>3. ASSUME NEW i \in 1 .. Len(t.rows) PROVE part(i) \in X
  BY <1>2, ErasedType DEF ft_row_erase_range
<1>4. DOMAIN t.rows = 1 .. Len(t.rows) /\ Len(t.rows) \in Nat
  BY DEF Clean, HasRows
<1> HIDE DEF part, X
<1>5. cut \in Seq(X)
  BY <1>3, <1>4
<1> HIDE DEF cut, gone
<1>6. Erased(cut, gone) \in Seq(X)
  BY <1>5, ErasedType
<1>7. /\ DOMAIN new = TableFields /\ new.rows = Erased(cut, gone)
      /\ new.curRow = t.curRow /\ new.curCol = t.curCol
  BY DEF Clean, HasRows, TableFields
<1> HIDE DEF new
<1>8. Clean(new)
  BY <1>6, <1>7 DEF Clean, HasRows, X
<1> QED
  BY <1>1, <1>8

\* What leaves rows and cursor alone leaves a clean table.
LEMMA OtherFieldsClean ==
  ASSUME NEW t, Clean(t), NEW u, DOMAIN u = DOMAIN t, u.rows = t.rows,
         u.curRow \in Nat, u.curCol \in Nat
  PROVE  Clean(u)
BY DEF Clean, HasRows

-----------------------------------------------------------------------------
(* Calls in any order *)

\* A table without holes, all elements of which are cells or holes, is clean.
LEMMA TypedAndWhole ==
  ASSUME NEW t, Typed(t), ~Holes(t)
  PROVE  Clean(t)
<1>1. ASSUME NEW i \in 1 .. Len(t.rows) PROVE t.rows[i] \in Seq(Cells)
  <2>1. t.rows[i] \in Seq(Elements) /\ i \in DOMAIN t.rows
    BY DEF Typed, HasRows
  <2>2. \A j \in 1 .. Len(t.rows[i]) : t.rows[i][j] \in Cells
    BY <2>1 DEF Holes, Elements
  <2> QED
    BY <2>1, <2>2
<1>2. t.rows \in Seq(Seq(Elements))
  BY DEF Typed, HasRows
<1> DEFINE Y == Seq(Cells)
           Z == Seq(Elements)
<1>3. t.rows \in Seq(Z) /\ \A i \in 1 .. Len(t.rows) : t.rows[i] \in Y
  BY <1>1, <1>2
<1> HIDE DEF Y, Z
<1>4. t.rows \in Seq(Y)
  BY <1>3
<1> QED
  BY <1>4 DEF Typed, Clean, HasRows, Y

\* A clean table has elements that are cells or holes.
LEMMA CleanIsTyped ==
  ASSUME NEW t, Clean(t)
  PROVE  Typed(t)
<1>1. \A i \in 1 .. Len(t.rows) : t.rows[i] \in Seq(Elements)
  BY DEF Clean, HasRows, Elements
<1> DEFINE Y == Seq(Elements)
           Z == Seq(Cells)
<1>2. t.rows \in Seq(Z) /\ \A i \in 1 .. Len(t.rows) : t.rows[i] \in Y
  BY <1>1 DEF Clean, HasRows
<1> HIDE DEF Y, Z
<1>3. t.rows \in Seq(Y)
  BY <1>2
<1> QED
  BY <1>3 DEF Typed, Clean, HasRows, Y

\* What is always so: the elements are cells or holes, and as long as no call
\* skipped cells they are cells.
TablesTyped == Typed(table)
CleanUnlessSkipped == skipped \/ Clean(table)

\* A call is made on a clean table.
LEMMA CallsOnClean ==
  ASSUME Typed(table), Call
  PROVE  Clean(table)
BY TypedAndWhole DEF Call

\* The cursor is past the end of the row unless it is within.
LEMMA PastOrWithin ==
  ASSUME Clean(table)
  PROVE  PastTheEnd <=> ~Within(table)
<1>1. table.curRow \in Nat /\ table.curCol \in Nat
  BY DEF Clean, HasRows
<1>2. CurrentRow(table) \in Seq(Cells)
  BY <1>1, RowType DEF CurrentRow, Clean
<1>3. Len(CurrentRow(table)) \in Nat
  BY <1>2
<1>4. PastTheEnd <=> table.curCol > Len(CurrentRow(table))
  BY DEF PastTheEnd, columns_in_row, CurrentRow
<1> QED
  BY <1>1, <1>3, <1>4 DEF Within

\* A text can be written into a clean table, and leaves a clean one if it does
\* not skip cells.
LEMMA TextStep ==
  ASSUME Clean(table), NEW u,
         \A X : Writable(table, X) => HasRows(u, X)
  PROVE  /\ Typed(u)
         /\ ~(table.tableProps.strategy = "insert" /\ PastTheEnd) => Clean(u)
<1>1. Typed(table) /\ Cells \subseteq Elements /\ Hole \in Elements
  BY CleanIsTyped DEF Elements
<1>2. CASE table.tableProps.strategy = "insert"
  <2>1. Writable(table, Elements)
    BY <1>1, <1>2 DEF Writable, Typed
  <2>2. Within(table) => Writable(table, Cells)
    BY <1>2 DEF Writable, Clean
  <2> QED
    BY <1>2, <2>1, <2>2, PastOrWithin DEF Typed, Clean
<1>3. CASE table.tableProps.strategy # "insert"
  <2>1. Writable(table, Cells)
    BY <1>3 DEF Writable, Clean
  <2>2. Clean(u)
    BY <2>1 DEF Clean
  <2> QED
    BY <2>2, CleanIsTyped
<1> QED
  BY <1>2, <1>3

\* After the call the elements are cells or holes, and cells if it is not
\* marked as skipping some.
Kept == Typed(table') /\ (~skipped' => Clean(table'))

LEMMA WriteStep ==
  ASSUME Clean(table), Write
  PROVE  Kept
<1>1. PICK text \in Texts : table' = ft_write(table, text)
  BY DEF Write
<1>2. text \in Seq(Nat)
  BY FortAssumption
<1>3. ASSUME NEW X, Writable(table, X) PROVE HasRows(table', X)
  BY <1>1, <1>2, <1>3, WriteIn DEF Writable
<1>4. /\ Typed(table')
      /\ ~(table.tableProps.strategy = "insert" /\ PastTheEnd) => Clean(table')
  BY <1>3, TextStep
<1> QED
  BY <1>4 DEF Kept, Write

LEMMA WriteTableStep ==
  ASSUME Clean(table), WriteTable
  PROVE  Kept
<1>1. PICK a, b \in Texts : table' = ft_table_write(table, <<<<a>>, <<b>>>>)
  BY DEF WriteTable
<1>2. a \in Seq(Nat) /\ b \in Seq(Nat)
  BY FortAssumption
<1>3. ASSUME NEW X, Writable(table, X) PROVE HasRows(table', X)
  <2>1. Writable(ft_table_write(table, <<<<a>>, <<b>>>>), X)
    BY <1>2, <1>3, TableWriteIn
  <2> QED
    BY <1>1, <2>1 DEF Writable
<1>4. /\ Typed(table')
      /\ ~(table.tableProps.strategy = "insert" /\ PastTheEnd) => Clean(table')
  BY <1>3, TextStep
<1> QED
  BY <1>4 DEF Kept, WriteTable

LEMMA WriteLnStep ==
  ASSUME Clean(table), WriteLn
  PROVE  Kept
<1>1. PICK a, b \in Texts : table' = ft_nwrite_ln(table, <<a, b>>)
  BY DEF WriteLn
<1>2. a \in Seq(Nat) /\ b \in Seq(Nat)
  BY FortAssumption
<1>3. ASSUME NEW X, Writable(table, X) PROVE HasRows(table', X)
  <2>1. HasRows(ft_nwrite(table, <<a, b>>), X)
    BY <1>2, <1>3, TwoTextsIn DEF Writable
  <2>2. HasRows(ft_ln(ft_nwrite(table, <<a, b>>)), X)
    BY <2>1, LnIn
  <2> QED
    BY <1>1, <2>2 DEF ft_nwrite_ln
<1>4. /\ Typed(table')
      /\ ~(table.tableProps.strategy = "insert" /\ PastTheEnd) => Clean(table')
  BY <1>3, TextStep
<1> QED
  BY <1>4 DEF Kept, WriteLn

\* One or two fields.
LEMMA SomeFields ==
  ASSUME NEW f \in Fields, NEW g \in Fields, NEW n \in 1 .. 2
  PROVE  LET fields == SubSeq(<<f, g>>, 1, n)
         IN  /\ DOMAIN fields = {1} \/ DOMAIN fields = {1, 2}
             /\ \A x \in DOMAIN fields : fields[x] \in Fields
             /\ Len(fields) \in 1 .. 2
<1> DEFINE both == <<f, g>>
           fields == SubSeq(both, 1, n)
<1>1. \A i \in 1 .. n : both[i] \in Fields
  OBVIOUS
<1> HIDE DEF both
<1>2. fields \in Seq(Fields) /\ Len(fields) = n
  BY <1>1, SubSeqProperties
<1> HIDE DEF fields
<1>3. DOMAIN fields = 1 .. n
  BY <1>2, LenProperties
<1>4. 1 .. n = {1} \/ 1 .. n = {1, 2}
  OBVIOUS
<1>5. \A x \in DOMAIN fields : fields[x] \in Fields
  BY <1>2
<1> QED
  BY <1>2, <1>3, <1>4, <1>5 DEF fields, both

LEMMA PrintfStep ==
  ASSUME Clean(table), Printf
  PROVE  Kept
<1>1. PICK columns \in 1 .. 2, f, g \in Fields, n \in 1 .. 2 :
        LET fields == SubSeq(<<f, g>>, 1, n)
            some   == create_row_from_fmt_string(columns, fields) # NoRow
        IN  /\ table' \in {ft_printf(table, columns, fields),
                           ft_printf_ln(table, columns, fields)}
            /\ skipped' = \/ skipped
                          \/ some /\ table.tableProps.strategy # "insert" /\ PastTheEnd
  BY DEF Printf
<1> DEFINE fields == SubSeq(<<f, g>>, 1, n)
           cells == create_row_from_fmt_string(columns, fields)
           u == ft_row_printf(table, cells)
<1>2. table' = u \/ table' = IF cells = NoRow THEN table ELSE ft_ln(u)
  BY <1>1 DEF ft_printf, ft_printf_ln
<1>3. ~skipped' => (cells # NoRow /\ table.tableProps.strategy # "insert" => ~PastTheEnd)
  BY <1>1
<1>4. /\ DOMAIN fields = {1} \/ DOMAIN fields = {1, 2}
      /\ \A x \in DOMAIN fields : fields[x] \in Fields
      /\ Len(fields) \in 1 .. 2
  BY SomeFields
<1> HIDE DEF fields
<1>5. cells \in Seq(Cells)
  BY <1>4, FormattedCells
<1> HIDE DEF cells
<1>6. ASSUME NEW X, Cells \subseteq X, HasRows(table, X),
             \/ Hole \in X
             \/ cells # NoRow /\ table.tableProps.strategy # "insert" => Within(table)
      PROVE  HasRows(table', X)
  <2>1. HasRows(u, X)
    BY <1>5, <1>6, RowPrintfIn
  <2> HIDE DEF u
  <2>2. HasRows(ft_ln(u), X)
    BY <2>1, LnIn
  <2> QED
    BY <1>2, <1>6, <2>1, <2>2
<1>7. Typed(table')
  <2>1. Cells \subseteq Elements /\ Hole \in Elements /\ HasRows(table, Elements)
    BY CleanIsTyped DEF Elements, Typed
  <2> QED
    BY <1>6, <2>1 DEF Typed
<1>8. ~skipped' => Clean(table')
  <2> SUFFICES ASSUME ~skipped' PROVE Clean(table')
    OBVIOUS
  <2>1. cells # NoRow /\ table.tableProps.strategy # "insert" => Within(table)
    BY <1>3, PastOrWithin
  <2>2. Cells \subseteq Cells /\ HasRows(table, Cells)
    BY DEF Clean
  <2>3. HasRows(table', Cells)
    BY <1>6, <2>1, <2>2
  <2> QED
    BY <2>3 DEF Clean
<1> QED
  BY <1>7, <1>8 DEF Kept

LEMMA SetCurCellStep ==
  ASSUME Clean(table), SetCurCell
  PROVE  Clean(table')
<1>1. PICK r \in 0 .. MaxRows - 1, c \in 0 .. MaxCols - 1 :
        table' = [table EXCEPT !.curRow = r, !.curCol = c]
  BY DEF SetCurCell
<1>2. r \in Nat /\ c \in Nat
  BY FortAssumption
<1> QED
  BY <1>1, <1>2 DEF Clean, HasRows, TableFields

LEMMA SetCellSpanStep ==
  ASSUME Clean(table), SetCellSpan
  PROVE  Clean(table')
<1>1. PICK r \in 0 .. MaxRows - 1, c \in 0 .. MaxCols - 1, span \in 1 .. MaxCols :
        table' = ft_set_cell_span(table, r, c, span)
  BY DEF SetCellSpan
<1>2. r \in Nat /\ c \in Nat /\ span \in Nat
  BY FortAssumption
<1> QED
  BY <1>1, <1>2, SpanClean

\* The calls that change neither the rows nor the cursor.
LEMMA OtherSteps ==
  ASSUME Clean(table), AddSeparator \/ SetCellProp \/ SetTableProp
  PROVE  Clean(table')
<1>1. /\ DOMAIN table' = DOMAIN table /\ table'.rows = table.rows
      /\ table'.curRow = table.curRow /\ table'.curCol = table.curCol
  BY DEF AddSeparator, ft_add_separator, SetCellProp, SetTableProp, Clean, HasRows, TableFields
<1> QED
  BY <1>1 DEF Clean, HasRows

LEMMA EraseStep ==
  ASSUME Clean(table), EraseRange
  PROVE  Clean(table')
<1>1. \/ table' = table
      \/ \E top, bottom \in 0 .. MaxRows - 1, left, right \in 0 .. MaxCols - 1 :
           table' = ft_erase_range(table, top, left, bottom, right)
  BY DEF EraseRange
<1> QED
  BY <1>1, EraseClean

LEMMA LnStep ==
  ASSUME Clean(table), Ln
  PROVE  Clean(table')
BY LnIn DEF Ln, Clean

\* A call keeps the elements cells or holes, and cells only unless it is marked
\* as skipping some.
LEMMA TableStep ==
  ASSUME TablesTyped, CleanUnlessSkipped, [Next]_fortVars
  PROVE  TablesTyped' /\ CleanUnlessSkipped'
<1>1. CASE UNCHANGED fortVars
  BY <1>1 DEF fortVars, TablesTyped, CleanUnlessSkipped
<1>2. CASE Next
  <2>1. Call
    BY <1>2 DEF Next, Write, WriteTable, WriteLn, Printf, Ln, SetCurCell, AddSeparator,
               SetCellSpan, SetCellProp, SetTableProp, EraseRange
  <2>2. Clean(table)
    BY <2>1, CallsOnClean DEF TablesTyped
  <2>3. Write => Kept
    BY <2>2, WriteStep
  <2>4. WriteTable => Kept
    BY <2>2, WriteTableStep
  <2>5. WriteLn => Kept
    BY <2>2, WriteLnStep
  <2>6. Printf => Kept
    BY <2>2, PrintfStep
  <2>7. Ln => Clean(table')
    BY <2>2, LnStep
  <2>8. SetCurCell => Clean(table')
    BY <2>2, SetCurCellStep
  <2>9. (AddSeparator \/ SetCellProp \/ SetTableProp) => Clean(table')
    BY <2>2, OtherSteps
  <2>10. SetCellSpan => Clean(table')
    BY <2>2, SetCellSpanStep
  <2>11. EraseRange => Clean(table')
    BY <2>2, EraseStep
  <2>12. Kept \/ Clean(table')
    BY <1>2, <2>3, <2>4, <2>5, <2>6, <2>7, <2>8, <2>9, <2>10, <2>11 DEF Next
  <2>13. Typed(table') /\ (~skipped' => Clean(table'))
    BY <2>12, CleanIsTyped DEF Kept
  <2> QED
    BY <2>13 DEF TablesTyped, CleanUnlessSkipped
<1> QED
  BY <1>1, <1>2

LEMMA TableInitially == Init => TablesTyped /\ CleanUnlessSkipped
<1> SUFFICES ASSUME Init PROVE Clean(table)
  BY CleanIsTyped DEF CleanUnlessSkipped, TablesTyped
<1>1. << >> \in Seq(Seq(Cells))
  BY EmptySeq
<1> QED
  BY <1>1 DEF Init, ft_create_table, Clean, HasRows, TableFields

\* The rows of a table are sequences of cells that were created or were not,
\* and in a table for which no call skipped cells they all were, after any
\* number of calls.
THEOREM NoSkipNoHoles == Spec => [](TablesTyped /\ CleanUnlessSkipped)
<1>1. TablesTyped /\ CleanUnlessSkipped /\ [Next]_fortVars => (TablesTyped /\ CleanUnlessSkipped)'
  BY TableStep
<1> QED
  BY <1>1, TableInitially, PTL DEF Spec

\* Cells that were never created come only from calls that put cells past the
\* end of a row, whatever is written, set, spanned or erased, and in whatever
\* order.
THEOREM HolesOnlyFromSkips == Spec => []HolesComeFromSkips
<1>1. CleanUnlessSkipped => HolesComeFromSkips
  BY CleanHasNoHoles DEF CleanUnlessSkipped, HolesComeFromSkips
<1> QED
  BY <1>1, NoSkipNoHoles, PTL

-----------------------------------------------------------------------------
(* The lines of a printed table *)

\* A finite set of natural numbers that has an element has a largest one.
HasLargest(S) == \E x \in S : \A y \in S : x >= y

LEMMA LargestOfMany ==
  ASSUME NEW S \in SUBSET Nat, IsFiniteSet(S), S # {},
         \A T \in SUBSET Nat : IsFiniteSet(T) /\ T # {} /\ Cardinality(T) = Cardinality(S) - 1
           => HasLargest(T)
  PROVE  HasLargest(S)
<1>1. PICK x \in S : TRUE
  OBVIOUS
<1> DEFINE T == S \ {x}
<1>2. T \in SUBSET Nat /\ IsFiniteSet(T) /\ Cardinality(T) = Cardinality(S) - 1
  BY FS_RemoveElement
<1>3. CASE T = {}
  <2>1. S = {x} /\ x \in Nat
    BY <1>3
  <2> QED
    BY <2>1 DEF HasLargest
<1>4. CASE T # {}
  <2>1. PICK y \in T : \A z \in T : y >= z
    BY <1>2, <1>4 DEF HasLargest
  <2>2. CASE x >= y
    <3>1. ASSUME NEW z \in S PROVE x >= z
      <4>1. x \in Nat /\ y \in Nat /\ z \in Nat
        OBVIOUS
      <4>2. z = x \/ y >= z
        BY <2>1
      <4> QED
        BY <2>2, <4>1, <4>2
    <3> QED
      BY <3>1 DEF HasLargest
  <2>3. CASE ~(x >= y)
    <3>1. ASSUME NEW z \in S PROVE y >= z
      <4>1. x \in Nat /\ y \in Nat /\ z \in Nat
        OBVIOUS
      <4>2. z = x \/ y >= z
        BY <2>1
      <4> QED
        BY <2>3, <4>1, <4>2
    <3> QED
      BY <3>1 DEF HasLargest
  <2> QED
    BY <2>2, <2>3
<1> QED
  BY <1>3, <1>4

LEMMA LargestExists ==
  ASSUME NEW S \in SUBSET Nat, IsFiniteSet(S), S # {}
  PROVE  HasLargest(S)
<1> DEFINE Bad(n) == \E Z \in SUBSET Nat :
                       IsFiniteSet(Z) /\ Z # {} /\ Cardinality(Z) = n /\ ~HasLargest(Z)
           T == {n \in Nat : Bad(n)}
<1>1. T = {}
  <2>1. SUFFICES ASSUME T # {} PROVE FALSE
    OBVIOUS
  <2>2. PICK m \in T : m \in Nat /\ \A n \in Nat : n < m => n \notin T
    BY <2>1, LeastPosition
  <2>3. PICK Z \in SUBSET Nat :
          IsFiniteSet(Z) /\ Z # {} /\ Cardinality(Z) = m /\ ~HasLargest(Z)
    BY <2>2
  <2>4. m # 0
    BY <2>3, FS_EmptySet
  <2>5. m - 1 \in Nat /\ m - 1 \notin T
    BY <2>2, <2>4
  <2>6. \A Y \in SUBSET Nat : IsFiniteSet(Y) /\ Y # {} /\ Cardinality(Y) = m - 1 => HasLargest(Y)
    BY <2>5
  <2> QED
    BY <2>3, <2>6, LargestOfMany
<1>2. Cardinality(S) \in Nat
  BY FS_CardinalityType
<1> QED
  BY <1>1, <1>2

LEMMA MaxOfType ==
  ASSUME NEW S \in SUBSET Nat, IsFiniteSet(S)
  PROVE  MaxOf(S) \in Nat /\ \A x \in S : MaxOf(S) >= x
<1> DEFINE Z == S \cup {0}
<1>1. Z \in SUBSET Nat /\ IsFiniteSet(Z) /\ Z # {}
  BY FS_AddElement
<1>2. HasLargest(Z)
  BY <1>1, LargestExists
<1>3. Max(Z) \in Z /\ \A y \in Z : Max(Z) >= y
  BY <1>2 DEF HasLargest, Max
<1> QED
  BY <1>1, <1>3 DEF MaxOf

\* The number of columns is one, and no row has more cells.
LEMMA ColumnsType ==
  ASSUME NEW X, NEW t, HasRows(t, X)
  PROVE  /\ Columns(t) \in Nat /\ Len(t.rows) \in Nat
         /\ Len(t.rows) = 0 => Columns(t) = 0
<1> DEFINE n == Len(t.rows)
           lengths == {Len(t.rows[i]) : i \in DOMAIN t.rows}
<1>1. n \in Nat /\ DOMAIN t.rows = 1 .. n /\ \A i \in 1 .. n : Len(t.rows[i]) \in Nat
  BY DEF HasRows
<1>2. IsFiniteSet(1 .. n)
  BY <1>1, FS_Interval
<1>3. lengths \in SUBSET Nat /\ IsFiniteSet(lengths)
  <2>1. IsFiniteSet(DOMAIN t.rows)
    BY <1>1, <1>2
  <2> DEFINE f == [i \in DOMAIN t.rows |-> Len(t.rows[i])]
  <2>3. f \in Surjection(DOMAIN t.rows, lengths)
    BY DEF Surjection
  <2>2. IsFiniteSet(lengths)
    BY <2>1, <2>3, FS_Surjection
  <2> QED
    BY <1>1, <2>2
<1>4. n = 0 => lengths = {}
  BY <1>1
<1>5. Columns(t) = MaxOf(lengths)
  BY DEF Columns
<1> HIDE DEF lengths
<1>6. MaxOf(lengths) \in Nat
  BY <1>3, MaxOfType
<1>7. MaxOf({}) = 0
  BY DEF MaxOf, Max
<1> QED
  BY <1>1, <1>4, <1>5, <1>6, <1>7

\* The columns are those from 0 on, and one less are not the first.
LEMMA ColumnFacts ==
  ASSUME NEW X, NEW t, HasRows(t, X)
  PROVE  /\ IsFiniteSet(ColumnNumbers(t)) /\ Cardinality(ColumnNumbers(t)) = Columns(t)
         /\ Columns(t) # 0 => /\ IsFiniteSet(ColumnNumbers(t) \ {0})
                              /\ Cardinality(ColumnNumbers(t) \ {0}) = Columns(t) - 1
<1>1. Columns(t) \in Nat
  BY ColumnsType
<1>2. /\ IsFiniteSet(0 .. Columns(t) - 1)
      /\ Cardinality(0 .. Columns(t) - 1) = Columns(t)
  <2> DEFINE k == Columns(t) - 1
  <2>1. k \in Int /\ 0 \in Int /\ k - 0 + 1 = Columns(t) /\ (0 > k <=> Columns(t) = 0)
    BY <1>1
  <2> HIDE DEF k
  <2>2. IsFiniteSet(0 .. k) /\ Cardinality(0 .. k) = IF 0 > k THEN 0 ELSE k - 0 + 1
    BY <2>1, FS_Interval
  <2>3. Cardinality(0 .. k) = Columns(t)
    BY <2>1, <2>2
  <2> QED
    BY <2>2, <2>3 DEF k
<1>3. ColumnNumbers(t) = 0 .. Columns(t) - 1
  BY DEF ColumnNumbers
<1>4. Columns(t) # 0 => 0 \in ColumnNumbers(t)
  BY <1>1, <1>3
<1> QED
  BY <1>2, <1>3, <1>4, FS_RemoveElement

\* The characters of the borders between the columns, or in their place.
Between(t, style) ==
  IF style.mid = 1 THEN Columns(t) - 1 ELSE 0 + (Columns(t) - 1) * style.mid

\* Some columns have a character of their own and the others one of the border:
\* together they are the same, if the border is one wide or there are none of
\* the first kind.
LEMMA BordersAddUp ==
  ASSUME NEW style, NEW n \in Int, NEW a \in Nat, NEW b \in Int, a + b = n,
         style.mid = 1 \/ a = 0
  PROVE  a + b * style.mid = IF style.mid = 1 THEN n ELSE 0 + n * style.mid
<1>1. CASE style.mid = 1
  <2>1. a + b * 1 = n
    OBVIOUS
  <2> QED
    BY <1>1, <2>1
<1>2. CASE style.mid # 1
  <2>1. a = 0 /\ b = n
    BY <1>2
  <2> QED
    BY <1>2, <2>1
<1> QED
  BY <1>1, <1>2

\* A part of the columns, and the rest of them.
LEMMA TwoParts ==
  ASSUME NEW S, IsFiniteSet(S), NEW T \in SUBSET S
  PROVE  /\ Cardinality(T) \in Nat /\ Cardinality(S \ T) \in Nat
         /\ Cardinality(T) + Cardinality(S \ T) = Cardinality(S)
<1>1. IsFiniteSet(T) /\ IsFiniteSet(S \ T) /\ IsFiniteSet(S)
  BY FS_Subset
<1>2. Cardinality(T) \in Nat /\ Cardinality(S \ T) \in Nat /\ Cardinality(S) \in Nat
  BY <1>1, FS_CardinalityType
<1>3. Cardinality(S \ T) = Cardinality(S) - Cardinality(S \cap T)
  BY <1>1, FS_Difference
<1>4. S \cap T = T
  OBVIOUS
<1>5. Cardinality(S \ T) = Cardinality(S) - Cardinality(T)
  BY <1>3, <1>4
<1> QED
  BY <1>2, <1>5

\* Without spans no cell is a slave.
LEMMA NoSlaves ==
  ASSUME NEW t, ~Spans(t), NEW r \in RowNumbers(t), NEW c \in ColumnNumbers(t)
  PROVE  ~IsType(t, r, c, "slave")
BY DEF Spans, IsType

\* The visible part of a line with the borders at the sides and the margins.
LineWidth(t, visible) == visible + 2 * t.style.side + Margins(t)

\* The lines of the rows.
LEMMA RowLineWidth ==
  ASSUME NEW X, NEW t, HasRows(t, X), NEW r, NEW g,
         g.joined[r] \in SUBSET ColumnNumbers(t),
         t.style.mid = 1 \/ g.joined[r] = {}
  PROVE  RowLine(t, r, g).width = LineWidth(t, g.width + Between(t, t.style))
<1> DEFINE joined == g.joined[r]
           a == Cardinality(joined)
           b == Cardinality(ColumnNumbers(t) \ joined)
           m == t.style.mid
<1>1. RowLine(t, r, g).width = LineWidth(t, g.width + (a + (b - 1) * m))
  BY DEF RowLine, PrintedLine, LineWidth
<1>2. IsFiniteSet(ColumnNumbers(t)) /\ Cardinality(ColumnNumbers(t)) = Columns(t)
  BY ColumnFacts
<1>3. a \in Nat /\ b \in Nat /\ a + b = Columns(t)
  BY <1>2, TwoParts
<1>4. joined = {} => a = 0
  BY FS_EmptySet
<1> HIDE DEF joined, a, b
<1>5. b - 1 \in Int /\ Columns(t) - 1 \in Int /\ a + (b - 1) = Columns(t) - 1
  <2>1. Columns(t) \in Nat
    BY ColumnsType
  <2> QED
    BY <1>3, <2>1
<1>6. m = 1 \/ a = 0
  BY <1>4 DEF joined
<1>7. a + (b - 1) * m = Between(t, t.style)
  BY <1>3, <1>5, <1>6, BordersAddUp DEF Between
<1> QED
  BY <1>1, <1>7

\* The horizontal lines.
LEMMA SeparatorLineWidth ==
  ASSUME NEW X, NEW t, HasRows(t, X), Columns(t) # 0, NEW r \in 0 .. Len(t.rows), NEW g,
         t.style.mid = 1 \/ ~Spans(t)
  PROVE  SeparatorLine(t, r, g).width = LineWidth(t, g.width + Between(t, t.style))
<1> DEFINE between == ColumnNumbers(t) \ {0}
           inner == {c \in between : Slave(t, r - 1, c) /\ Slave(t, r, c)}
           a == Cardinality(inner)
           b == Cardinality(between \ inner)
           m == t.style.mid
<1>1. SeparatorLine(t, r, g).width = LineWidth(t, g.width + (a + b * m))
  BY DEF SeparatorLine, PrintedLine, LineWidth
<1>2. IsFiniteSet(between) /\ Cardinality(between) = Columns(t) - 1
  BY ColumnFacts
<1>3. a \in Nat /\ b \in Nat /\ a + b = Columns(t) - 1
  <2>1. inner \in SUBSET between
    OBVIOUS
  <2> HIDE DEF between, inner
  <2> QED
    BY <1>2, <2>1, TwoParts
<1>4. ASSUME ~Spans(t) PROVE inner = {}
  <2>1. SUFFICES ASSUME NEW c \in between, Slave(t, r - 1, c), Slave(t, r, c) PROVE FALSE
    OBVIOUS
  <2>2. Columns(t) \in Nat /\ Len(t.rows) \in Nat /\ Len(t.rows) # 0
    BY ColumnsType
  <2>3. r - 1 \in RowNumbers(t) \/ r \in RowNumbers(t)
    BY <2>2 DEF RowNumbers
  <2>4. c \in ColumnNumbers(t)
    OBVIOUS
  <2> QED
    BY <1>4, <2>1, <2>3, <2>4, NoSlaves DEF Slave
<1>5. m = 1 \/ a = 0
  BY <1>4, FS_EmptySet
<1>6. Columns(t) - 1 \in Int
  BY ColumnsType
<1> HIDE DEF a, b
<1>7. a + b * m = Between(t, t.style)
  BY <1>3, <1>5, <1>6, BordersAddUp DEF Between
<1> QED
  BY <1>1, <1>7

\* A table without columns has no lines but the horizontal ones.
LEMMA NoColumnsNoRows ==
  ASSUME NEW t, Columns(t) = 0, NEW r \in RowNumbers(t)
  PROVE  RowHeights(t)[r] = 0
<1>1. ColumnNumbers(t) = {}
  BY DEF ColumnNumbers
<1>2. {Height(t, r, c) : c \in ColumnNumbers(t)} = {}
  BY <1>1
<1>3. RowHeights(t)[r] = MaxOf({})
  BY <1>2 DEF RowHeights
<1> QED
  BY <1>3 DEF MaxOf, Max

\* What a table has of the properties the lines depend on does not change with
\* the style.
LEMMA StyledTable ==
  ASSUME NEW X, NEW t, HasRows(t, X), NEW style
  PROVE  LET u == ft_set_border_style(t, style)
         IN  /\ HasRows(u, X) /\ u.rows = t.rows /\ u.style = style
             /\ Columns(u) = Columns(t) /\ ColumnNumbers(u) = ColumnNumbers(t)
             /\ Spans(u) <=> Spans(t)
<1> DEFINE u == ft_set_border_style(t, style)
<1>1. /\ DOMAIN u = TableFields /\ u.rows = t.rows /\ u.style = style
      /\ u.curRow = t.curRow /\ u.curCol = t.curCol
  BY DEF ft_set_border_style, HasRows, TableFields
<1> HIDE DEF u
<1>2. HasRows(u, X)
  BY <1>1 DEF HasRows
<1>3. Columns(u) = Columns(t)
  BY <1>1 DEF Columns
<1>4. ColumnNumbers(u) = ColumnNumbers(t) /\ RowNumbers(u) = RowNumbers(t)
  BY <1>1, <1>3 DEF ColumnNumbers, RowNumbers
<1>5. \A r, c : HasCell(u, r, c) = HasCell(t, r, c) /\ Cell(u, r, c) = Cell(t, r, c)
  BY <1>1 DEF HasCell, Cell, RowOrEmpty
<1>6. \A r, c, type : IsType(u, r, c, type) = IsType(t, r, c, type)
  BY <1>5 DEF IsType
<1>7. Spans(u) <=> Spans(t)
  BY <1>4, <1>5, <1>6 DEF Spans
<1> QED
  BY <1>1, <1>2, <1>3, <1>4, <1>7 DEF u

\* Only columns of the table are joined to others, and none without spans.
LEMMA JoinedColumns ==
  ASSUME NEW t, NEW r \in RowNumbers(t)
  PROVE  LET g == table_rows_and_cols_geometry(t)
         IN  /\ g.joined[r] \in SUBSET ColumnNumbers(t)
             /\ ~Spans(t) => g.joined[r] = {}
             /\ g.heights[r] = RowHeights(t)[r]
<1> DEFINE g == table_rows_and_cols_geometry(t)
<1>1. g.joined = [q \in RowNumbers(t) |-> Joined(t, q)] /\ g.heights = RowHeights(t)
  BY DEF table_rows_and_cols_geometry
<1>2. g.joined[r] = Joined(t, r) /\ g.heights[r] = RowHeights(t)[r]
  BY <1>1
<1>3. Joined(t, r) \in SUBSET ColumnNumbers(t)
  BY DEF Joined
<1>4. ASSUME ~Spans(t) PROVE Joined(t, r) = {}
  BY <1>4, NoSlaves DEF Joined
<1> QED
  BY <1>2, <1>3, <1>4

\* Every line of a table that is printed is as wide as the others.
LEMMA LineWidths ==
  ASSUME NEW X, NEW t, HasRows(t, X), NEW style, style.mid = 1 \/ ~Spans(t)
  PROVE  LET g == table_rows_and_cols_geometry(t)
             lines == Body(ft_set_border_style(t, style), g)
         IN  \E w : \A k \in DOMAIN lines : lines[k].times > 0 => lines[k].width = w
<1> DEFINE g == table_rows_and_cols_geometry(t)
           u == ft_set_border_style(t, style)
           lines == Body(u, g)
           n == Len(t.rows)
<1>1. /\ HasRows(u, X) /\ u.rows = t.rows /\ u.style = style
      /\ Columns(u) = Columns(t) /\ ColumnNumbers(u) = ColumnNumbers(t)
      /\ Spans(u) <=> Spans(t)
  BY StyledTable
<1>2. u.style.mid = 1 \/ ~Spans(u)
  BY <1>1
<1>3. n \in Nat /\ RowNumbers(t) = 0 .. n - 1
  BY ColumnsType DEF RowNumbers
<1>4. ASSUME NEW r \in RowNumbers(t)
      PROVE  /\ g.joined[r] \in SUBSET ColumnNumbers(u)
             /\ u.style.mid = 1 \/ g.joined[r] = {}
             /\ g.heights[r] = RowHeights(t)[r]
  BY <1>1, <1>2, JoinedColumns
<1> HIDE DEF u, g
<1>5. /\ DOMAIN lines = 1 .. 2 * n + 1
      /\ \A k \in DOMAIN lines :
           lines[k] = IF k % 2 = 1 THEN SeparatorLine(u, (k - 1) \div 2, g)
                                   ELSE RowLine(u, (k - 1) \div 2, g)
  BY <1>1 DEF Body
<1>6. \A k \in 1 .. 2 * n + 1 : /\ (k - 1) \div 2 \in 0 .. n
                                /\ k % 2 # 1 => (k - 1) \div 2 \in 0 .. n - 1
  BY <1>3
<1> HIDE DEF lines
<1>7. CASE Columns(t) = 0
  <2> DEFINE w == LineWidth(u, -u.style.side)
  <2>1. ASSUME NEW r PROVE SeparatorLine(u, r, g).width = w
    BY <1>1, <1>7 DEF SeparatorLine, PrintedLine, LineWidth
  <2>2. ASSUME NEW r \in RowNumbers(t) PROVE RowLine(u, r, g).times = 0
    <3>1. RowLine(u, r, g).times = g.heights[r]
      BY DEF RowLine, PrintedLine
    <3>2. RowHeights(t)[r] = 0
      BY <1>7, NoColumnsNoRows
    <3> QED
      BY <1>4, <3>1, <3>2
  <2> HIDE DEF w
  <2>3. ASSUME NEW k \in DOMAIN lines, lines[k].times > 0 PROVE lines[k].width = w
    <3> DEFINE r == (k - 1) \div 2
    <3>1. k % 2 # 1 => r \in RowNumbers(t)
      BY <1>3, <1>5, <1>6
    <3>2. lines[k] = IF k % 2 = 1 THEN SeparatorLine(u, r, g) ELSE RowLine(u, r, g)
      BY <1>5
    <3> HIDE DEF r
    <3>3. CASE k % 2 = 1
      BY <2>1, <3>2, <3>3
    <3>4. CASE k % 2 # 1
      <4>1. lines[k].times = 0
        BY <2>2, <3>1, <3>2, <3>4
      <4> QED
        BY <2>3, <4>1
    <3> QED
      BY <3>3, <3>4
  <2>4. \E v : \A k \in DOMAIN lines : lines[k].times > 0 => lines[k].width = v
    BY <2>3
  <2> QED
    BY <2>4 DEF lines, u, g
<1>8. CASE Columns(t) # 0
  <2> DEFINE w == LineWidth(u, g.width + Between(u, u.style))
  <2>1. ASSUME NEW r \in 0 .. n PROVE SeparatorLine(u, r, g).width = w
    BY <1>1, <1>2, <1>8, SeparatorLineWidth
  <2>2. ASSUME NEW r \in RowNumbers(t) PROVE RowLine(u, r, g).width = w
    BY <1>1, <1>4, RowLineWidth
  <2> HIDE DEF w
  <2>3. ASSUME NEW k \in DOMAIN lines PROVE lines[k].width = w
    <3> DEFINE r == (k - 1) \div 2
    <3>1. r \in 0 .. n /\ (k % 2 # 1 => r \in RowNumbers(t))
      BY <1>3, <1>5, <1>6
    <3>2. lines[k] = IF k % 2 = 1 THEN SeparatorLine(u, r, g) ELSE RowLine(u, r, g)
      BY <1>5
    <3> HIDE DEF r
    <3> QED
      BY <2>1, <2>2, <3>1, <3>2
  <2>4. \E v : \A k \in DOMAIN lines : lines[k].times > 0 => lines[k].width = v
    BY <2>3
  <2> QED
    BY <2>4 DEF lines, u, g
<1> QED
  BY <1>7, <1>8 DEF lines, u, g

\* Where all widths are the same there is at most one.
LEMMA OneWidth ==
  ASSUME NEW lines, NEW w,
         \A k \in DOMAIN lines : lines[k].times > 0 => lines[k].width = w
  PROVE  Cardinality({lines[i].width : i \in {k \in DOMAIN lines : lines[k].times > 0}}) <= 1
<1> DEFINE W == {lines[i].width : i \in {k \in DOMAIN lines : lines[k].times > 0}}
<1>1. W = {} \/ W = {w}
  OBVIOUS
<1> HIDE DEF W
<1>2. Cardinality(W) = 0 \/ Cardinality(W) = 1
  BY <1>1, FS_EmptySet, FS_Singleton
<1>3. Cardinality(W) <= 1
  BY <1>2
<1> QED
  BY <1>3 DEF W

\* The lines of a table are equally wide, whatever its rows are short of, its
\* texts, spans, paddings and colours and for every style that has a border
\* between the columns, or every style if nothing is spanned, also when earlier
\* calls skipped cells, as long as none is missing.
THEOREM TablesAlign == Spec => []LinesAlign
<1>1. TablesTyped => LinesAlign
  <2> SUFFICES ASSUME TablesTyped, NEW style \in Styles, style.mid = 1 \/ ~Spans(table)
               PROVE  LET g == table_rows_and_cols_geometry(table)
                          lines == Body(ft_set_border_style(table, style), g)
                      IN  Cardinality({lines[i].width :
                                         i \in {k \in DOMAIN lines : lines[k].times > 0}}) <= 1
    BY DEF LinesAlign
  <2> DEFINE lines == Body(ft_set_border_style(table, style),
                           table_rows_and_cols_geometry(table))
  <2>1. HasRows(table, Elements)
    BY DEF TablesTyped, Typed
  <2>2. PICK w : \A k \in DOMAIN lines : lines[k].times > 0 => lines[k].width = w
    BY <2>1, LineWidths
  <2> HIDE DEF lines
  <2>3. Cardinality({lines[i].width : i \in {k \in DOMAIN lines : lines[k].times > 0}}) <= 1
    BY <2>2, OneWidth
  <2> QED
    BY <2>3 DEF lines
<1> QED
  BY <1>1, NoSkipNoHoles, PTL

-----------------------------------------------------------------------------
(* Parts that are put together *)

LEMMA FlattenedByJoining ==
  ASSUME NEW X, NEW parts \in Seq(X)
  PROVE  \E f : /\ Joining(f, parts)
                /\ FlattenSeq(parts) = IF parts = << >> THEN << >> ELSE f[Len(parts)]
<1> DEFINE f == CHOOSE f : Joining(f, parts)
<1>1. Joining(f, parts)
  BY JoiningExists
<1>2. CASE parts = << >>
  <2>1. FlattenSeq(<< >>) = << >>
    BY DEF FlattenSeq
  <2> QED
    BY <1>1, <1>2, <2>1
<1>3. CASE parts # << >>
  <2>1. Len(parts) # 0
    BY <1>3
  <2>2. FlattenSeq(parts) = f[Len(parts)]
    BY <2>1 DEF FlattenSeq, Joining, Joins
  <2> QED
    BY <1>1, <1>3, <2>2
<1> QED
  BY <1>2, <1>3

\* One more part is put behind the others.
LEMMA FlattenAppend ==
  ASSUME NEW X, NEW parts \in Seq(Seq(X)), NEW part \in Seq(X)
  PROVE  FlattenSeq(Append(parts, part)) = FlattenSeq(parts) \o part
<1> DEFINE Y == Seq(X)
           more == Append(parts, part)
           n == Len(parts)
<1>1. parts \in Seq(Y) /\ part \in Y
  OBVIOUS
<1> HIDE DEF Y
<1>2. n \in Nat
  BY <1>1
<1>3. /\ more \in Seq(Y) /\ more # << >> /\ Len(more) = n + 1
      /\ (\A i \in 1 .. n : more[i] = parts[i]) /\ more[n + 1] = part
  BY <1>1, AppendProperties
<1> HIDE DEF more
<1>4. PICK f : /\ Joining(f, parts)
               /\ FlattenSeq(parts) = IF parts = << >> THEN << >> ELSE f[n]
  BY <1>1, FlattenedByJoining
<1>5. PICK g : Joining(g, more) /\ FlattenSeq(more) = IF more = << >> THEN << >> ELSE g[n + 1]
  BY <1>3, FlattenedByJoining
<1>6. FlattenSeq(more) = g[n + 1]
  BY <1>3, <1>5
<1>7. \A i \in 1 .. n + 1 : g[i] = Joins(more, g, i)
  BY <1>3, <1>5 DEF Joining
<1>8. \A i \in 1 .. n : f[i] = Joins(parts, f, i)
  BY <1>4 DEF Joining
<1>9. CASE n = 0
  <2>1. parts = << >> /\ FlattenSeq(parts) = << >>
    BY <1>1, <1>4, <1>9
  <2>2. g[1] = part
    BY <1>3, <1>7, <1>9 DEF Joins
  <2>3. << >> \o part = part
    BY <1>1, ConcatEmptySeq DEF Y
  <2> QED
    BY <1>6, <1>9, <2>1, <2>2, <2>3 DEF more
<1>10. CASE n # 0
  <2> DEFINE T == {i \in Nat : i \in 1 .. n /\ f[i] # g[i]}
  <2>1. T = {}
    <3>1. SUFFICES ASSUME T # {} PROVE FALSE
      OBVIOUS
    <3>2. PICK m \in T : m \in Nat /\ \A i \in Nat : i < m => i \notin T
      BY <3>1, LeastPosition
    <3>3. m \in 1 .. n /\ m \in 1 .. n + 1 /\ f[m] # g[m]
      BY <1>2, <3>2
    <3>4. f[m] = Joins(parts, f, m) /\ g[m] = Joins(more, g, m) /\ more[m] = parts[m]
      BY <1>3, <1>7, <1>8, <3>3
    <3>5. m # 1
      BY <3>3, <3>4 DEF Joins
    <3>6. m - 1 \in Nat /\ m - 1 < m /\ m - 1 \in 1 .. n
      BY <1>2, <3>3, <3>5
    <3>7. f[m - 1] = g[m - 1]
      BY <3>2, <3>6
    <3> HIDE DEF T
    <3> QED
      BY <3>3, <3>4, <3>5, <3>7 DEF Joins
  <2>2. n \in 1 .. n /\ n + 1 \in 1 .. n + 1 /\ n + 1 # 1 /\ (n + 1) - 1 = n
    BY <1>2, <1>10
  <2>3. f[n] = g[n]
    BY <1>2, <2>1, <2>2
  <2>4. g[n + 1] = g[n] \o part
    BY <1>3, <1>7, <2>2 DEF Joins
  <2>5. FlattenSeq(parts) = f[n]
    BY <1>1, <1>4, <1>10
  <2> QED
    BY <1>6, <2>3, <2>4, <2>5 DEF more
<1> QED
  BY <1>9, <1>10

\* Parts behind parts are put behind them.
LEMMA FlattenConcat ==
  ASSUME NEW X, NEW a \in Seq(Seq(X)), NEW b \in Seq(Seq(X))
  PROVE  FlattenSeq(a \o b) = FlattenSeq(a) \o FlattenSeq(b)
<1> DEFINE Y == Seq(X)
           Law(c) == FlattenSeq(a \o c) = FlattenSeq(a) \o FlattenSeq(c)
           T == {n \in Nat : \E c \in Seq(Y) : Len(c) = n /\ ~Law(c)}
<1>1. a \in Seq(Y) /\ b \in Seq(Y) /\ Len(b) \in Nat
  OBVIOUS
<1>2. \A c \in Seq(Y) : FlattenSeq(c) \in Seq(X)
  BY FlattenedType DEF Y
<1> HIDE DEF Y
<1>3. Law(<< >>)
  <2>1. FlattenSeq(<< >>) = << >>
    BY DEF FlattenSeq
  <2>2. a \o << >> = a
    BY <1>1, ConcatEmptySeq
  <2>3. FlattenSeq(a) \o << >> = FlattenSeq(a)
    BY <1>1, <1>2, ConcatEmptySeq
  <2> QED
    BY <2>1, <2>2, <2>3
<1>4. ASSUME NEW c \in Seq(Y), NEW e \in Y, Law(c)
      PROVE  Law(Append(c, e))
  <2>1. a \o c \in Seq(Y) /\ a \o Append(c, e) = Append(a \o c, e)
    <3>1. a \o c \in Seq(Y) /\ << e >> \in Seq(Y)
      BY <1>1
    <3>2. Append(c, e) = c \o << e >> /\ Append(a \o c, e) = (a \o c) \o << e >>
      BY <3>1, AppendIsConcat
    <3>3. (a \o c) \o << e >> = a \o (c \o << e >>)
      BY <1>1, <3>1, ConcatAssociative
    <3> QED
      BY <3>1, <3>2, <3>3
  <2>2. FlattenSeq(Append(a \o c, e)) = FlattenSeq(a \o c) \o e
    BY <2>1, FlattenAppend DEF Y
  <2>3. FlattenSeq(Append(c, e)) = FlattenSeq(c) \o e
    BY FlattenAppend DEF Y
  <2>4. (FlattenSeq(a) \o FlattenSeq(c)) \o e = FlattenSeq(a) \o (FlattenSeq(c) \o e)
    <3>1. FlattenSeq(a) \in Seq(X) /\ FlattenSeq(c) \in Seq(X) /\ e \in Seq(X)
      BY <1>1, <1>2 DEF Y
    <3> QED
      BY <3>1, ConcatAssociative
  <2> QED
    BY <1>4, <2>1, <2>2, <2>3, <2>4
<1>5. T = {}
  <2>1. SUFFICES ASSUME T # {} PROVE FALSE
    OBVIOUS
  <2>2. PICK m \in T : m \in Nat /\ \A n \in Nat : n < m => n \notin T
    BY <2>1, LeastPosition
  <2>3. PICK c \in Seq(Y) : Len(c) = m /\ ~Law(c)
    BY <2>2
  <2> HIDE DEF Law
  <2>4. c # << >>
    BY <1>3, <2>3
  <2>5. PICK d \in Seq(Y), e \in Y : c = Append(d, e)
    BY <2>4, SequenceEmptyOrAppend
  <2>6. Len(d) \in Nat /\ Len(d) < m
    BY <2>3, <2>5, AppendProperties
  <2>7. Law(d)
    BY <2>2, <2>6
  <2>8. Law(c)
    BY <1>4, <2>5, <2>7
  <2> QED
    BY <2>3, <2>8
<1> HIDE DEF Law
<1>6. Law(b)
  BY <1>1, <1>5
<1> QED
  BY <1>6 DEF Law

\* One part; and any number of empty ones.
LEMMA FlattenOne ==
  ASSUME NEW X, NEW part \in Seq(X)
  PROVE  FlattenSeq(<< part >>) = part
<1>1. << >> \in Seq(Seq(X)) /\ Append(<< >>, part) = << part >>
  BY EmptySeq
<1>2. FlattenSeq(<< >>) = << >>
  BY DEF FlattenSeq
<1>3. << >> \o part = part
  BY ConcatEmptySeq
<1> QED
  BY <1>1, <1>2, <1>3, FlattenAppend

LEMMA FlattenEmpty ==
  ASSUME NEW parts \in Seq({<< >>})
  PROVE  FlattenSeq(parts) = << >>
<1> DEFINE X == {}
<1>1. {<< >>} \subseteq Seq(X)
  BY EmptySeq
<1>2. \A s \in Seq(X) : s = << >>
  OBVIOUS
<1> HIDE DEF X
<1>3. parts \in Seq(Seq(X))
  BY <1>1, SeqMonotonic
<1> QED
  BY <1>2, <1>3, FlattenedType

\* Two sequences one behind the other, by their elements.
LEMMA Concatenated ==
  ASSUME NEW X, NEW a \in Seq(X), NEW b \in Seq(X), NEW s \in Seq(X),
         Len(s) = Len(a) + Len(b),
         \A i \in 1 .. Len(s) : s[i] = IF i <= Len(a) THEN a[i] ELSE b[i - Len(a)]
  PROVE  s = a \o b
<1>1. /\ a \o b \in Seq(X) /\ Len(a \o b) = Len(a) + Len(b)
      /\ \A i \in 1 .. Len(a) + Len(b) : (a \o b)[i] = IF i <= Len(a) THEN a[i] ELSE b[i - Len(a)]
  BY ConcatProperties
<1>2. Len(a) \in Nat /\ Len(b) \in Nat
  OBVIOUS
<1> DEFINE c == a \o b
<1>3. c \in Seq(X) /\ Len(c) = Len(s) /\ \A i \in 1 .. Len(s) : s[i] = c[i]
  BY <1>1, <1>2
<1> HIDE DEF c
<1>4. s = c
  BY <1>3, SeqEqual
<1> QED
  BY <1>4 DEF c

-----------------------------------------------------------------------------
(* What is read in rows of cells *)

Text == Seq(Nat)
RowParts(row) == [j \in DOMAIN row |-> TextItem(row[j])]

LEMMA ItemType ==
  ASSUME NEW e \in Elements
  PROVE  TextOf(e) \in Text /\ TextItem(e) \in Seq(Text)
<1>1. << >> \in Text /\ << >> \in Seq(Text)
  BY EmptySeq DEF Text
<1>2. TextOf(e) \in Text
  <2>1. CASE e = Hole
    BY <1>1, <2>1 DEF TextOf
  <2>2. CASE e # Hole
    BY <2>2 DEF TextOf, Elements, Cells, Text
  <2> QED
    BY <2>1, <2>2
<1>3. \A x \in Text : << x >> \in Seq(Text)
  OBVIOUS
<1> QED
  BY <1>1, <1>2, <1>3 DEF TextItem

LEMMA RowPartsType ==
  ASSUME NEW row \in Seq(Elements)
  PROVE  RowParts(row) \in Seq(Seq(Text)) /\ Len(RowParts(row)) = Len(row)
<1> DEFINE Y == Seq(Text)
<1>1. \A e \in Elements : TextItem(e) \in Y
  BY ItemType
<1>2. DOMAIN row = 1 .. Len(row) /\ Len(row) \in Nat /\ \A i \in 1 .. Len(row) : row[i] \in Elements
  OBVIOUS
<1> HIDE DEF Y
<1>3. RowParts(row) = [j \in 1 .. Len(row) |-> TextItem(row[j])]
  BY <1>2 DEF RowParts
<1>4. \A j \in 1 .. Len(row) : TextItem(row[j]) \in Y
  BY <1>1, <1>2
<1>5. RowParts(row) \in Seq(Y) /\ Len(RowParts(row)) = Len(row)
  BY <1>2, <1>3, <1>4
<1> QED
  BY <1>5 DEF Y

LEMMA RowReadingType ==
  ASSUME NEW row \in Seq(Elements)
  PROVE  RowReading(row) \in Seq(Text)
<1>1. RowReading(row) = FlattenSeq(RowParts(row))
  BY DEF RowReading, RowParts
<1> QED
  BY <1>1, RowPartsType, FlattenedType

\* Rows one behind the other are read one after the other.
LEMMA RowReadingConcat ==
  ASSUME NEW a \in Seq(Elements), NEW b \in Seq(Elements)
  PROVE  RowReading(a \o b) = RowReading(a) \o RowReading(b)
<1> DEFINE Y == Seq(Text)
           c == a \o b
<1>1. /\ c \in Seq(Elements) /\ Len(c) = Len(a) + Len(b)
      /\ \A i \in 1 .. Len(c) : c[i] = IF i <= Len(a) THEN a[i] ELSE b[i - Len(a)]
  BY ConcatProperties
<1>2. Len(a) \in Nat /\ Len(b) \in Nat
  OBVIOUS
<1> HIDE DEF c
<1>3. /\ RowParts(a) \in Seq(Y) /\ RowParts(b) \in Seq(Y) /\ RowParts(c) \in Seq(Y)
      /\ Len(RowParts(a)) = Len(a) /\ Len(RowParts(b)) = Len(b)
      /\ Len(RowParts(c)) = Len(c)
  BY <1>1, RowPartsType
<1>4. \A i \in 1 .. Len(c) :
        RowParts(c)[i] = IF i <= Len(a) THEN RowParts(a)[i] ELSE RowParts(b)[i - Len(a)]
  <2> SUFFICES ASSUME NEW i \in 1 .. Len(c)
               PROVE  RowParts(c)[i] = IF i <= Len(a) THEN RowParts(a)[i]
                                                      ELSE RowParts(b)[i - Len(a)]
    OBVIOUS
  <2>1. RowParts(c)[i] = TextItem(c[i])
    BY <1>1 DEF RowParts
  <2>2. CASE i <= Len(a)
    <3>1. i \in DOMAIN a
      BY <1>1, <1>2, <2>2
    <3> QED
      BY <1>1, <2>1, <2>2, <3>1 DEF RowParts
  <2>3. CASE ~(i <= Len(a))
    <3>1. i - Len(a) \in DOMAIN b
      BY <1>1, <1>2, <2>3
    <3> QED
      BY <1>1, <2>1, <2>3, <3>1 DEF RowParts
  <2> QED
    BY <2>2, <2>3
<1>5. RowParts(c) = RowParts(a) \o RowParts(b)
  <2> DEFINE pa == RowParts(a)
             pb == RowParts(b)
             pc == RowParts(c)
  <2>1. pa \in Seq(Y) /\ pb \in Seq(Y) /\ pc \in Seq(Y) /\ Len(pc) = Len(pa) + Len(pb)
    BY <1>1, <1>3
  <2>2. \A i \in 1 .. Len(pc) : pc[i] = IF i <= Len(pa) THEN pa[i] ELSE pb[i - Len(pa)]
    BY <1>3, <1>4
  <2> HIDE DEF pa, pb, pc, Y
  <2>3. pc = pa \o pb
    BY <2>1, <2>2, Concatenated
  <2> QED
    BY <2>3 DEF pa, pb, pc
<1>6. FlattenSeq(RowParts(a) \o RowParts(b)) = FlattenSeq(RowParts(a)) \o FlattenSeq(RowParts(b))
  BY <1>3, FlattenConcat DEF Y
<1> QED
  BY <1>5, <1>6 DEF c, RowReading, RowParts

\* One cell; and any number without text.
LEMMA RowReadingOne ==
  ASSUME NEW e \in Elements
  PROVE  RowReading(<< >>) = << >> /\ RowReading(<< e >>) = TextItem(e)
<1>1. RowReading(<< >>) = << >>
  BY DEF RowReading, FlattenSeq
<1>2. RowReading(<< e >>) = FlattenSeq(<< TextItem(e) >>)
  BY DEF RowReading
<1> QED
  BY <1>1, <1>2, ItemType, FlattenOne

LEMMA RowReadingEmpty ==
  ASSUME NEW row \in Seq(Elements), \A i \in 1 .. Len(row) : TextOf(row[i]) = << >>
  PROVE  RowReading(row) = << >>
<1>1. DOMAIN row = 1 .. Len(row) /\ Len(row) \in Nat
  OBVIOUS
<1> DEFINE part(j) == TextItem(row[j])
<1>2. \A j \in 1 .. Len(row) : part(j) \in {<< >>}
  BY DEF TextItem
<1>3. RowReading(row) = FlattenSeq([j \in 1 .. Len(row) |-> part(j)])
  BY <1>1 DEF RowReading
<1> HIDE DEF part
<1>4. [j \in 1 .. Len(row) |-> part(j)] \in Seq({<< >>})
  BY <1>1, <1>2
<1> QED
  BY <1>3, <1>4, FlattenEmpty

\* Rows that hold the same texts are read alike.
LEMMA RowReadingSame ==
  ASSUME NEW a \in Seq(Elements), NEW b \in Seq(Elements), Len(a) = Len(b),
         \A i \in 1 .. Len(a) : TextOf(a[i]) = TextOf(b[i])
  PROVE  RowReading(a) = RowReading(b)
<1>1. DOMAIN a = 1 .. Len(a) /\ DOMAIN b = 1 .. Len(a)
  OBVIOUS
<1>2. \A i \in 1 .. Len(a) : TextItem(a[i]) = TextItem(b[i])
  BY DEF TextItem
<1>3. [j \in DOMAIN a |-> TextItem(a[j])] = [j \in DOMAIN b |-> TextItem(b[j])]
  BY <1>1, <1>2
<1> QED
  BY <1>3 DEF RowReading

-----------------------------------------------------------------------------
(* What is read in several rows *)

ElementRows == Seq(Elements)
RowsParts(rows) == [i \in DOMAIN rows |-> RowReading(rows[i])]
RowsReading(rows) == FlattenSeq(RowsParts(rows))

LEMMA RowsPartsType ==
  ASSUME NEW rows \in Seq(ElementRows)
  PROVE  RowsParts(rows) \in Seq(Seq(Text)) /\ Len(RowsParts(rows)) = Len(rows)
<1> DEFINE Y == Seq(Text)
<1>1. \A row \in ElementRows : RowReading(row) \in Y
  BY RowReadingType DEF ElementRows
<1>2. /\ DOMAIN rows = 1 .. Len(rows) /\ Len(rows) \in Nat
      /\ \A i \in 1 .. Len(rows) : rows[i] \in ElementRows
  OBVIOUS
<1> HIDE DEF Y
<1>3. RowsParts(rows) = [j \in 1 .. Len(rows) |-> RowReading(rows[j])]
  BY <1>2 DEF RowsParts
<1>4. \A j \in 1 .. Len(rows) : RowReading(rows[j]) \in Y
  BY <1>1, <1>2
<1>5. RowsParts(rows) \in Seq(Y) /\ Len(RowsParts(rows)) = Len(rows)
  BY <1>2, <1>3, <1>4
<1> QED
  BY <1>5 DEF Y

LEMMA RowsReadingType ==
  ASSUME NEW rows \in Seq(ElementRows)
  PROVE  RowsReading(rows) \in Seq(Text)
BY RowsPartsType, FlattenedType DEF RowsReading

LEMMA RowsReadingConcat ==
  ASSUME NEW a \in Seq(ElementRows), NEW b \in Seq(ElementRows)
  PROVE  RowsReading(a \o b) = RowsReading(a) \o RowsReading(b)
<1> DEFINE Y == Seq(Text)
           c == a \o b
           pa == RowsParts(a)
           pb == RowsParts(b)
           pc == RowsParts(c)
<1>1. /\ c \in Seq(ElementRows) /\ Len(c) = Len(a) + Len(b)
      /\ \A i \in 1 .. Len(c) : c[i] = IF i <= Len(a) THEN a[i] ELSE b[i - Len(a)]
  BY ConcatProperties
<1>2. Len(a) \in Nat /\ Len(b) \in Nat
  OBVIOUS
<1> HIDE DEF c
<1>3. /\ pa \in Seq(Y) /\ pb \in Seq(Y) /\ pc \in Seq(Y)
      /\ Len(pa) = Len(a) /\ Len(pb) = Len(b) /\ Len(pc) = Len(c)
  BY <1>1, RowsPartsType
<1>4. ASSUME NEW i \in 1 .. Len(pc)
      PROVE  pc[i] = IF i <= Len(pa) THEN pa[i] ELSE pb[i - Len(pa)]
  <2>0. i \in 1 .. Len(c)
    BY <1>3
  <2>1. pc[i] = RowReading(c[i])
    BY <1>1, <2>0 DEF RowsParts
  <2>2. CASE i <= Len(a)
    <3>1. i \in DOMAIN a
      BY <1>1, <1>2, <2>0, <2>2
    <3>2. pa[i] = RowReading(a[i]) /\ c[i] = a[i]
      BY <1>1, <2>0, <2>2, <3>1 DEF RowsParts
    <3> QED
      BY <1>3, <2>1, <2>2, <3>2
  <2>3. CASE ~(i <= Len(a))
    <3>1. i - Len(a) \in DOMAIN b
      BY <1>1, <1>2, <2>0, <2>3
    <3>2. pb[i - Len(a)] = RowReading(b[i - Len(a)]) /\ c[i] = b[i - Len(a)]
      BY <1>1, <2>0, <2>3, <3>1 DEF RowsParts
    <3> QED
      BY <1>3, <2>1, <2>3, <3>2
  <2> QED
    BY <2>2, <2>3
<1>5. Len(pc) = Len(pa) + Len(pb)
  BY <1>1, <1>3
<1> HIDE DEF pa, pb, pc, Y
<1>6. pc = pa \o pb
  BY <1>3, <1>4, <1>5, Concatenated
<1>7. FlattenSeq(pa \o pb) = FlattenSeq(pa) \o FlattenSeq(pb)
  BY <1>3, FlattenConcat DEF Y
<1> QED
  BY <1>6, <1>7 DEF RowsReading, c, pa, pb, pc

\* One row; and any number without cells.
LEMMA RowsReadingOne ==
  ASSUME NEW row \in ElementRows
  PROVE  RowsReading(<< >>) = << >> /\ RowsReading(<< row >>) = RowReading(row)
<1>1. RowsReading(<< >>) = << >>
  BY DEF RowsReading, RowsParts, FlattenSeq
<1>2. RowsReading(<< row >>) = FlattenSeq(<< RowReading(row) >>)
  BY DEF RowsReading, RowsParts
<1>3. RowReading(row) \in Seq(Text)
  BY RowReadingType DEF ElementRows
<1> QED
  BY <1>1, <1>2, <1>3, FlattenOne

LEMMA RowsReadingEmpty ==
  ASSUME NEW rows \in Seq({<< >>})
  PROVE  RowsReading(rows) = << >>
<1>1. RowReading(<< >>) = << >>
  BY DEF RowReading, FlattenSeq
<1>2. RowsParts(rows) = rows
  <2>1. DOMAIN rows = 1 .. Len(rows) /\ \A i \in 1 .. Len(rows) : rows[i] = << >>
    OBVIOUS
  <2>2. rows = [i \in DOMAIN rows |-> rows[i]]
    OBVIOUS
  <2> QED
    BY <1>1, <2>1, <2>2 DEF RowsParts
<1> QED
  BY <1>2, FlattenEmpty DEF RowsReading

-----------------------------------------------------------------------------
(* Arrays in two parts *)

\* An array is its two parts, and they are found again in what they make up.
LEMMA SplitJoined ==
  ASSUME NEW X, NEW v \in Seq(X), NEW pos \in Nat
  PROVE  /\ SplitHead(v, pos) \in Seq(X) /\ SplitTail(v, pos) \in Seq(X)
         /\ v = SplitHead(v, pos) \o SplitTail(v, pos)
         /\ pos <= Len(v) => Len(SplitHead(v, pos)) = pos
         /\ Len(v) <= pos => SplitHead(v, pos) = v /\ SplitTail(v, pos) = << >>
<1>0. Len(v) \in Nat
  OBVIOUS
<1>1. SplitHead(v, pos) \in Seq(X) /\ SplitTail(v, pos) \in Seq(X)
  BY SplitTypes
<1>2. CASE pos < Len(v)
  <2>1. SplitHead(v, pos) = SubSeq(v, 1, pos)
    BY <1>2 DEF SplitHead
  <2>2. SubSeq(v, 1, pos) \o SubSeq(v, pos + 1, Len(v)) = SubSeq(v, 1, Len(v))
    <3>1. 1 \in 1 .. Len(v) + 1 /\ pos \in 1 - 1 .. Len(v) /\ Len(v) \in pos .. Len(v)
      BY <1>0, <1>2
    <3> QED
      BY <3>1, ConcatAdjacentSubSeq
  <2>3. SubSeq(v, 1, Len(v)) = v
    BY SubSeqFull
  <2>4. Len(SubSeq(v, 1, pos)) = pos
    <3>1. \A i \in 1 .. pos : v[i] \in X
      BY <1>0, <1>2
    <3>2. Len(SubSeq(v, 1, pos)) = IF 1 <= pos THEN pos - 1 + 1 ELSE 0
      BY <3>1, SubSeqProperties
    <3> QED
      BY <3>2
  <2>5. v = SplitHead(v, pos) \o SplitTail(v, pos)
    BY <2>1, <2>2, <2>3 DEF SplitTail
  <2>6. Len(SplitHead(v, pos)) = pos
    BY <2>1, <2>4
  <2>7. ~(Len(v) <= pos)
    BY <1>0, <1>2
  <2> QED
    BY <1>1, <2>5, <2>6, <2>7
<1>3. CASE ~(pos < Len(v))
  <2>1. SplitHead(v, pos) = v
    BY <1>0, <1>3 DEF SplitHead
  <2>2. SplitTail(v, pos) = << >>
    <3>1. Len(v) < pos + 1
      BY <1>0, <1>3
    <3> QED
      BY <1>0, <3>1, SubSeqEmpty DEF SplitTail
  <2>3. v \o << >> = v
    BY ConcatEmptySeq
  <2> QED
    BY <1>0, <1>1, <1>3, <2>1, <2>2, <2>3
<1> QED
  BY <1>2, <1>3

LEMMA SplitFound ==
  ASSUME NEW X, NEW a \in Seq(X), NEW b \in Seq(X)
  PROVE  SplitHead(a \o b, Len(a)) = a /\ SplitTail(a \o b, Len(a)) = b
<1> DEFINE v == a \o b
           pos == Len(a)
           head == SplitHead(v, pos)
           tail == SplitTail(v, pos)
<1>1. pos \in Nat /\ Len(b) \in Nat
  OBVIOUS
<1>2. /\ v \in Seq(X) /\ Len(v) = pos + Len(b)
      /\ \A i \in 1 .. pos + Len(b) : v[i] = IF i <= pos THEN a[i] ELSE b[i - pos]
  BY ConcatProperties
<1> HIDE DEF v
<1>3. /\ head \in Seq(X) /\ tail \in Seq(X) /\ v = head \o tail /\ Len(head) = pos
  <2>1. pos <= Len(v)
    BY <1>1, <1>2
  <2> HIDE DEF pos
  <2> QED
    BY <1>1, <1>2, <2>1, SplitJoined
<1> HIDE DEF head, tail
<1>4. \A i \in 1 .. pos : (head \o tail)[i] = head[i]
  <2>1. \A i \in 1 .. Len(head) + Len(tail) :
          (head \o tail)[i] = IF i <= Len(head) THEN head[i] ELSE tail[i - Len(head)]
    BY <1>3, ConcatProperties
  <2>2. Len(tail) \in Nat
    BY <1>3
  <2> QED
    BY <1>1, <1>3, <2>1, <2>2
<1>5. \A i \in 1 .. pos : head[i] = a[i]
  BY <1>1, <1>2, <1>3, <1>4
<1>6. head = a
  BY <1>3, <1>5, SeqEqual
<1>7. a \o tail = a \o b
  BY <1>3, <1>6 DEF v
<1>8. tail = b
  BY <1>3, <1>7, ConcatSimplifications
<1> QED
  BY <1>6, <1>8 DEF head, tail, v

\* What is pushed into an array until it is long enough.
Pads(pad) == Seq({pad})
Pushed(s, v, pad) == \E more \in Pads(pad) : s = v \o more

\* The parts of an array into which items were pushed: they are at the end of
\* the first part.
LEMMA SplitPadded ==
  ASSUME NEW X, NEW v \in Seq(X), NEW pos \in Nat, NEW pad \in X
  PROVE  LET padded == PushedUpTo(v, pos, pad)
         IN  /\ SplitHead(padded, pos) \in Seq(X) /\ SplitTail(padded, pos) \in Seq(X)
             /\ Len(SplitHead(padded, pos)) = pos
             /\ SplitTail(padded, pos) = SplitTail(v, pos)
             /\ Pushed(SplitHead(padded, pos), SplitHead(v, pos), pad)
<1> DEFINE padded == PushedUpTo(v, pos, pad)
           n == pos - Len(v)
           more == [i \in 1 .. n |-> pad]
<1>0. Len(v) \in Nat
  OBVIOUS
<1>1. padded \in Seq(X) /\ pos <= Len(padded)
  BY PaddedType
<1>2. CASE pos <= Len(v)
  <2>1. padded = v
    BY <1>2, NotPadded
  <2>2. SplitHead(v, pos) \in Seq(X) /\ SplitTail(v, pos) \in Seq(X) /\ Len(SplitHead(v, pos)) = pos
    BY <1>2, SplitJoined
  <2>3. SplitHead(v, pos) \o << >> = SplitHead(v, pos) /\ << >> \in Pads(pad)
    BY <2>2, ConcatEmptySeq, EmptySeq DEF Pads
  <2> QED
    BY <2>1, <2>2, <2>3 DEF Pushed
<1>3. CASE ~(pos <= Len(v))
  <2>1. n \in Nat /\ Len(v) <= pos
    BY <1>0, <1>3
  <2>2. padded = v \o more
    BY DEF PushedUpTo
  <2>3. Len(padded) = pos
    BY <2>1, PaddedElements
  <2> HIDE DEF padded
  <2>4. SplitHead(padded, pos) = padded /\ SplitTail(padded, pos) = << >>
    BY <1>1, <2>3, SplitJoined
  <2>5. SplitHead(v, pos) = v /\ SplitTail(v, pos) = << >>
    BY <2>1, SplitJoined
  <2>6. << >> \in Seq(X)
    BY EmptySeq
  <2> HIDE DEF n
  <2>7. /\ SplitHead(padded, pos) \in Seq(X) /\ SplitTail(padded, pos) \in Seq(X)
        /\ Len(SplitHead(padded, pos)) = pos
        /\ SplitTail(padded, pos) = SplitTail(v, pos)
    BY <1>1, <2>3, <2>4, <2>5, <2>6
  <2>8. SplitHead(padded, pos) = SplitHead(v, pos) \o more
    BY <2>2, <2>4, <2>5
  <2>9. more \in Pads(pad)
    BY <2>1 DEF Pads
  <2> QED
    BY <2>7, <2>8, <2>9 DEF padded, Pushed
<1> QED
  BY <1>2, <1>3

\* The elements of the two parts.
LEMMA SplitElements ==
  ASSUME NEW X, NEW v \in Seq(X), NEW pos \in Nat, pos <= Len(v)
  PROVE  /\ \A i \in 1 .. pos : SplitHead(v, pos)[i] = v[i]
         /\ Len(SplitTail(v, pos)) = Len(v) - pos
         /\ \A i \in 1 .. Len(v) - pos : SplitTail(v, pos)[i] = v[pos + i]
<1> DEFINE head == SplitHead(v, pos)
           tail == SplitTail(v, pos)
<1>1. head \in Seq(X) /\ tail \in Seq(X) /\ v = head \o tail /\ Len(head) = pos
  BY SplitJoined
<1> HIDE DEF head, tail
<1>2. /\ Len(head \o tail) = Len(head) + Len(tail)
      /\ \A i \in 1 .. Len(head) + Len(tail) :
           (head \o tail)[i] = IF i <= Len(head) THEN head[i] ELSE tail[i - Len(head)]
  BY <1>1, ConcatProperties
<1>3. Len(tail) \in Nat /\ Len(v) \in Nat
  BY <1>1
<1>4. Len(tail) = Len(v) - pos
  BY <1>1, <1>2, <1>3
<1>5. \A i \in 1 .. Len(v) : v[i] = IF i <= pos THEN head[i] ELSE tail[i - pos]
  BY <1>1, <1>2
<1>6. \A i \in 1 .. pos : head[i] = v[i]
  BY <1>3, <1>5
<1>7. ASSUME NEW i \in 1 .. Len(v) - pos PROVE tail[i] = v[pos + i]
  <2>1. pos + i \in 1 .. Len(v) /\ ~(pos + i <= pos) /\ (pos + i) - pos = i
    BY <1>3
  <2> QED
    BY <1>5, <2>1
<1> QED
  BY <1>4, <1>6, <1>7 DEF head, tail

\* The element between the parts goes to one or to the other.
LEMMA SplitNext ==
  ASSUME NEW X, NEW v \in Seq(X), NEW pos \in Nat, pos < Len(v)
  PROVE  /\ SplitHead(v, pos + 1) = SplitHead(v, pos) \o << v[pos + 1] >>
         /\ SplitTail(v, pos) = << v[pos + 1] >> \o SplitTail(v, pos + 1)
<1> DEFINE head == SplitHead(v, pos)
           rest == SplitTail(v, pos + 1)
           x == << v[pos + 1] >>
           front == head \o x
<1>0. Len(v) \in Nat
  OBVIOUS
<1>1. SplitTail(v, pos) = x \o rest
  <2>1. pos + 1 \in 1 .. Len(v) /\ Len(v) \in pos + 1 .. Len(v)
    BY <1>0
  <2>2. SubSeq(v, pos + 1, Len(v)) = << v[pos + 1] >> \o SubSeq(v, (pos + 1) + 1, Len(v))
    BY <2>1, SubSeqRecursiveFirst
  <2> QED
    BY <2>2 DEF SplitTail
<1>2. pos <= Len(v) /\ pos + 1 \in Nat
  BY <1>0
<1>3. head \in Seq(X) /\ v = head \o SplitTail(v, pos) /\ Len(head) = pos
  BY <1>2, SplitJoined
<1>4. rest \in Seq(X) /\ x \in Seq(X) /\ Len(x) = 1
  <2>1. v[pos + 1] \in X
    BY <1>0, ElementOfSeq
  <2> QED
    BY <1>2, <2>1, SplitTypes
<1> HIDE DEF head, rest, x
<1>5. front \in Seq(X) /\ Len(front) = pos + 1
  <2>1. front \in Seq(X) /\ Len(front) = Len(head) + Len(x)
    BY <1>3, <1>4, ConcatProperties
  <2> HIDE DEF front
  <2> QED
    BY <1>3, <1>4, <2>1
<1>6. v = front \o rest
  <2>0. head \in Seq(X) /\ x \in Seq(X) /\ rest \in Seq(X)
    BY <1>3, <1>4
  <2>1. (head \o x) \o rest = head \o (x \o rest)
    BY <2>0, ConcatAssociative
  <2>2. v = head \o (x \o rest)
    BY <1>1, <1>3
  <2> QED
    BY <2>1, <2>2
<1> HIDE DEF front
<1>7. SplitHead(front \o rest, Len(front)) = front
  BY <1>4, <1>5, SplitFound
<1>8. SplitHead(v, pos + 1) = front
  BY <1>5, <1>6, <1>7
<1> QED
  BY <1>1, <1>8 DEF front, head, rest, x

\* What begins like an array and goes on with pushed items.
Prolongs(s, v, pad) == \A i \in 1 .. Len(s) : s[i] = IF i <= Len(v) THEN v[i] ELSE pad

\* The elements of an array into which items were pushed.
LEMMA PaddedAt ==
  ASSUME NEW X, NEW v \in Seq(X), NEW n \in Nat, NEW pad \in X
  PROVE  LET padded == PushedUpTo(v, n, pad)
         IN  /\ padded \in Seq(X)
             /\ n <= Len(v) => Len(padded) = Len(v)
             /\ ~(n <= Len(v)) => Len(padded) = n
             /\ Prolongs(padded, v, pad)
<1> DEFINE padded == PushedUpTo(v, n, pad)
           more == [i \in 1 .. (n - Len(v)) |-> pad]
<1> USE DEF Prolongs
<1>0. Len(v) \in Nat
  OBVIOUS
<1>1. CASE n <= Len(v)
  <2>1. padded = v
    BY <1>1, NotPadded
  <2> QED
    BY <1>0, <1>1, <2>1
<1>2. CASE ~(n <= Len(v))
  <2>1. n - Len(v) \in Nat /\ (Len(v) + (n - Len(v))) = n
    BY <1>0, <1>2
  <2>2. more \in Seq(X) /\ Len(more) = n - Len(v) /\ \A i \in 1 .. n - Len(v) : more[i] = pad
    BY <2>1
  <2>3. padded = v \o more
    BY DEF PushedUpTo
  <2> HIDE DEF more
  <2>4. /\ v \o more \in Seq(X) /\ Len(v \o more) = Len(v) + Len(more)
        /\ \A i \in 1 .. Len(v) + Len(more) :
             (v \o more)[i] = IF i <= Len(v) THEN v[i] ELSE more[i - Len(v)]
    BY <2>2, ConcatProperties
  <2>5. padded \in Seq(X) /\ Len(padded) = n
    BY <2>1, <2>2, <2>3, <2>4
  <2>6. ASSUME NEW i \in 1 .. n PROVE padded[i] = IF i <= Len(v) THEN v[i] ELSE pad
    <3>1. i \in 1 .. Len(v) + Len(more)
      BY <2>1, <2>2
    <3>2. ~(i <= Len(v)) => i - Len(v) \in 1 .. n - Len(v)
      BY <1>0
    <3> QED
      BY <2>2, <2>3, <2>4, <3>1, <3>2
  <2> HIDE DEF padded
  <2> QED
    BY <1>2, <2>5, <2>6 DEF padded
<1> QED
  BY <1>1, <1>2

LEMMA PaddedHead ==
  ASSUME NEW X, NEW v \in Seq(X), NEW pos \in Nat, NEW pad \in X, NEW s \in Seq(X),
         Len(s) = pos, Prolongs(s, v, pad)
  PROVE  Pushed(s, SplitHead(v, pos), pad)
<1>0. Len(v) \in Nat
  OBVIOUS
<1> USE DEF Prolongs
<1>1. CASE pos <= Len(v)
  <2> DEFINE head == SplitHead(v, pos)
  <2>1. head \in Seq(X) /\ Len(head) = pos /\ \A i \in 1 .. pos : head[i] = v[i]
    BY <1>1, SplitJoined, SplitElements
  <2> HIDE DEF head
  <2>2. \A i \in 1 .. pos : s[i] = head[i]
    BY <1>0, <1>1, <2>1
  <2>3. s = head
    BY <2>1, <2>2, SeqEqual
  <2>4. head \o << >> = head /\ << >> \in Pads(pad)
    BY <2>1, ConcatEmptySeq, EmptySeq DEF Pads
  <2>5. s = head \o << >>
    BY <2>3, <2>4
  <2> QED
    BY <2>4, <2>5 DEF head, Pushed
<1>2. CASE ~(pos <= Len(v))
  <2> DEFINE n == pos - Len(v)
             more == [i \in 1 .. n |-> pad]
  <2>1. n \in Nat /\ Len(v) + n = pos
    BY <1>0, <1>2
  <2>2. /\ more \in Seq(X) /\ more \in Pads(pad) /\ Len(more) = n
        /\ \A i \in 1 .. n : more[i] = pad
    BY <2>1 DEF Pads
  <2>3. Len(v) <= pos
    BY <1>0, <1>2
  <2>4. SplitHead(v, pos) = v
    BY <2>3, SplitJoined
  <2>5. \A i \in 1 .. pos : ~(i <= Len(v)) => i - Len(v) \in 1 .. n
    BY <1>0, <2>1
  <2> HIDE DEF more, n
  <2>6. \A i \in 1 .. Len(s) : s[i] = IF i <= Len(v) THEN v[i] ELSE more[i - Len(v)]
    BY <2>2, <2>5
  <2>7. Len(s) = Len(v) + Len(more)
    BY <2>1, <2>2
  <2>8. s = v \o more
    BY <2>2, <2>6, <2>7, Concatenated
  <2> QED
    BY <2>2, <2>4, <2>8 DEF Pushed
<1> QED
  BY <1>1, <1>2

\* An array in which an element was replaced, padded up to it if need be.
Replaced(v, k, pad, item) == [PushedUpTo(v, k, pad) EXCEPT ![k] = item]
IsReplaced(new, X, v, r, k, pad, item) ==
  /\ new \in Seq(X) /\ r < Len(new) /\ new[k] = item
  /\ \A i \in 1 .. Len(new) : i # k => new[i] = PushedUpTo(v, k, pad)[i]
  /\ k <= Len(v) => Len(new) = Len(v)
  /\ ~(k <= Len(v)) => Len(new) = k
  /\ Pushed(SplitHead(new, r), SplitHead(v, r), pad)
  /\ SplitTail(new, k) = SplitTail(v, k)

LEMMA ReplacedParts ==
  ASSUME NEW X, NEW v \in Seq(X), NEW r \in Nat, NEW k \in Nat, k = r + 1, NEW item \in X,
         NEW pad \in X
  PROVE  IsReplaced(Replaced(v, k, pad, item), X, v, r, k, pad, item)
<1> DEFINE padded == PushedUpTo(v, k, pad)
           new == [padded EXCEPT ![k] = item]
           m == Len(padded)
<1>1. Len(v) \in Nat
  OBVIOUS
<1>2. /\ padded \in Seq(X) /\ (k <= Len(v) => m = Len(v)) /\ (~(k <= Len(v)) => m = k)
      /\ \A i \in 1 .. m : padded[i] = IF i <= Len(v) THEN v[i] ELSE pad
  <2>1. padded \in Seq(X)
    BY PaddedAt
  <2>2. k <= Len(v) => m = Len(v)
    BY PaddedAt
  <2>3. ~(k <= Len(v)) => m = k
    BY PaddedAt
  <2>4. Prolongs(padded, v, pad)
    BY PaddedAt
  <2> HIDE DEF padded
  <2> QED
    BY <2>1, <2>2, <2>3, <2>4 DEF Prolongs
<1> HIDE DEF padded
<1>3. m \in Nat /\ k <= m /\ r < m /\ k \in 1 .. m
  BY <1>1, <1>2
<1>4. /\ new \in Seq(X) /\ Len(new) = m
      /\ \A i \in 1 .. m : new[i] = IF i = k THEN item ELSE padded[i]
  BY <1>2, <1>3, ExceptSeq
<1> HIDE DEF new
<1>5. \A i \in 1 .. m : i # k => new[i] = IF i <= Len(v) THEN v[i] ELSE pad
  BY <1>2, <1>4
<1>6. Pushed(SplitHead(new, r), SplitHead(v, r), pad)
  <2> DEFINE head == SplitHead(new, r)
  <2>1. r <= Len(new)
    BY <1>3, <1>4
  <2>2. head \in Seq(X) /\ Len(head) = r /\ \A i \in 1 .. r : head[i] = new[i]
    BY <1>4, <2>1, SplitJoined, SplitElements
  <2> HIDE DEF head
  <2>3. \A i \in 1 .. r : i \in 1 .. m /\ i # k
    BY <1>3
  <2>4. Prolongs(head, v, pad)
    BY <1>5, <2>2, <2>3 DEF Prolongs
  <2>5. Pushed(head, SplitHead(v, r), pad)
    BY <2>2, <2>4, PaddedHead
  <2> QED
    BY <2>5 DEF head
<1>7. SplitTail(new, k) = SplitTail(v, k)
  <2>1. CASE k <= Len(v)
    <3> DEFINE a == SplitTail(new, k)
               b == SplitTail(v, k)
               d == Len(v) - k
    <3>1. Len(new) = Len(v) /\ m = Len(v)
      BY <1>2, <1>4, <2>1
    <3>2. a \in Seq(X) /\ Len(a) = d /\ \A i \in 1 .. d : a[i] = new[k + i]
      BY <1>4, <2>1, <3>1, SplitJoined, SplitElements
    <3>3. b \in Seq(X) /\ Len(b) = d /\ \A i \in 1 .. d : b[i] = v[k + i]
      BY <2>1, SplitJoined, SplitElements
    <3> HIDE DEF a, b
    <3>4. \A i \in 1 .. d : k + i \in 1 .. m /\ k + i # k /\ k + i <= Len(v)
      BY <1>1, <3>1
    <3> HIDE DEF d
    <3>5. \A i \in 1 .. d : a[i] = b[i]
      BY <1>5, <3>2, <3>3, <3>4
    <3>6. a = b
      BY <3>2, <3>3, <3>5, SeqEqual
    <3> QED
      BY <3>6 DEF a, b
  <2>2. CASE ~(k <= Len(v))
    <3>1. Len(new) <= k /\ Len(v) <= k
      BY <1>1, <1>2, <1>4, <2>2
    <3>2. SplitTail(new, k) = << >>
      BY <1>4, <3>1, SplitJoined
    <3>3. SplitTail(v, k) = << >>
      BY <3>1, SplitJoined
    <3> QED
      BY <3>2, <3>3
  <2> QED
    BY <2>1, <2>2
<1>8. /\ r < Len(new) /\ new[k] = item
      /\ (k <= Len(v) => Len(new) = Len(v)) /\ (~(k <= Len(v)) => Len(new) = k)
  BY <1>2, <1>3, <1>4
<1>9. \A i \in 1 .. Len(new) : i # k => new[i] = padded[i]
  BY <1>4
<1> QED
  BY <1>4, <1>6, <1>7, <1>8, <1>9 DEF new, padded, Replaced, IsReplaced

-----------------------------------------------------------------------------
(* What is read before and after the cursor *)

\* What was pushed without text is not read.
LEMMA PushedReading ==
  ASSUME NEW v \in Seq(Elements), NEW s, NEW pad \in Elements, TextOf(pad) = << >>,
         Pushed(s, v, pad)
  PROVE  RowReading(s) = RowReading(v)
<1>1. PICK more \in Pads(pad) : s = v \o more
  BY DEF Pushed
<1>2. more \in Seq(Elements) /\ \A i \in 1 .. Len(more) : TextOf(more[i]) = << >>
  BY DEF Pads
<1>3. RowReading(more) = << >>
  BY <1>2, RowReadingEmpty
<1>4. RowReading(v \o more) = RowReading(v) \o << >>
  BY <1>2, <1>3, RowReadingConcat
<1>5. RowReading(v) \o << >> = RowReading(v)
  BY RowReadingType, ConcatEmptySeq
<1> QED
  BY <1>1, <1>4, <1>5

LEMMA PushedRowsReading ==
  ASSUME NEW v \in Seq(ElementRows), NEW s, Pushed(s, v, << >>)
  PROVE  RowsReading(s) = RowsReading(v)
<1> DEFINE none == << >>
<1>0. Pushed(s, v, none)
  OBVIOUS
<1>1. PICK more \in Pads(none) : s = v \o more
  BY <1>0 DEF Pushed
<1>2. more \in Seq({<< >>}) /\ {<< >>} \subseteq ElementRows
  BY EmptySeq DEF Pads, ElementRows
<1>3. more \in Seq(ElementRows) /\ RowsReading(more) = << >>
  BY <1>2, SeqMonotonic, RowsReadingEmpty
<1>4. RowsReading(v \o more) = RowsReading(v) \o << >>
  BY <1>3, RowsReadingConcat
<1>5. RowsReading(v) \o << >> = RowsReading(v)
  BY RowsReadingType, ConcatEmptySeq
<1> QED
  BY <1>1, <1>4, <1>5

\* A row belongs to the rows before it or to those after it.
RowAt(rows, r) == IF r < Len(rows) THEN rows[r + 1] ELSE << >>

LEMMA RowsReadingNext ==
  ASSUME NEW rows \in Seq(ElementRows), NEW r \in Nat
  PROVE  /\ RowAt(rows, r) \in ElementRows
         /\ RowsReading(SplitHead(rows, r + 1)) =
              RowsReading(SplitHead(rows, r)) \o RowReading(RowAt(rows, r))
         /\ RowsReading(SplitTail(rows, r)) =
              RowReading(RowAt(rows, r)) \o RowsReading(SplitTail(rows, r + 1))
<1> DEFINE row == RowAt(rows, r)
           k == r + 1
           head == SplitHead(rows, r)
           rest == SplitTail(rows, k)
<1>0. Len(rows) \in Nat /\ k \in Nat /\ head \in Seq(ElementRows) /\ rest \in Seq(ElementRows)
  <2>1. Len(rows) \in Nat /\ k \in Nat
    OBVIOUS
  <2> HIDE DEF k
  <2> QED
    BY <2>1, SplitTypes
<1>1. CASE r < Len(rows)
  <2>1. row = rows[k] /\ row \in ElementRows
    BY <1>0, <1>1, ElementOfSeq DEF RowAt
  <2>2. SplitHead(rows, k) = head \o << row >> /\ SplitTail(rows, r) = << row >> \o rest
    BY <1>1, <2>1, SplitNext
  <2> HIDE DEF head, rest, row
  <2>3. << row >> \in Seq(ElementRows) /\ RowsReading(<< row >>) = RowReading(row)
    BY <2>1, RowsReadingOne
  <2>4. RowsReading(head \o << row >>) = RowsReading(head) \o RowsReading(<< row >>)
    BY <1>0, <2>3, RowsReadingConcat
  <2>5. RowsReading(<< row >> \o rest) = RowsReading(<< row >>) \o RowsReading(rest)
    BY <1>0, <2>3, RowsReadingConcat
  <2> QED
    BY <2>1, <2>2, <2>3, <2>4, <2>5 DEF head, rest, row
<1>2. CASE ~(r < Len(rows))
  <2>1. row = << >> /\ Len(rows) <= r /\ Len(rows) <= k
    BY <1>0, <1>2 DEF RowAt
  <2>2. head = rows /\ SplitHead(rows, k) = rows /\ SplitTail(rows, r) = << >> /\ rest = << >>
    BY <1>0, <2>1, SplitJoined
  <2>3. << >> \in ElementRows /\ RowReading(<< >>) = << >> /\ RowsReading(<< >>) = << >>
    BY EmptySeq DEF ElementRows, RowReading, RowsReading, RowsParts, FlattenSeq
  <2>4. RowsReading(rows) \o << >> = RowsReading(rows) /\ << >> \o << >> = << >>
    BY RowsReadingType, ConcatEmptySeq
  <2> HIDE DEF head, rest, row
  <2> QED
    BY <2>1, <2>2, <2>3, <2>4 DEF head, rest, row
<1> QED
  BY <1>1, <1>2

\* The texts before the cursor of a table and those behind it.
Before(t) == RowsReading(SplitHead(t.rows, t.curRow))
               \o RowReading(SplitHead(CurrentRow(t), t.curCol))
After(t)  == RowReading(SplitTail(CurrentRow(t), t.curCol))
               \o RowsReading(SplitTail(t.rows, t.curRow + 1))

\* The rows of a table, its cursor, and the row it is in.
LEMMA TypedFacts ==
  ASSUME NEW t, Typed(t)
  PROVE  /\ t.rows \in Seq(ElementRows) /\ t.curRow \in Nat /\ t.curCol \in Nat
         /\ t.curRow + 1 \in Nat
         /\ CurrentRow(t) \in Seq(Elements) /\ CurrentRow(t) = RowAt(t.rows, t.curRow)
<1>1. t.rows \in Seq(ElementRows) /\ t.curRow \in Nat /\ t.curCol \in Nat
  BY DEF Typed, HasRows, ElementRows
<1>2. CurrentRow(t) = RowAt(t.rows, t.curRow)
  BY DEF CurrentRow, RowOrEmpty, RowAt, vector_at
<1>3. RowAt(t.rows, t.curRow) \in ElementRows
  BY <1>1, RowsReadingNext
<1> QED
  BY <1>1, <1>2, <1>3 DEF ElementRows

LEMMA ReadingSplit ==
  ASSUME NEW t, Typed(t)
  PROVE  /\ Before(t) \in Seq(Text) /\ After(t) \in Seq(Text)
         /\ Reading(t) = Before(t) \o After(t)
<1> DEFINE rows == t.rows
           r == t.curRow
           c == t.curCol
           row == CurrentRow(t)
           a1 == RowsReading(SplitHead(rows, r))
           a2 == RowReading(SplitHead(row, c))
           b1 == RowReading(SplitTail(row, c))
           b2 == RowsReading(SplitTail(rows, r + 1))
<1>1. /\ rows \in Seq(ElementRows) /\ r \in Nat /\ c \in Nat /\ r + 1 \in Nat
      /\ row \in Seq(Elements) /\ row = RowAt(rows, r)
  BY TypedFacts
<1> HIDE DEF rows, r, c, row
<1>2. /\ SplitHead(rows, r) \in Seq(ElementRows) /\ SplitTail(rows, r) \in Seq(ElementRows)
      /\ SplitTail(rows, r + 1) \in Seq(ElementRows)
      /\ rows = SplitHead(rows, r) \o SplitTail(rows, r)
  BY <1>1, SplitJoined
<1>3. /\ SplitHead(row, c) \in Seq(Elements) /\ SplitTail(row, c) \in Seq(Elements)
      /\ row = SplitHead(row, c) \o SplitTail(row, c)
  BY <1>1, SplitJoined
<1>4. a1 \in Seq(Text) /\ a2 \in Seq(Text) /\ b1 \in Seq(Text) /\ b2 \in Seq(Text)
  BY <1>2, <1>3, RowsReadingType, RowReadingType
<1>5. RowsReading(rows) = a1 \o RowsReading(SplitTail(rows, r))
  BY <1>2, RowsReadingConcat
<1>6. RowsReading(SplitTail(rows, r)) = RowReading(row) \o b2
  BY <1>1, RowsReadingNext
<1>7. RowReading(row) = a2 \o b1
  BY <1>3, RowReadingConcat
<1> HIDE DEF a1, a2, b1, b2
<1>8. RowsReading(rows) = a1 \o ((a2 \o b1) \o b2)
  BY <1>5, <1>6, <1>7
<1>9. /\ a1 \o a2 \in Seq(Text) /\ b1 \o b2 \in Seq(Text)
      /\ (a2 \o b1) \o b2 = a2 \o (b1 \o b2)
  BY <1>4, ConcatProperties, ConcatAssociative
<1>10. (a1 \o a2) \o (b1 \o b2) = a1 \o (a2 \o (b1 \o b2))
  BY <1>4, <1>9, ConcatAssociative
<1>11. Reading(t) = RowsReading(rows)
  BY DEF Reading, RowsReading, RowsParts, rows
<1>12. Before(t) = a1 \o a2 /\ After(t) = b1 \o b2
  BY DEF Before, After, a1, a2, b1, b2, rows, r, c, row
<1> QED
  BY <1>8, <1>9, <1>10, <1>11, <1>12

\* Cells put in at a position, behind empty ones if the row ends before it: what
\* is read before the position is followed by the texts of the cells, and what
\* is read behind them is what was read behind the position.
Then(a, b) == a \o b
Spliced(row, cells, c, pad) ==
  LET padded == PushedUpTo(row, c, pad)
  IN  SplitHead(padded, c) \o cells \o SplitTail(padded, c)

LEMMA SplicedReading ==
  ASSUME NEW row \in Seq(Elements), NEW cells \in Seq(Elements), NEW c \in Nat,
         NEW pad \in Elements, TextOf(pad) = << >>, NEW k, k = c + Len(cells)
  PROVE  LET new == Spliced(row, cells, c, pad)
         IN  /\ new \in Seq(Elements) /\ k <= Len(new)
             /\ RowReading(SplitHead(new, k)) = Then(RowReading(SplitHead(row, c)), RowReading(cells))
             /\ SplitTail(new, k) = SplitTail(row, c)
             /\ SplitHead(new, c) = SplitHead(PushedUpTo(row, c, pad), c)
<1> DEFINE padded == PushedUpTo(row, c, pad)
           head == SplitHead(padded, c)
           tail == SplitTail(padded, c)
           front == head \o cells
           new == front \o tail
<1>1. /\ head \in Seq(Elements) /\ tail \in Seq(Elements) /\ Len(head) = c
      /\ tail = SplitTail(row, c) /\ Pushed(head, SplitHead(row, c), pad)
  <2>1. head \in Seq(Elements) /\ tail \in Seq(Elements)
    BY SplitPadded
  <2>2. Len(head) = c
    BY SplitPadded
  <2>3. tail = SplitTail(row, c)
    BY SplitPadded
  <2>4. Pushed(head, SplitHead(row, c), pad)
    BY SplitPadded
  <2> HIDE DEF head, tail
  <2> QED
    BY <2>1, <2>2, <2>3, <2>4
<1>2. Spliced(row, cells, c, pad) = new
  BY DEF Spliced
<1> HIDE DEF padded, head, tail
<1>3. front \in Seq(Elements) /\ Len(front) = k
  BY <1>1, ConcatProperties
<1>4. new = head \o (cells \o tail) /\ cells \o tail \in Seq(Elements)
  BY <1>1, ConcatProperties, ConcatAssociative
<1>5. RowReading(front) = RowReading(head) \o RowReading(cells)
  BY <1>1, RowReadingConcat
<1>6. RowReading(head) = RowReading(SplitHead(row, c))
  <2>1. SplitHead(row, c) \in Seq(Elements)
    BY SplitTypes
  <2> QED
    BY <1>1, <2>1, PushedReading
<1>7. SplitHead(new, c) = head
  <2> DEFINE rest == cells \o tail
  <2>1. rest \in Seq(Elements) /\ new = head \o rest
    BY <1>4
  <2> HIDE DEF rest, new
  <2>2. SplitHead(head \o rest, Len(head)) = head
    BY <1>1, <2>1, SplitFound
  <2> QED
    BY <1>1, <2>1, <2>2
<1> HIDE DEF front
<1>8. SplitHead(front \o tail, Len(front)) = front /\ SplitTail(front \o tail, Len(front)) = tail
  BY <1>1, <1>3, SplitFound
<1>9. new \in Seq(Elements) /\ k <= Len(new)
  <2>1. new \in Seq(Elements) /\ Len(new) = Len(front) + Len(tail)
    BY <1>1, <1>3, ConcatProperties
  <2>2. Len(tail) \in Nat /\ Len(front) \in Nat
    BY <1>1, <1>3
  <2> HIDE DEF new
  <2> QED
    BY <1>3, <2>1, <2>2
<1>10. SplitHead(new, k) = front /\ SplitTail(new, k) = tail
  BY <1>3, <1>8
<1>11. RowReading(SplitHead(new, k)) = Then(RowReading(SplitHead(row, c)), RowReading(cells))
  <2>1. RowReading(front) = Then(RowReading(SplitHead(row, c)), RowReading(cells))
    BY <1>5, <1>6 DEF front, Then
  <2> QED
    BY <1>10, <2>1
<1>12. SplitTail(new, k) = SplitTail(row, c)
  BY <1>1, <1>10
<1> HIDE DEF new
<1> QED
  BY <1>2, <1>7, <1>9, <1>11, <1>12 DEF head, padded

\* A table whose row at the cursor was replaced: the other rows are read as
\* before.
LEMMA WithRowReading ==
  ASSUME NEW t, Typed(t), NEW new \in Seq(Elements), NEW u, NEW k \in Nat,
         u.rows = WithRow(t, t.curRow, new).rows, u.curRow = t.curRow, u.curCol = k
  PROVE  /\ CurrentRow(u) = new
         /\ Before(u) = RowsReading(SplitHead(t.rows, t.curRow)) \o RowReading(SplitHead(new, k))
         /\ After(u) = RowReading(SplitTail(new, k)) \o RowsReading(SplitTail(t.rows, t.curRow + 1))
<1> DEFINE r == t.curRow
           j == r + 1
           old == t.rows
           none == << >>
           rows == Replaced(old, j, none, new)
<1>1. old \in Seq(ElementRows) /\ r \in Nat /\ j \in Nat
  BY TypedFacts
<1>2. new \in ElementRows /\ none \in ElementRows
  BY EmptySeq DEF ElementRows
<1>3. u.rows = rows
  BY DEF WithRow, Typed, HasRows, TableFields, Replaced
<1>4. j = r + 1
  OBVIOUS
<1> HIDE DEF r, j, old, none
<1>5. /\ rows \in Seq(ElementRows) /\ r < Len(rows) /\ rows[j] = new
      /\ Pushed(SplitHead(rows, r), SplitHead(old, r), none)
      /\ SplitTail(rows, j) = SplitTail(old, j)
  <2>1. IsReplaced(rows, ElementRows, old, r, j, none, new)
    BY <1>1, <1>2, <1>4, ReplacedParts
  <2> HIDE DEF rows
  <2> QED
    BY <2>1 DEF IsReplaced
<1> HIDE DEF rows
<1>6. RowsReading(SplitHead(rows, r)) = RowsReading(SplitHead(old, r))
  <2>1. SplitHead(old, r) \in Seq(ElementRows)
    BY <1>1, SplitTypes
  <2>2. Pushed(SplitHead(rows, r), SplitHead(old, r), << >>)
    BY <1>5 DEF none
  <2> QED
    BY <2>1, <2>2, PushedRowsReading
<1>7. u.curRow = r
  BY DEF r
<1>8. CurrentRow(u) = new
  BY <1>3, <1>4, <1>5, <1>7 DEF CurrentRow, RowOrEmpty, vector_at
<1>9. Before(u) = RowsReading(SplitHead(old, r)) \o RowReading(SplitHead(new, k))
  BY <1>3, <1>6, <1>7, <1>8 DEF Before
<1>10. After(u) = RowReading(SplitTail(new, k)) \o RowsReading(SplitTail(old, j))
  BY <1>3, <1>4, <1>5, <1>7, <1>8 DEF After
<1> QED
  BY <1>8, <1>9, <1>10 DEF old, r, j

\* A call that puts cells in at the cursor and moves it behind them.
LEMMA SplicedTable ==
  ASSUME NEW t, Typed(t), NEW cells \in Seq(Elements), NEW pad \in Elements,
         TextOf(pad) = << >>, NEW u,
         u.rows = WithRow(t, t.curRow, Spliced(CurrentRow(t), cells, t.curCol, pad)).rows,
         u.curRow = t.curRow, u.curCol = t.curCol + Len(cells)
  PROVE  Before(u) = Before(t) \o RowReading(cells) /\ After(u) = After(t)
<1> DEFINE row == CurrentRow(t)
           c == t.curCol
           k == c + Len(cells)
           new == Spliced(row, cells, c, pad)
           a1 == RowsReading(SplitHead(t.rows, t.curRow))
           a2 == RowReading(SplitHead(row, c))
           a3 == RowReading(cells)
           b2 == RowsReading(SplitTail(t.rows, t.curRow + 1))
<1>1. row \in Seq(Elements) /\ c \in Nat
  BY TypedFacts
<1>0. k \in Nat
  BY <1>1
<1>2. u.curCol = k /\ k = c + Len(cells)
  OBVIOUS
<1> HIDE DEF k
<1>3. /\ new \in Seq(Elements)
      /\ RowReading(SplitHead(new, k)) = a2 \o a3
      /\ SplitTail(new, k) = SplitTail(row, c)
  <2> HIDE DEF row, c
  <2>1. new \in Seq(Elements)
    BY <1>1, <1>2, SplicedReading
  <2>2. RowReading(SplitHead(new, k)) = Then(a2, a3)
    BY <1>1, <1>2, SplicedReading
  <2>3. SplitTail(new, k) = SplitTail(row, c)
    BY <1>1, <1>2, SplicedReading
  <2> QED
    BY <2>1, <2>2, <2>3 DEF Then
<1> DEFINE h == RowReading(SplitHead(new, k))
           l == RowReading(SplitTail(new, k))
<1>4. Before(u) = a1 \o h /\ After(u) = l \o b2
  <2>1. u.rows = WithRow(t, t.curRow, new).rows
    OBVIOUS
  <2> HIDE DEF new
  <2> QED
    BY <1>0, <1>2, <1>3, <2>1, WithRowReading
<1>5. a1 \in Seq(Text) /\ a2 \in Seq(Text) /\ a3 \in Seq(Text)
  <2>1. SplitHead(t.rows, t.curRow) \in Seq(ElementRows) /\ SplitHead(row, c) \in Seq(Elements)
    BY <1>1, TypedFacts, SplitTypes
  <2> QED
    BY <2>1, RowsReadingType, RowReadingType
<1>6. Before(t) = a1 \o a2 /\ After(t) = RowReading(SplitTail(row, c)) \o b2
  BY DEF Before, After
<1>7. h = a2 \o a3 /\ l = RowReading(SplitTail(row, c))
  BY <1>3
<1> HIDE DEF a1, a2, a3, b2, h, l, new
<1>8. a1 \o (a2 \o a3) = (a1 \o a2) \o a3
  BY <1>5, ConcatAssociative
<1>9. Before(u) = Before(t) \o a3
  BY <1>4, <1>6, <1>7, <1>8
<1>10. After(u) = After(t)
  BY <1>4, <1>6, <1>7
<1> QED
  BY <1>9, <1>10 DEF a3

\* Putting an item into an array is splicing it in.
LEMMA InsertIsSplice ==
  ASSUME NEW X, NEW v \in Seq(X), NEW item \in X, NEW pos \in Nat,
         Hole \in X \/ pos <= Len(v)
  PROVE  vector_insert(v, item, pos) = Spliced(v, << item >>, pos, Hole)
<1> DEFINE padded == PushedUpTo(v, pos, Hole)
           head == SplitHead(padded, pos)
           tail == SplitTail(padded, pos)
           one == << item >>
<1>0. Len(v) \in Nat /\ one \in Seq(X)
  OBVIOUS
<1>1. Spliced(v, one, pos, Hole) = (head \o one) \o tail
  BY DEF Spliced
<1>2. CASE pos < Len(v)
  <2>1. padded = v
    BY <1>0, <1>2, NotPadded
  <2>2. vector_insert(v, item, pos) = InsertAt(v, pos + 1, item)
    BY <1>0, <1>2 DEF vector_insert
  <2>3. SubSeq(v, 1, (pos + 1) - 1) = head
    <3>1. (pos + 1) - 1 = pos
      OBVIOUS
    <3> QED
      BY <1>2, <2>1, <3>1 DEF SplitHead
  <2>4. SubSeq(v, pos + 1, Len(v)) = tail
    BY <2>1 DEF SplitTail
  <2> HIDE DEF head, tail
  <2>5. InsertAt(v, pos + 1, item) = (head \o one) \o tail
    BY <2>3, <2>4 DEF InsertAt
  <2> QED
    BY <1>1, <2>2, <2>5
<1>3. CASE ~(pos < Len(v))
  <2>1. vector_insert(v, item, pos) = Append(padded, item)
    BY <1>0, <1>3 DEF vector_insert, vector_push
  <2>2. padded \in Seq(X) /\ Len(padded) <= pos
    <3>1. CASE pos <= Len(v)
      BY <1>0, <1>3, <3>1, NotPadded
    <3>2. CASE ~(pos <= Len(v))
      <4>1. Hole \in X /\ Len(v) <= pos
        BY <1>0, <3>2
      <4>2. padded \in Seq(X)
        BY <4>1, PaddedType
      <4>3. Len(padded) = pos
        BY <4>1, PaddedElements
      <4> QED
        BY <4>2, <4>3
    <3> QED
      BY <3>1, <3>2
  <2> HIDE DEF padded
  <2>3. head = padded /\ tail = << >>
    BY <2>2, SplitJoined
  <2>4. Append(padded, item) = padded \o one
    BY <2>2, AppendIsConcat
  <2>5. padded \o one \in Seq(X)
    BY <1>0, <2>2, ConcatProperties
  <2>6. (padded \o one) \o << >> = padded \o one
    BY <2>5, ConcatEmptySeq
  <2> HIDE DEF head, tail
  <2> QED
    BY <1>1, <2>1, <2>3, <2>4, <2>6
<1> QED
  BY <1>2, <1>3

\* An element between two parts that is replaced.
Bracketed(a, x, b) == (a \o << x >>) \o b

LEMMA ReplacedBetween ==
  ASSUME NEW X, NEW a \in Seq(X), NEW b \in Seq(X), NEW x \in X, NEW y \in X,
         NEW k \in Nat, k = Len(a) + 1
  PROVE  [Bracketed(a, x, b) EXCEPT ![k] = y] = Bracketed(a, y, b)
<1> DEFINE f == a \o << x >>
           g == a \o << y >>
           s == f \o b
           t == g \o b
           u == [s EXCEPT ![k] = y]
<1>0. /\ Len(a) \in Nat /\ Len(b) \in Nat
      /\ << x >> \in Seq(X) /\ Len(<< x >>) = 1 /\ << x >>[1] = x
      /\ << y >> \in Seq(X) /\ Len(<< y >>) = 1 /\ << y >>[1] = y
  OBVIOUS
<1>1. /\ f \in Seq(X) /\ Len(f) = k
      /\ \A i \in 1 .. k : f[i] = IF i <= Len(a) THEN a[i] ELSE x
  <2>1. /\ f \in Seq(X) /\ Len(f) = Len(a) + Len(<< x >>)
        /\ \A i \in 1 .. Len(a) + Len(<< x >>) :
             f[i] = IF i <= Len(a) THEN a[i] ELSE << x >>[i - Len(a)]
    BY <1>0, ConcatProperties
  <2>2. \A i \in 1 .. k : ~(i <= Len(a)) => i - Len(a) = 1
    BY <1>0
  <2> HIDE DEF f
  <2> QED
    BY <1>0, <2>1, <2>2
<1>2. /\ g \in Seq(X) /\ Len(g) = k
      /\ \A i \in 1 .. k : g[i] = IF i <= Len(a) THEN a[i] ELSE y
  <2>1. /\ g \in Seq(X) /\ Len(g) = Len(a) + Len(<< y >>)
        /\ \A i \in 1 .. Len(a) + Len(<< y >>) :
             g[i] = IF i <= Len(a) THEN a[i] ELSE << y >>[i - Len(a)]
    BY <1>0, ConcatProperties
  <2>2. \A i \in 1 .. k : ~(i <= Len(a)) => i - Len(a) = 1
    BY <1>0
  <2> HIDE DEF g
  <2> QED
    BY <1>0, <2>1, <2>2
<1> HIDE DEF f, g
<1>3. /\ s \in Seq(X) /\ Len(s) = k + Len(b)
      /\ \A i \in 1 .. k + Len(b) : s[i] = IF i <= k THEN f[i] ELSE b[i - k]
  <2>1. /\ s \in Seq(X) /\ Len(s) = Len(f) + Len(b)
        /\ \A i \in 1 .. Len(f) + Len(b) : s[i] = IF i <= Len(f) THEN f[i] ELSE b[i - Len(f)]
    BY <1>1, ConcatProperties
  <2> HIDE DEF s
  <2> QED
    BY <1>1, <2>1
<1>4. /\ t \in Seq(X) /\ Len(t) = k + Len(b)
      /\ \A i \in 1 .. k + Len(b) : t[i] = IF i <= k THEN g[i] ELSE b[i - k]
  <2>1. /\ t \in Seq(X) /\ Len(t) = Len(g) + Len(b)
        /\ \A i \in 1 .. Len(g) + Len(b) : t[i] = IF i <= Len(g) THEN g[i] ELSE b[i - Len(g)]
    BY <1>2, ConcatProperties
  <2> HIDE DEF t
  <2> QED
    BY <1>2, <2>1
<1> HIDE DEF s, t
<1>5. k \in 1 .. Len(s)
  BY <1>0, <1>3
<1>6. u \in Seq(X) /\ Len(u) = Len(s) /\ \A i \in 1 .. Len(s) : u[i] = IF i = k THEN y ELSE s[i]
  BY <1>3, <1>5, ExceptSeq
<1> HIDE DEF u
<1>7. ASSUME NEW i \in 1 .. Len(u) PROVE u[i] = t[i]
  <2>0. i \in 1 .. Len(s) /\ i \in 1 .. k + Len(b) /\ i \in Nat
    BY <1>0, <1>3, <1>6
  <2>1. CASE i = k
    <3>1. ~(k <= Len(a)) /\ k \in 1 .. k
      BY <1>0
    <3>2. g[k] = y
      BY <1>2, <3>1
    <3> QED
      BY <1>4, <1>6, <2>0, <2>1, <3>1, <3>2
  <2>2. CASE i < k
    <3>1. i \in 1 .. k /\ i <= Len(a) /\ i # k
      BY <1>0, <2>0, <2>2
    <3>2. f[i] = g[i]
      BY <1>1, <1>2, <3>1
    <3> QED
      BY <1>3, <1>4, <1>6, <2>0, <2>2, <3>1, <3>2
  <2>3. CASE i > k
    <3>1. ~(i <= k) /\ i # k
      BY <2>0, <2>3
    <3> QED
      BY <1>3, <1>4, <1>6, <2>0, <3>1
  <2> QED
    BY <2>0, <2>1, <2>2, <2>3
<1>8. Len(u) = Len(t)
  BY <1>3, <1>4, <1>6
<1>9. u = t
  BY <1>4, <1>6, <1>7, <1>8, SeqEqual
<1> QED
  BY <1>9 DEF u, s, t, f, g, Bracketed

\* A text written into a cell that was put in is the text of that cell.
LEMMA WriteIsSplice ==
  ASSUME NEW t, Typed(t), t.tableProps.strategy = "insert", NEW text \in Seq(Nat)
  PROVE  LET cell == [create_cell EXCEPT !.text = text]
         IN  /\ cell \in Elements /\ TextOf(cell) = text
             /\ [Placed(t) EXCEPT ![t.curCol + 1].text = text]
                  = Spliced(CurrentRow(t), << cell >>, t.curCol, Hole)
<1> DEFINE cell == [create_cell EXCEPT !.text = text]
           row == CurrentRow(t)
           c == t.curCol
           k == c + 1
           padded == PushedUpTo(row, c, Hole)
           head == SplitHead(padded, c)
           tail == SplitTail(padded, c)
           placed == Bracketed(head, create_cell, tail)
<1>1. /\ row \in Seq(Elements) /\ c \in Nat /\ Hole \in Elements /\ create_cell \in Elements
      /\ k \in Nat
  BY TypedFacts, CellFacts DEF Elements
<1>2. cell \in Cells /\ cell.text = text /\ cell # Hole
  <2>1. cell \in Cells /\ cell.text = text
    BY DEF create_cell, Cells
  <2> QED
    BY <2>1, CellFacts
<1>3. TextOf(cell) = text /\ cell \in Elements
  BY <1>2 DEF TextOf, Elements
<1>4. Placed(t) = placed
  <2>1. Placed(t) = vector_insert(row, create_cell, c)
    BY DEF Placed
  <2> HIDE DEF row, c
  <2>2. vector_insert(row, create_cell, c) = Spliced(row, << create_cell >>, c, Hole)
    BY <1>1, InsertIsSplice
  <2> QED
    BY <2>1, <2>2 DEF Spliced, Bracketed
<1>5. head \in Seq(Elements) /\ tail \in Seq(Elements) /\ Len(head) = c
  <2> HIDE DEF row, c
  <2>1. head \in Seq(Elements)
    BY <1>1, SplitPadded
  <2>2. tail \in Seq(Elements)
    BY <1>1, SplitPadded
  <2>3. Len(head) = c
    BY <1>1, SplitPadded
  <2> QED
    BY <2>1, <2>2, <2>3
<1>6. Spliced(row, << cell >>, c, Hole) = Bracketed(head, cell, tail)
  BY DEF Spliced, Bracketed
<1> HIDE DEF head, tail, padded
<1>7. placed[k] = create_cell
  <2> DEFINE front == head \o << create_cell >>
  <2>1. /\ front \in Seq(Elements) /\ Len(front) = k /\ front[k] = create_cell
    BY <1>1, <1>5, ConcatProperties
  <2> HIDE DEF front
  <2>2. (front \o tail)[k] = front[k]
    <3>1. \A i \in 1 .. Len(front) + Len(tail) :
            (front \o tail)[i] = IF i <= Len(front) THEN front[i] ELSE tail[i - Len(front)]
      BY <1>5, <2>1, ConcatProperties
    <3>2. k \in 1 .. Len(front) + Len(tail) /\ k <= Len(front)
      BY <1>1, <1>5, <2>1
    <3> QED
      BY <3>1, <3>2
  <2> QED
    BY <2>1, <2>2 DEF front, Bracketed
<1>8. [placed EXCEPT ![k].text = text] = [placed EXCEPT ![k] = cell]
  <2> HIDE DEF placed
  <2> QED
    BY <1>7
<1>9. [placed EXCEPT ![k] = cell] = Bracketed(head, cell, tail)
  <2>1. k = Len(head) + 1
    BY <1>5
  <2> HIDE DEF cell, k
  <2> QED
    BY <1>1, <1>3, <1>5, <2>1, ReplacedBetween
<1> QED
  BY <1>3, <1>4, <1>6, <1>8, <1>9

-----------------------------------------------------------------------------
(* Texts stay where they are before the cursor *)

RowText(row, c) == IF c < Len(row) THEN TextOf(row[c + 1]) ELSE << >>

LEMMA TextAtRow ==
  ASSUME NEW t, NEW r, NEW c
  PROVE  TextAt(t, r, c) = RowText(RowOrEmpty(t, r), c)
BY DEF TextAt, RowText, columns_in_row, vector_at

\* The cursor does not go back, and the texts before it stay in their places.
Reached(t, r, c) == r < t.curRow \/ (r = t.curRow /\ c < t.curCol)
Keeps(t, u) ==
  /\ t.curRow < u.curRow \/ (t.curRow = u.curRow /\ t.curCol <= u.curCol)
  /\ \A r, c \in Nat : Reached(t, r, c) => TextAt(u, r, c) = TextAt(t, r, c)

LEMMA KeepsTrans ==
  ASSUME NEW t, NEW u, NEW v, Typed(t), Typed(u), Typed(v), Keeps(t, u), Keeps(u, v)
  PROVE  Keeps(t, v)
<1>1. /\ t.curRow \in Nat /\ t.curCol \in Nat /\ u.curRow \in Nat /\ u.curCol \in Nat
      /\ v.curRow \in Nat /\ v.curCol \in Nat
  BY TypedFacts
<1>2. t.curRow < v.curRow \/ (t.curRow = v.curRow /\ t.curCol <= v.curCol)
  BY <1>1 DEF Keeps
<1>3. ASSUME NEW r \in Nat, NEW c \in Nat, Reached(t, r, c)
      PROVE  TextAt(v, r, c) = TextAt(t, r, c)
  <2>1. Reached(u, r, c)
    BY <1>1, <1>3 DEF Keeps, Reached
  <2> QED
    BY <1>3, <2>1 DEF Keeps
<1> QED
  BY <1>2, <1>3 DEF Keeps

\* A row of a table that was not replaced.
LEMMA WithRowOther ==
  ASSUME NEW t, Typed(t), NEW r \in Nat, NEW new \in Seq(Elements), NEW u,
         u.rows = WithRow(t, r, new).rows
  PROVE  /\ RowOrEmpty(u, r) = new
         /\ \A q \in Nat : q # r => RowOrEmpty(u, q) = RowOrEmpty(t, q)
<1> DEFINE k == r + 1
           old == t.rows
           none == << >>
           rows == Replaced(old, k, none, new)
<1>1. old \in Seq(ElementRows) /\ new \in ElementRows /\ none \in ElementRows
  BY TypedFacts, EmptySeq DEF ElementRows
<1>2. u.rows = rows
  BY DEF WithRow, Typed, HasRows, TableFields, Replaced
<1>3. k \in Nat /\ k = r + 1
  OBVIOUS
<1> HIDE DEF k, old, none
<1>9. IsReplaced(rows, ElementRows, old, r, k, none, new)
  BY <1>1, <1>3, ReplacedParts
<1> HIDE DEF rows
<1>4. /\ rows \in Seq(ElementRows) /\ r < Len(rows) /\ rows[k] = new
      /\ \A i \in 1 .. Len(rows) : i # k => rows[i] = IF i <= Len(old) THEN old[i] ELSE none
  <2> DEFINE padded == PushedUpTo(old, k, none)
  <2>1. rows \in Seq(ElementRows) /\ r < Len(rows) /\ rows[k] = new
    BY <1>9 DEF IsReplaced
  <2>2. \A i \in 1 .. Len(rows) : i # k => rows[i] = padded[i]
    BY <1>9 DEF IsReplaced
  <2>3. Prolongs(padded, old, none)
    BY <1>1, <1>3, PaddedAt
  <2>4. k <= Len(old) => Len(rows) = Len(old) /\ Len(padded) = Len(old)
    BY <1>1, <1>3, <1>9, PaddedAt DEF IsReplaced
  <2>5. ~(k <= Len(old)) => Len(rows) = k /\ Len(padded) = k
    BY <1>1, <1>3, <1>9, PaddedAt DEF IsReplaced
  <2> HIDE DEF padded
  <2>6. Len(rows) = Len(padded)
    BY <2>4, <2>5
  <2> QED
    BY <2>1, <2>2, <2>3, <2>6 DEF Prolongs
<1>5. (k <= Len(old) => Len(rows) = Len(old)) /\ (~(k <= Len(old)) => Len(rows) = k)
  <2>1. k <= Len(old) => Len(rows) = Len(old)
    BY <1>9 DEF IsReplaced
  <2>2. ~(k <= Len(old)) => Len(rows) = k
    BY <1>9 DEF IsReplaced
  <2> QED
    BY <2>1, <2>2
<1>6. Len(rows) \in Nat /\ Len(old) \in Nat
  BY <1>1, <1>4
<1>7. RowOrEmpty(u, r) = new
  BY <1>2, <1>3, <1>4 DEF RowOrEmpty, vector_at
<1>8. ASSUME NEW q \in Nat, q # r
      PROVE  RowOrEmpty(u, q) = RowOrEmpty(t, q)
  <2>1. RowOrEmpty(u, q) = IF q < Len(rows) THEN rows[q + 1] ELSE << >>
    BY <1>2 DEF RowOrEmpty, vector_at
  <2>2. RowOrEmpty(t, q) = IF q < Len(old) THEN old[q + 1] ELSE << >>
    BY DEF RowOrEmpty, vector_at, old
  <2>3. CASE q < Len(rows)
    <3>1. q + 1 \in 1 .. Len(rows) /\ q + 1 # k /\ (q + 1 <= Len(old) <=> q < Len(old))
      BY <1>3, <1>6, <1>8, <2>3
    <3>2. rows[q + 1] = IF q < Len(old) THEN old[q + 1] ELSE << >>
      BY <1>4, <3>1 DEF none
    <3> QED
      BY <2>1, <2>2, <2>3, <3>2
  <2>4. CASE ~(q < Len(rows))
    <3>1. ~(q < Len(old))
      BY <1>3, <1>5, <1>6, <2>4
    <3> QED
      BY <2>1, <2>2, <2>4, <3>1
  <2> QED
    BY <2>3, <2>4
<1> QED
  BY <1>7, <1>8

\* A table whose row at the cursor was replaced keeps what is before the cursor,
\* if the new row does.
LEMMA WithRowKeeps ==
  ASSUME NEW t, Typed(t), NEW new \in Seq(Elements), NEW u, NEW k \in Nat,
         u.rows = WithRow(t, t.curRow, new).rows, u.curRow = t.curRow, u.curCol = k,
         t.curCol <= k,
         \A c \in Nat : c < t.curCol => RowText(new, c) = RowText(CurrentRow(t), c)
  PROVE  Keeps(t, u)
<1>1. t.curRow \in Nat
  BY TypedFacts
<1> DEFINE row == t.curRow
<1>2. /\ RowOrEmpty(u, row) = new
      /\ \A q \in Nat : q # row => RowOrEmpty(u, q) = RowOrEmpty(t, q)
  <2>1. row \in Nat /\ u.rows = WithRow(t, row, new).rows
    BY <1>1
  <2> HIDE DEF row
  <2> QED
    BY <2>1, WithRowOther
<1>3. ASSUME NEW r \in Nat, NEW c \in Nat, Reached(t, r, c)
      PROVE  TextAt(u, r, c) = TextAt(t, r, c)
  <2>1. TextAt(u, r, c) = RowText(RowOrEmpty(u, r), c) /\ TextAt(t, r, c) = RowText(RowOrEmpty(t, r), c)
    BY TextAtRow
  <2>2. CASE r = row
    <3>1. c < t.curCol
      BY <1>1, <1>3, <2>2 DEF Reached
    <3> QED
      BY <1>2, <2>1, <2>2, <3>1 DEF CurrentRow
  <2>3. CASE r # row
    BY <1>2, <2>1, <2>3
  <2> QED
    BY <2>2, <2>3
<1> QED
  BY <1>3 DEF Keeps

\* A row that begins with the elements of another one that was made longer.
BeginsLike(s, v, m) == \A i \in 1 .. m : s[i] = v[i]

LEMMA PaddedTexts ==
  ASSUME NEW row \in Seq(Elements), NEW n \in Nat, NEW pad \in Elements, TextOf(pad) = << >>,
         NEW new \in Seq(Elements), NEW m \in Nat, m <= n, m <= Len(new),
         BeginsLike(new, PushedUpTo(row, n, pad), m)
  PROVE  \A c \in Nat : c < m => RowText(new, c) = RowText(row, c)
<1> DEFINE padded == PushedUpTo(row, n, pad)
<1>0. Len(row) \in Nat /\ Len(new) \in Nat
  OBVIOUS
<1>1. padded \in Seq(Elements) /\ n <= Len(padded)
  BY PaddedType
<1>2. Prolongs(padded, row, pad)
  BY PaddedAt
<1> HIDE DEF padded
<1>3. Len(padded) \in Nat
  BY <1>1
<1> SUFFICES ASSUME NEW c \in Nat, c < m PROVE RowText(new, c) = RowText(row, c)
  OBVIOUS
<1>4. c + 1 \in 1 .. m /\ c + 1 \in 1 .. Len(padded) /\ c < Len(new) /\ (c + 1 <= Len(row) <=> c < Len(row))
  BY <1>0, <1>1, <1>3
<1>5. new[c + 1] = IF c < Len(row) THEN row[c + 1] ELSE pad
  <2>1. new[c + 1] = padded[c + 1]
    BY <1>4 DEF padded, BeginsLike
  <2> QED
    BY <1>2, <1>4, <2>1 DEF Prolongs
<1> QED
  BY <1>4, <1>5 DEF RowText

\* Cells put in at a position leave the texts before it.
LEMMA SplicedTexts ==
  ASSUME NEW row \in Seq(Elements), NEW cells \in Seq(Elements), NEW c \in Nat,
         NEW pad \in Elements, TextOf(pad) = << >>
  PROVE  \A i \in Nat : i < c => RowText(Spliced(row, cells, c, pad), i) = RowText(row, i)
<1> DEFINE new == Spliced(row, cells, c, pad)
           k == c + Len(cells)
           padded == PushedUpTo(row, c, pad)
<1>0. k \in Nat /\ k = c + Len(cells) /\ c <= k
  OBVIOUS
<1> HIDE DEF k
<1>1. new \in Seq(Elements)
  BY <1>0, SplicedReading
<1>2. k <= Len(new)
  BY <1>0, SplicedReading
<1>3. SplitHead(new, c) = SplitHead(padded, c)
  BY <1>0, SplicedReading
<1>4. c <= Len(padded) /\ padded \in Seq(Elements)
  BY PaddedType
<1> HIDE DEF new, padded
<1>5. c <= Len(new)
  BY <1>0, <1>1, <1>2
<1>6. \A i \in 1 .. c : SplitHead(new, c)[i] = new[i] /\ SplitHead(padded, c)[i] = padded[i]
  BY <1>1, <1>4, <1>5, SplitElements
<1>7. BeginsLike(new, PushedUpTo(row, c, pad), c)
  BY <1>3, <1>6 DEF padded, BeginsLike
<1>8. \A i \in Nat : i < c => RowText(new, i) = RowText(row, i)
  BY <1>1, <1>5, <1>7, PaddedTexts
<1> QED
  BY <1>8 DEF new

-----------------------------------------------------------------------------
(* Calls that write move the cursor over what they write *)

\* What is read before the cursor goes on with new texts, what is read behind it
\* stays.
Added(t, u) == \E new \in Seq(Text) : Before(u) = Then(Before(t), new) /\ After(u) = After(t)

\* The texts before the cursor stay in their places, and when cells are inserted
\* no text goes.
Moves(t, u) ==
  /\ u.tableProps = t.tableProps /\ Keeps(t, u)
  /\ t.tableProps.strategy = "insert" => Added(t, u)

\* A table into which a text can be written: its cells were created, or cells
\* are inserted.
Fit(t) == Typed(t) /\ (t.tableProps.strategy # "insert" => Clean(t))

LEMMA AddedTrans ==
  ASSUME NEW t, NEW u, NEW v, Typed(t), Added(t, u), Added(u, v)
  PROVE  Added(t, v)
<1>1. PICK a \in Seq(Text) : Before(u) = Then(Before(t), a) /\ After(u) = After(t)
  BY DEF Added
<1>2. PICK b \in Seq(Text) : Before(v) = Then(Before(u), b) /\ After(v) = After(u)
  BY DEF Added
<1>3. Before(t) \in Seq(Text)
  BY ReadingSplit
<1>4. (Before(t) \o a) \o b = Before(t) \o (a \o b)
  BY <1>3, ConcatAssociative
<1>5. a \o b \in Seq(Text)
  OBVIOUS
<1>6. Before(v) = Then(Before(t), a \o b) /\ After(v) = After(t)
  BY <1>1, <1>2, <1>4 DEF Then
<1> QED
  BY <1>5, <1>6 DEF Added

LEMMA MovesTrans ==
  ASSUME NEW t, NEW u, NEW v, Typed(t), Typed(u), Typed(v), Moves(t, u), Moves(u, v)
  PROVE  Moves(t, v)
<1>1. Keeps(t, v)
  BY KeepsTrans DEF Moves
<1>2. t.tableProps.strategy = "insert" => Added(t, v)
  BY AddedTrans DEF Moves
<1> QED
  BY <1>1, <1>2 DEF Moves

\* A table into which a text was written.
LEMMA WriteParts ==
  ASSUME NEW t, Typed(t), NEW text
  PROVE  LET u == ft_write(t, text)
             new == [Placed(t) EXCEPT ![t.curCol + 1].text = text]
         IN  /\ u.rows = WithRow(t, t.curRow, new).rows /\ u.curRow = t.curRow
             /\ u.curCol = t.curCol + 1 /\ u.tableProps = t.tableProps
<1> DEFINE new == [Placed(t) EXCEPT ![t.curCol + 1].text = text]
           w == WithRow(t, t.curRow, new)
           u == [w EXCEPT !.curCol = @ + 1]
<1>1. ft_write(t, text) = u
  BY DEF ft_write, Placed, CurrentRow
<1> HIDE DEF new
<1>2. /\ DOMAIN w = TableFields /\ w.curRow = t.curRow /\ w.curCol = t.curCol
      /\ w.tableProps = t.tableProps
  BY WithRowRest DEF Typed
<1> HIDE DEF w
<1>3. /\ u.rows = w.rows /\ u.curRow = t.curRow /\ u.curCol = t.curCol + 1
      /\ u.tableProps = t.tableProps
  BY <1>2 DEF TableFields
<1> HIDE DEF u
<1> QED
  BY <1>1, <1>3 DEF w, new

LEMMA WriteFit ==
  ASSUME NEW t, Fit(t), NEW text \in Seq(Nat)
  PROVE  Fit(ft_write(t, text))
<1> DEFINE u == ft_write(t, text)
<1>0. Typed(t)
  BY DEF Fit
<1>1. u.tableProps = t.tableProps
  BY <1>0, WriteParts
<1>2. CASE t.tableProps.strategy = "insert"
  <2>1. Writable(t, Elements)
    BY <1>0, <1>2 DEF Writable, Typed, Elements
  <2>2. Writable(u, Elements)
    BY <2>1, WriteIn
  <2> HIDE DEF u
  <2>3. Typed(u)
    BY <2>2 DEF Writable, Typed
  <2> QED
    BY <1>1, <1>2, <2>3 DEF Fit, u
<1>3. CASE t.tableProps.strategy # "insert"
  <2>1. Writable(t, Cells)
    BY <1>3 DEF Writable, Fit, Clean
  <2>2. Writable(u, Cells)
    BY <2>1, WriteIn
  <2> HIDE DEF u
  <2>3. Clean(u)
    BY <2>2 DEF Writable, Clean
  <2> QED
    BY <2>3, CleanIsTyped DEF Fit, u
<1> QED
  BY <1>2, <1>3

LEMMA WriteMoves ==
  ASSUME NEW t, Fit(t), NEW text \in Seq(Nat)
  PROVE  Moves(t, ft_write(t, text))
<1> DEFINE u == ft_write(t, text)
           row == CurrentRow(t)
           c == t.curCol
           new == [Placed(t) EXCEPT ![c + 1].text = text]
           cell == [create_cell EXCEPT !.text = text]
           k == c + 1
<1>0. /\ Typed(t) /\ row \in Seq(Elements) /\ c \in Nat /\ k \in Nat /\ t.curRow \in Nat /\ c <= k
      /\ create_cell \in Elements /\ create_cell # Hole /\ Hole \in Elements
  BY TypedFacts, CellFacts DEF Fit, Elements
<1>1. /\ u.rows = WithRow(t, t.curRow, new).rows /\ u.curRow = t.curRow
      /\ u.curCol = k /\ u.tableProps = t.tableProps
  BY <1>0, WriteParts
<1>2. TextOf(create_cell) = << >> /\ TextOf(Hole) = << >>
  BY <1>0 DEF TextOf, create_cell
<1>3. CASE t.tableProps.strategy = "insert"
  <2>1. cell \in Elements /\ new = Spliced(row, << cell >>, c, Hole)
    BY <1>0, <1>3, WriteIsSplice
  <2> DEFINE cells == << cell >>
  <2>2. cells \in Seq(Elements) /\ Len(cells) = 1
    BY <2>1
  <2> HIDE DEF cells, cell
  <2>3. new \in Seq(Elements)
    <3>1. k = c + Len(cells)
      BY <2>2
    <3> HIDE DEF k, c, row, new
    <3>2. Spliced(row, cells, c, Hole) \in Seq(Elements)
      BY <1>0, <1>2, <2>2, <3>1, SplicedReading
    <3> QED
      BY <2>1, <3>2 DEF cells, c, row
  <2>4. \A i \in Nat : i < c => RowText(new, i) = RowText(row, i)
    <3>1. \A i \in Nat : i < c => RowText(Spliced(row, cells, c, Hole), i) = RowText(row, i)
      BY <1>0, <1>2, <2>2, SplicedTexts
    <3> QED
      BY <2>1, <3>1 DEF cells
  <2>5. Keeps(t, u)
    <3> HIDE DEF new, u, k
    <3> QED
      BY <1>0, <1>1, <2>3, <2>4, WithRowKeeps
  <2>6. Before(u) = Before(t) \o RowReading(cells) /\ After(u) = After(t)
    <3>1. u.rows = WithRow(t, t.curRow, Spliced(CurrentRow(t), cells, t.curCol, Hole)).rows
      BY <1>1, <2>1 DEF cells
    <3>2. u.curCol = t.curCol + Len(cells)
      BY <1>1, <2>2
    <3> HIDE DEF u
    <3> QED
      BY <1>0, <1>1, <1>2, <2>2, <3>1, <3>2, SplicedTable
  <2>7. RowReading(cells) \in Seq(Text)
    BY <2>2, RowReadingType
  <2>8. Added(t, u)
    <3> DEFINE more == RowReading(cells)
    <3>1. more \in Seq(Text) /\ Before(u) = Then(Before(t), more) /\ After(u) = After(t)
      BY <2>6, <2>7 DEF Then
    <3> HIDE DEF more, u
    <3> QED
      BY <3>1 DEF Added
  <2> QED
    BY <1>1, <2>5, <2>8 DEF Moves
<1>4. CASE t.tableProps.strategy # "insert"
  <2>1. Clean(t)
    BY <1>4 DEF Fit
  <2>2. /\ Placed(t) \in Seq(Cells) /\ k <= Len(Placed(t)) /\ Placed(t)[k] \in Cells
        /\ Placed(t) = PushedUpTo(row, k, create_cell)
    <3>1. Writable(t, Cells)
      BY <1>4, <2>1 DEF Writable, Clean
    <3>2. Placed(t) = PushedUpTo(row, k, create_cell)
      BY <1>4 DEF Placed
    <3> QED
      BY <3>1, <3>2, PlacedType
  <2> DEFINE placed == Placed(t)
  <2> HIDE DEF placed
  <2>3. new \in Seq(Cells) /\ Len(new) = Len(placed) /\ \A i \in 1 .. c : new[i] = placed[i]
    <3>1. placed \in Seq(Cells) /\ k <= Len(placed) /\ placed[k] \in Cells /\ 1 <= k
      BY <1>0, <2>2 DEF placed
    <3>2. new = [placed EXCEPT ![k].text = text]
      BY DEF placed
    <3> HIDE DEF new, k
    <3>3. new \in Seq(Cells) /\ Len(new) = Len(placed)
      BY <1>0, <3>1, <3>2, WrittenRow
    <3>4. \A i \in 1 .. c : i \in DOMAIN placed /\ i # k
      BY <1>0, <3>1 DEF k
    <3>5. \A i \in 1 .. c : new[i] = placed[i]
      BY <3>2, <3>4
    <3> QED
      BY <3>3, <3>5
  <2>4. new \in Seq(Elements) /\ c <= Len(new)
    <3>1. new \in Seq(Elements)
      BY <2>3, SeqMonotonic DEF Elements
    <3>2. c <= Len(new)
      <4>1. Len(placed) \in Nat /\ k <= Len(placed) /\ Len(new) = Len(placed)
        BY <2>2, <2>3 DEF placed
      <4> HIDE DEF new
      <4> QED
        BY <1>0, <4>1
    <3> QED
      BY <3>1, <3>2
  <2>5. BeginsLike(new, PushedUpTo(row, k, create_cell), c)
    BY <2>2, <2>3 DEF BeginsLike, placed
  <2>6. \A i \in Nat : i < c => RowText(new, i) = RowText(row, i)
    <3> HIDE DEF new, k, row, c
    <3> QED
      BY <1>0, <1>2, <2>4, <2>5, PaddedTexts
  <2>7. Keeps(t, u)
    <3> HIDE DEF new, u, k
    <3> QED
      BY <1>0, <1>1, <2>4, <2>6, WithRowKeeps
  <2> QED
    BY <1>1, <1>4, <2>7 DEF Moves
<1> QED
  BY <1>3, <1>4

\* A cursor at the start of a row.
LEMMA AtRowStart ==
  ASSUME NEW u, Typed(u), u.curCol = 0
  PROVE  /\ Before(u) = RowsReading(SplitHead(u.rows, u.curRow))
         /\ After(u) = RowsReading(SplitTail(u.rows, u.curRow))
<1> DEFINE row == CurrentRow(u)
           rows == u.rows
           r == u.curRow
<1>1. /\ rows \in Seq(ElementRows) /\ r \in Nat /\ row \in Seq(Elements) /\ row = RowAt(rows, r)
  BY TypedFacts
<1> HIDE DEF row, rows, r
<1>2. SplitHead(row, 0) = << >> /\ SplitTail(row, 0) = row
  <2> DEFINE start == 0
             head == SplitHead(row, start)
             tail == SplitTail(row, start)
  <2>1. Len(row) \in Nat /\ start \in Nat /\ start <= Len(row)
    BY <1>1
  <2> HIDE DEF start
  <2>2. head \in Seq(Elements) /\ tail \in Seq(Elements) /\ row = head \o tail /\ Len(head) = start
    BY <1>1, <2>1, SplitJoined
  <2> HIDE DEF head, tail
  <2>3. head = << >>
    BY <2>2, EmptySeq DEF start
  <2>4. << >> \o tail = tail
    BY <2>2, ConcatEmptySeq
  <2> QED
    BY <2>2, <2>3, <2>4 DEF head, tail, start
<1>3. RowReading(<< >>) = << >>
  BY DEF RowReading, FlattenSeq
<1>4. Before(u) = RowsReading(SplitHead(rows, r)) \o << >>
  BY <1>2, <1>3 DEF Before, rows, r, row
<1>5. RowsReading(SplitHead(rows, r)) \in Seq(Text)
  BY <1>1, SplitTypes, RowsReadingType
<1>6. Before(u) = RowsReading(SplitHead(rows, r))
  BY <1>4, <1>5, ConcatEmptySeq
<1>7. After(u) = RowReading(row) \o RowsReading(SplitTail(rows, r + 1))
  BY <1>2 DEF After, rows, r, row
<1>8. After(u) = RowsReading(SplitTail(rows, r))
  BY <1>1, <1>7, RowsReadingNext
<1> QED
  BY <1>6, <1>8 DEF rows, r

\* A line end.
LEMMA LnParts ==
  ASSUME NEW t, Typed(t)
  PROVE  LET u == ft_ln(t)
         IN  /\ Typed(u) /\ u.tableProps = t.tableProps
             /\ u.curRow = t.curRow + 1 /\ u.curCol = 0
<1>1. HasRows(ft_ln(t), Elements) /\ ft_ln(t).tableProps = t.tableProps
  BY LnIn DEF Typed
<1>2. ft_ln(t).curRow = t.curRow + 1 /\ ft_ln(t).curCol = 0
  BY DEF ft_ln, Typed, HasRows, TableFields
<1> QED
  BY <1>1, <1>2 DEF Typed

\* It leaves the rows, or divides the row of the cursor there.
Divides(t) == t.tableProps.strategy = "insert" /\ t.curCol < Len(CurrentRow(t))
Divided(t) == WithRow(t, t.curRow, SplitHead(CurrentRow(t), t.curCol))

LEMMA LnRows ==
  ASSUME NEW t, Typed(t)
  PROVE  ft_ln(t).rows = IF Divides(t)
                           THEN vector_insert(Divided(t).rows, SplitTail(CurrentRow(t), t.curCol),
                                              t.curRow + 1)
                           ELSE t.rows
BY DEF ft_ln, Divides, Divided, CurrentRow, columns_in_row, Typed, HasRows, TableFields

\* A line end between two rows.
LEMMA LnBetween ==
  ASSUME NEW t, Typed(t), ~Divides(t)
  PROVE  Moves(t, ft_ln(t))
<1> DEFINE u == ft_ln(t)
           row == CurrentRow(t)
           c == t.curCol
           rows == t.rows
           r == t.curRow
           k == r + 1
<1>1. /\ Typed(u) /\ u.tableProps = t.tableProps /\ u.curRow = k /\ u.curCol = 0 /\ u.rows = rows
  BY LnParts, LnRows
<1>2. /\ rows \in Seq(ElementRows) /\ r \in Nat /\ c \in Nat /\ k \in Nat
      /\ row \in Seq(Elements) /\ row = RowAt(rows, r)
  BY TypedFacts
<1>3. Keeps(t, u)
  <2>1. \A q, i \in Nat : TextAt(u, q, i) = TextAt(t, q, i)
    BY <1>1 DEF TextAt, RowOrEmpty
  <2>2. t.curRow < u.curRow
    BY <1>1, <1>2
  <2> HIDE DEF u
  <2> QED
    BY <2>1, <2>2 DEF Keeps
<1>4. t.tableProps.strategy = "insert" => Added(t, u)
  <2> SUFFICES ASSUME t.tableProps.strategy = "insert" PROVE Added(t, u)
    OBVIOUS
  <2>1. Len(row) <= c
    BY <1>2 DEF Divides
  <2>2. SplitHead(row, c) = row /\ SplitTail(row, c) = << >>
    BY <1>2, <2>1, SplitJoined
  <2>3. RowReading(<< >>) = << >>
    BY DEF RowReading, FlattenSeq
  <2>4. Before(u) = RowsReading(SplitHead(rows, k)) /\ After(u) = RowsReading(SplitTail(rows, k))
    <3> HIDE DEF u, rows
    <3> QED
      BY <1>1, AtRowStart
  <2>5. Before(t) = RowsReading(SplitHead(rows, k))
    <3>1. Before(t) = RowsReading(SplitHead(rows, r)) \o RowReading(row)
      BY <2>2 DEF Before
    <3> HIDE DEF rows, row, r, c
    <3> QED
      BY <1>2, <3>1, RowsReadingNext
  <2>6. After(t) = RowsReading(SplitTail(rows, k))
    <3>1. After(t) = << >> \o RowsReading(SplitTail(rows, k))
      BY <2>2, <2>3 DEF After
    <3>2. RowsReading(SplitTail(rows, k)) \in Seq(Text)
      <4> HIDE DEF rows, k
      <4> QED
        BY <1>2, SplitTypes, RowsReadingType
    <3> QED
      BY <3>1, <3>2, ConcatEmptySeq
  <2>7. Before(t) \in Seq(Text)
    BY ReadingSplit
  <2>8. << >> \in Seq(Text) /\ Before(t) \o << >> = Before(t)
    BY <2>7, EmptySeq, ConcatEmptySeq
  <2> HIDE DEF u
  <2>9. Before(u) = Then(Before(t), << >>) /\ After(u) = After(t)
    BY <2>4, <2>5, <2>6, <2>8 DEF Then
  <2> QED
    BY <2>8, <2>9 DEF Added
<1> QED
  BY <1>1, <1>3, <1>4 DEF Moves

\* A line end that divides a row.
LEMMA LnDivides ==
  ASSUME NEW t, Typed(t), Divides(t)
  PROVE  Moves(t, ft_ln(t))
<1> DEFINE u == ft_ln(t)
           row == CurrentRow(t)
           c == t.curCol
           old == t.rows
           r == t.curRow
           k == r + 1
           head == SplitHead(row, c)
           tail == SplitTail(row, c)
           w == Divided(t)
           divided == w.rows
           none == << >>
           first == SplitHead(divided, k)
           last == SplitTail(divided, k)
           rest == << tail >> \o last
           rows == first \o rest
<1>1. /\ Typed(u) /\ u.tableProps = t.tableProps /\ u.curRow = k /\ u.curCol = 0
  BY LnParts
<1>2. /\ old \in Seq(ElementRows) /\ r \in Nat /\ c \in Nat /\ k \in Nat /\ k = r + 1
      /\ row \in Seq(Elements) /\ c < Len(row) /\ Len(row) \in Nat
  BY TypedFacts DEF Divides
<1>3. head \in Seq(Elements) /\ tail \in Seq(Elements) /\ Len(head) = c
  <2> HIDE DEF row, c
  <2> QED
    BY <1>2, SplitJoined
<1>4. /\ head \in ElementRows /\ tail \in ElementRows /\ none \in ElementRows
  BY <1>3, EmptySeq DEF ElementRows
<1>5. divided = Replaced(old, k, none, head)
  BY DEF Divided, WithRow, Typed, HasRows, TableFields, Replaced
<1>6. IsReplaced(divided, ElementRows, old, r, k, none, head)
  <2> HIDE DEF old, r, k, none, head, divided
  <2> QED
    BY <1>2, <1>4, <1>5, ReplacedParts
<1>7. u.rows = vector_insert(divided, tail, k)
  BY LnRows
<1> HIDE DEF old, r, k, none, head, tail, w, divided, u
<1>8. divided \in Seq(ElementRows) /\ k <= Len(divided) /\ Len(divided) \in Nat
  BY <1>2, <1>6 DEF IsReplaced
<1>9. first \in Seq(ElementRows) /\ last \in Seq(ElementRows) /\ Len(first) = k
  BY <1>2, <1>8, SplitJoined
<1>10. u.rows = rows
  <2>1. vector_insert(divided, tail, k) = Spliced(divided, << tail >>, k, Hole)
    BY <1>2, <1>4, <1>8, InsertIsSplice
  <2>2. PushedUpTo(divided, k, Hole) = divided
    BY <1>2, <1>8, NotPadded
  <2>3. vector_insert(divided, tail, k) = (first \o << tail >>) \o last
    BY <2>1, <2>2 DEF Spliced
  <2>4. << tail >> \in Seq(ElementRows)
    BY <1>4
  <2> HIDE DEF first, last
  <2>5. (first \o << tail >>) \o last = first \o (<< tail >> \o last)
    BY <1>9, <2>4, ConcatAssociative
  <2> QED
    BY <1>7, <2>3, <2>5
<1> HIDE DEF first, last
<1>11. << tail >> \in Seq(ElementRows) /\ rest \in Seq(ElementRows)
  BY <1>4, <1>9
<1>12. SplitHead(rows, k) = first /\ SplitTail(rows, k) = rest
  <2> HIDE DEF rest
  <2>1. SplitHead(rows, Len(first)) = first /\ SplitTail(rows, Len(first)) = rest
    BY <1>9, <1>11, SplitFound
  <2> QED
    BY <1>9, <2>1
<1>13. Before(u) = RowsReading(first) /\ After(u) = RowsReading(rest)
  BY <1>1, <1>10, <1>12, AtRowStart
<1>14. RowsReading(first) = RowsReading(SplitHead(old, r)) \o RowReading(head)
  <2>1. RowAt(divided, r) = head
    BY <1>2, <1>6 DEF IsReplaced, RowAt
  <2>2. RowsReading(first) = RowsReading(SplitHead(divided, r)) \o RowReading(head)
    BY <1>2, <1>8, <2>1, RowsReadingNext DEF first
  <2>3. Pushed(SplitHead(divided, r), SplitHead(old, r), << >>)
    BY <1>6 DEF IsReplaced, none
  <2>4. SplitHead(old, r) \in Seq(ElementRows)
    BY <1>2, SplitTypes
  <2>5. RowsReading(SplitHead(divided, r)) = RowsReading(SplitHead(old, r))
    BY <2>3, <2>4, PushedRowsReading
  <2> QED
    BY <2>2, <2>5
<1>15. RowsReading(rest) = RowReading(tail) \o RowsReading(SplitTail(old, k))
  <2>1. RowsReading(<< tail >> \o last) = RowsReading(<< tail >>) \o RowsReading(last)
    BY <1>9, <1>11, RowsReadingConcat
  <2>2. RowsReading(<< tail >>) = RowReading(tail)
    BY <1>4, RowsReadingOne
  <2>3. last = SplitTail(old, k)
    BY <1>6 DEF IsReplaced, last
  <2> QED
    BY <2>1, <2>2, <2>3
<1>16. Before(t) = RowsReading(first) /\ After(t) = RowsReading(rest)
  BY <1>14, <1>15 DEF Before, After, old, r, k, head, tail
<1>17. Added(t, u)
  <2>1. Before(t) \in Seq(Text)
    BY ReadingSplit
  <2>2. << >> \in Seq(Text) /\ Before(t) \o << >> = Before(t)
    BY <2>1, EmptySeq, ConcatEmptySeq
  <2>3. Before(u) = Then(Before(t), << >>) /\ After(u) = After(t)
    BY <1>13, <1>16, <2>2 DEF Then
  <2> QED
    BY <2>2, <2>3 DEF Added
<1>18. /\ RowOrEmpty(w, r) = head
       /\ \A q \in Nat : q # r => RowOrEmpty(w, q) = RowOrEmpty(t, q)
  <2>1. w.rows = WithRow(t, r, head).rows
    BY DEF w, Divided, r, head
  <2> HIDE DEF row, c
  <2> QED
    BY <1>2, <1>3, <2>1, WithRowOther
<1>19. \A q \in Nat : q < k => RowOrEmpty(u, q) = RowOrEmpty(w, q)
  <2> SUFFICES ASSUME NEW q \in Nat, q < k PROVE RowOrEmpty(u, q) = RowOrEmpty(w, q)
    OBVIOUS
  <2>1. /\ rows \in Seq(ElementRows) /\ Len(rows) = Len(first) + Len(rest)
        /\ \A i \in 1 .. Len(first) + Len(rest) :
             rows[i] = IF i <= Len(first) THEN first[i] ELSE rest[i - Len(first)]
    BY <1>9, <1>11, ConcatProperties
  <2>2. Len(rest) \in Nat
    BY <1>11
  <2> HIDE DEF rows, rest
  <2>3. q + 1 \in 1 .. k /\ q + 1 \in 1 .. Len(first) + Len(rest) /\ q < Len(rows) /\ q < Len(divided)
    BY <1>2, <1>8, <1>9, <2>1, <2>2
  <2>4. rows[q + 1] = first[q + 1]
    BY <1>9, <2>1, <2>3
  <2>5. first[q + 1] = divided[q + 1]
    BY <1>2, <1>8, <2>3, SplitElements DEF first
  <2> QED
    BY <1>10, <2>3, <2>4, <2>5 DEF RowOrEmpty, vector_at, divided
<1>20. Keeps(t, u)
  <2>1. t.curRow < u.curRow
    BY <1>1, <1>2 DEF r
  <2>2. ASSUME NEW q \in Nat, NEW i \in Nat, Reached(t, q, i)
        PROVE  TextAt(u, q, i) = TextAt(t, q, i)
    <3>1. TextAt(u, q, i) = RowText(RowOrEmpty(u, q), i) /\ TextAt(t, q, i) = RowText(RowOrEmpty(t, q), i)
      BY TextAtRow
    <3>2. q < k /\ (q # r \/ (q = r /\ i < c))
      BY <1>2, <2>2 DEF Reached, r
    <3>3. CASE q # r
      BY <1>18, <1>19, <3>1, <3>2, <3>3
    <3>4. CASE q = r
      <4>1. RowOrEmpty(u, q) = head /\ RowOrEmpty(t, q) = row
        BY <1>18, <1>19, <3>2, <3>4 DEF row, r, CurrentRow
      <4>2. i < c /\ i + 1 \in 1 .. c /\ i < Len(row) /\ i < Len(head)
        BY <1>2, <1>3, <3>2, <3>4
      <4>3. head[i + 1] = row[i + 1]
        <5> HIDE DEF row, c
        <5>1. c <= Len(row)
          BY <1>2
        <5> QED
          BY <1>2, <4>2, <5>1, SplitElements DEF head
      <4> QED
        BY <3>1, <4>1, <4>2, <4>3 DEF RowText
    <3> QED
      BY <3>3, <3>4
  <2> QED
    BY <2>1, <2>2 DEF Keeps
<1> QED
  BY <1>1, <1>17, <1>20 DEF Moves, u

LEMMA LnMoves ==
  ASSUME NEW t, Typed(t)
  PROVE  Moves(t, ft_ln(t)) /\ Typed(ft_ln(t)) /\ (Fit(t) => Fit(ft_ln(t)))
<1>1. Moves(t, ft_ln(t))
  BY LnBetween, LnDivides
<1>2. Typed(ft_ln(t)) /\ ft_ln(t).tableProps = t.tableProps
  BY LnParts
<1>3. Clean(t) => Clean(ft_ln(t))
  BY LnIn DEF Clean
<1> QED
  BY <1>1, <1>2, <1>3 DEF Fit

-----------------------------------------------------------------------------
(* What is left when the new texts are taken away *)

Singles(v) == [i \in DOMAIN v |-> << v[i] >>]

LEMMA SinglesType ==
  ASSUME NEW X, NEW v \in Seq(X)
  PROVE  /\ Singles(v) \in Seq(Seq(X)) /\ Len(Singles(v)) = Len(v)
         /\ \A i \in 1 .. Len(v) : Singles(v)[i] = << v[i] >>
<1> DEFINE Y == Seq(X)
<1>1. DOMAIN v = 1 .. Len(v) /\ Len(v) \in Nat /\ \A i \in 1 .. Len(v) : << v[i] >> \in Y
  OBVIOUS
<1> HIDE DEF Y
<1>2. [i \in 1 .. Len(v) |-> << v[i] >>] \in Seq(Y)
  BY <1>1
<1> QED
  BY <1>1, <1>2 DEF Singles, Y

\* Elements one by one are the sequence.
LEMMA FlattenSingles ==
  ASSUME NEW X, NEW v \in Seq(X)
  PROVE  FlattenSeq(Singles(v)) = v
<1> DEFINE Law(c) == FlattenSeq(Singles(c)) = c
           T == {n \in Nat : \E c \in Seq(X) : Len(c) = n /\ ~Law(c)}
<1>1. Law(<< >>)
  <2>1. Singles(<< >>) = << >>
    BY DEF Singles
  <2>2. FlattenSeq(<< >>) = << >>
    BY DEF FlattenSeq
  <2> QED
    BY <2>1, <2>2
<1>2. ASSUME NEW c \in Seq(X), NEW e \in X, Law(c)
      PROVE  Law(Append(c, e))
  <2> DEFINE d == Append(c, e)
             s == Singles(c)
             one == << e >>
             t == Append(s, one)
             Y == Seq(X)
  <2>1. /\ d \in Seq(X) /\ Len(d) = Len(c) + 1
        /\ \A i \in 1 .. Len(c) : d[i] = c[i]
        /\ d[Len(c) + 1] = e
    BY AppendProperties
  <2>2. s \in Seq(Y) /\ Len(s) = Len(c) /\ \A i \in 1 .. Len(c) : s[i] = << c[i] >>
    BY SinglesType
  <2>3. /\ Singles(d) \in Seq(Y) /\ Len(Singles(d)) = Len(d)
        /\ \A i \in 1 .. Len(d) : Singles(d)[i] = << d[i] >>
    <3> HIDE DEF d
    <3> QED
      BY <2>1, SinglesType
  <2>4. one \in Y
    OBVIOUS
  <2> HIDE DEF d, s, one, Y
  <2>5. /\ t \in Seq(Y) /\ Len(t) = Len(s) + 1
        /\ \A i \in 1 .. Len(s) : t[i] = s[i]
        /\ t[Len(s) + 1] = one
    BY <2>2, <2>4, AppendProperties
  <2> HIDE DEF t
  <2>6. Len(c) \in Nat
    OBVIOUS
  <2>7. ASSUME NEW i \in 1 .. Len(d) PROVE Singles(d)[i] = t[i]
    <3>1. CASE i = Len(c) + 1
      BY <2>1, <2>2, <2>3, <2>5, <3>1 DEF one
    <3>2. CASE i # Len(c) + 1
      <4>1. i \in 1 .. Len(c)
        BY <2>1, <2>6, <3>2
      <4> QED
        BY <2>1, <2>2, <2>3, <2>5, <4>1
    <3> QED
      BY <3>1, <3>2
  <2>8. Singles(d) = t
    <3> DEFINE sd == Singles(d)
    <3>1. sd \in Seq(Y) /\ Len(sd) = Len(t) /\ \A i \in 1 .. Len(sd) : sd[i] = t[i]
      BY <2>1, <2>2, <2>3, <2>5, <2>7
    <3> HIDE DEF sd
    <3>2. sd = t
      BY <2>5, <3>1, SeqEqual
    <3> QED
      BY <3>2 DEF sd
  <2>9. FlattenSeq(t) = FlattenSeq(s) \o one
    BY <2>2, <2>4, FlattenAppend DEF t, Y
  <2>10. FlattenSeq(s) = c
    BY <1>2 DEF s
  <2>11. d = c \o one
    BY AppendIsConcat DEF d, one
  <2> QED
    BY <2>8, <2>9, <2>10, <2>11 DEF d
<1>3. T = {}
  <2>1. SUFFICES ASSUME T # {} PROVE FALSE
    OBVIOUS
  <2>2. PICK m \in T : m \in Nat /\ \A n \in Nat : n < m => n \notin T
    BY <2>1, LeastPosition
  <2>3. PICK c \in Seq(X) : Len(c) = m /\ ~Law(c)
    BY <2>2
  <2> HIDE DEF Law
  <2>4. c # << >>
    BY <1>1, <2>3
  <2>5. PICK d \in Seq(X), e \in X : c = Append(d, e)
    BY <2>4, SequenceEmptyOrAppend
  <2>6. Len(d) \in Nat /\ Len(d) < m
    BY <2>3, <2>5, AppendProperties
  <2>7. Law(d)
    BY <2>2, <2>6
  <2>8. Law(c)
    BY <1>2, <2>5, <2>7
  <2> QED
    BY <2>3, <2>8
<1>4. Len(v) \in Nat
  OBVIOUS
<1> HIDE DEF Law
<1>5. Law(v)
  BY <1>3, <1>4
<1> QED
  BY <1>5 DEF Law

NewOnes(a, c) == Len(a) + 1 .. Len(a) + Len(c)
Without(s, more) == Erased(s, {k - 1 : k \in more})

LEMMA ErasedMiddle ==
  ASSUME NEW X, NEW a \in Seq(X), NEW c \in Seq(X), NEW b \in Seq(X)
  PROVE  /\ NewOnes(a, c) \in SUBSET DOMAIN ((a \o c) \o b)
         /\ Without((a \o c) \o b, NewOnes(a, c)) = a \o b
<1> DEFINE Y == Seq(X)
           la == Len(a)
           m == la + Len(c)
           front == a \o c
           new == front \o b
           more == la + 1 .. m
           gone == {k - 1 : k \in more}
           parts == [i \in DOMAIN new |-> IF i - 1 \in gone THEN << >> ELSE << new[i] >>]
           blanks == [i \in 1 .. Len(c) |-> << >>]
           sa == Singles(a)
           sb == Singles(b)
           fp == sa \o blanks
           all == fp \o sb
<1>0. la \in Nat /\ Len(c) \in Nat /\ Len(b) \in Nat /\ m \in Nat
  OBVIOUS
<1>1. /\ front \in Seq(X) /\ Len(front) = m
      /\ \A i \in 1 .. m : front[i] = IF i <= la THEN a[i] ELSE c[i - la]
  BY ConcatProperties
<1> HIDE DEF front
<1>2. /\ new \in Seq(X) /\ Len(new) = m + Len(b) /\ DOMAIN new = 1 .. m + Len(b)
      /\ \A i \in 1 .. m + Len(b) : new[i] = IF i <= m THEN front[i] ELSE b[i - m]
  <2>1. /\ new \in Seq(X) /\ Len(new) = Len(front) + Len(b)
        /\ \A i \in 1 .. Len(front) + Len(b) :
             new[i] = IF i <= Len(front) THEN front[i] ELSE b[i - Len(front)]
    <3>1. front \in Seq(X)
      BY <1>1
    <3> QED
      BY <3>1, ConcatProperties
  <2> HIDE DEF new
  <2>2. DOMAIN new = 1 .. Len(new)
    BY <2>1
  <2> QED
    BY <1>1, <2>1, <2>2
<1> HIDE DEF new
<1>3. more \in SUBSET DOMAIN new
  BY <1>0, <1>2
<1>4. \A i \in 1 .. m + Len(b) : i - 1 \in gone <=> i > la /\ i <= m
  <2> SUFFICES ASSUME NEW i \in 1 .. m + Len(b) PROVE i - 1 \in gone <=> i > la /\ i <= m
    OBVIOUS
  <2>1. i - 1 \in gone <=> \E k \in more : i - 1 = k - 1
    OBVIOUS
  <2>2. (\E k \in more : i - 1 = k - 1) <=> i \in more
    BY <1>0
  <2> QED
    BY <1>0, <2>1, <2>2
<1> HIDE DEF gone
<1>5. /\ sa \in Seq(Y) /\ Len(sa) = la /\ \A i \in 1 .. la : sa[i] = << a[i] >>
      /\ sb \in Seq(Y) /\ Len(sb) = Len(b) /\ \A i \in 1 .. Len(b) : sb[i] = << b[i] >>
  BY SinglesType
<1>6. << >> \in Y
  BY EmptySeq
<1> HIDE DEF Y, sa, sb
<1>7. blanks \in Seq(Y) /\ Len(blanks) = Len(c) /\ \A i \in 1 .. Len(c) : blanks[i] = << >>
  BY <1>0, <1>6
<1>8. blanks \in Seq({<< >>})
  BY <1>0
<1> HIDE DEF blanks
<1>9. /\ fp \in Seq(Y) /\ Len(fp) = m
      /\ \A i \in 1 .. m : fp[i] = IF i <= la THEN sa[i] ELSE blanks[i - la]
  <2>1. sa \in Seq(Y) /\ blanks \in Seq(Y)
    BY <1>5, <1>7
  <2>2. /\ fp \in Seq(Y) /\ Len(fp) = Len(sa) + Len(blanks)
        /\ \A i \in 1 .. Len(sa) + Len(blanks) :
             fp[i] = IF i <= Len(sa) THEN sa[i] ELSE blanks[i - Len(sa)]
    BY <2>1, ConcatProperties
  <2> HIDE DEF fp
  <2> QED
    BY <1>5, <1>7, <2>2
<1> HIDE DEF fp
<1>10. /\ all \in Seq(Y) /\ Len(all) = m + Len(b)
       /\ \A i \in 1 .. m + Len(b) : all[i] = IF i <= m THEN fp[i] ELSE sb[i - m]
  <2>1. /\ all \in Seq(Y) /\ Len(all) = Len(fp) + Len(sb)
        /\ \A i \in 1 .. Len(fp) + Len(sb) :
             all[i] = IF i <= Len(fp) THEN fp[i] ELSE sb[i - Len(fp)]
    <3>1. fp \in Seq(Y) /\ sb \in Seq(Y)
      BY <1>5, <1>9
    <3> QED
      BY <3>1, ConcatProperties
  <2> HIDE DEF all
  <2> QED
    BY <1>5, <1>9, <2>1
<1> HIDE DEF all
<1>11. ASSUME NEW i \in 1 .. m + Len(b) PROVE parts[i] = all[i]
  <2>1. parts[i] = IF i > la /\ i <= m THEN << >> ELSE << new[i] >>
    BY <1>2, <1>4
  <2>2. CASE i <= la
    <3>1. i \in 1 .. la /\ i \in 1 .. m /\ ~(i > la) /\ i <= m
      BY <1>0, <2>2
    <3> QED
      BY <1>1, <1>2, <1>5, <1>9, <1>10, <2>1, <2>2, <3>1
  <2>3. CASE i > la /\ i <= m
    <3>1. i - la \in 1 .. Len(c) /\ i \in 1 .. m /\ ~(i <= la)
      BY <1>0, <2>3
    <3> QED
      BY <1>7, <1>9, <1>10, <2>1, <2>3, <3>1
  <2>4. CASE i > m
    <3>1. i - m \in 1 .. Len(b) /\ ~(i <= m)
      BY <1>0, <2>4
    <3> QED
      BY <1>2, <1>5, <1>10, <2>1, <3>1
  <2> QED
    BY <1>0, <2>2, <2>3, <2>4
<1>12. parts = all
  <2>1. DOMAIN parts = 1 .. m + Len(b) /\ DOMAIN all = 1 .. m + Len(b)
    BY <1>2, <1>10
  <2>2. parts = [i \in 1 .. m + Len(b) |-> parts[i]]
    BY <1>2
  <2>3. all = [i \in 1 .. m + Len(b) |-> all[i]]
    BY <1>10, <2>1
  <2> HIDE DEF parts
  <2> QED
    BY <1>11, <2>2, <2>3
<1>13. Erased(new, gone) = FlattenSeq(all)
  BY <1>12 DEF Erased
<1>14. FlattenSeq(all) = FlattenSeq(fp) \o FlattenSeq(sb)
  BY <1>5, <1>9, FlattenConcat DEF all, Y
<1>15. FlattenSeq(fp) = FlattenSeq(sa) \o FlattenSeq(blanks)
  BY <1>5, <1>7, FlattenConcat DEF fp, Y
<1>16. FlattenSeq(sa) = a /\ FlattenSeq(sb) = b /\ FlattenSeq(blanks) = << >>
  BY <1>8, FlattenSingles, FlattenEmpty DEF sa, sb
<1>17. a \o << >> = a
  BY ConcatEmptySeq
<1>18. Erased(new, gone) = a \o b
  BY <1>13, <1>14, <1>15, <1>16, <1>17
<1> QED
  BY <1>3, <1>18 DEF new, front, gone, NewOnes, Without

\* What TextStays asks of a step.
StaysIn(t, u) ==
  /\ \A r \in 0..t.curRow, c \in 0..2 * MaxCols :
       (r < t.curRow \/ c < t.curCol) => TextAt(u, r, c) = TextAt(t, r, c)
  /\ t.tableProps.strategy = "insert" =>
       LET old == Reading(t)
           new == Reading(u)
       IN  \/ new = old
           \/ \E more \in SUBSET DOMAIN new : old = Erased(new, {k - 1 : k \in more})

\* A call that moves the cursor does that.
LEMMA MovesStay ==
  ASSUME NEW t, NEW u, Typed(t), Typed(u), Moves(t, u)
  PROVE  StaysIn(t, u)
<1>1. t.curRow \in Nat /\ t.curCol \in Nat
  BY TypedFacts
<1>2. ASSUME NEW r \in 0..t.curRow, NEW c \in 0..2 * MaxCols, r < t.curRow \/ c < t.curCol
      PROVE  TextAt(u, r, c) = TextAt(t, r, c)
  <2>1. r \in Nat /\ c \in Nat /\ (r < t.curRow \/ (r = t.curRow /\ c < t.curCol))
    BY <1>1, <1>2, FortAssumption
  <2> QED
    BY <2>1 DEF Moves, Keeps, Reached
<1>3. ASSUME t.tableProps.strategy = "insert"
      PROVE  \E more \in SUBSET DOMAIN Reading(u) : Reading(t) = Erased(Reading(u), {k - 1 : k \in more})
  <2> DEFINE a == Before(t)
             b == After(t)
  <2>1. PICK c \in Seq(Text) : Before(u) = Then(a, c) /\ After(u) = b
    BY <1>3 DEF Moves, Added
  <2>2. a \in Seq(Text) /\ b \in Seq(Text) /\ Reading(t) = a \o b
    BY ReadingSplit
  <2>3. Reading(u) = (a \o c) \o b
    BY <2>1, ReadingSplit DEF Then
  <2> HIDE DEF a, b
  <2> DEFINE more == NewOnes(a, c)
  <2>4. more \in SUBSET DOMAIN ((a \o c) \o b)
    BY <2>2, ErasedMiddle
  <2>5. Without((a \o c) \o b, more) = a \o b
    BY <2>2, ErasedMiddle
  <2>6. more \in SUBSET DOMAIN Reading(u) /\ Reading(t) = Without(Reading(u), more)
    BY <2>2, <2>3, <2>4, <2>5
  <2> HIDE DEF more
  <2> QED
    BY <2>6 DEF Without
<1> QED
  BY <1>2, <1>3 DEF StaysIn

-----------------------------------------------------------------------------
(* Formatted lines and several texts *)

LEMMA NotMoved ==
  ASSUME NEW t, Typed(t)
  PROVE  Moves(t, t)
<1>1. Keeps(t, t)
  BY TypedFacts DEF Keeps
<1>2. Before(t) \in Seq(Text)
  BY ReadingSplit
<1>3. << >> \in Seq(Text) /\ Before(t) \o << >> = Before(t)
  BY <1>2, EmptySeq, ConcatEmptySeq
<1>4. Before(t) = Then(Before(t), << >>) /\ After(t) = After(t)
  BY <1>3 DEF Then
<1>5. Added(t, t)
  BY <1>3, <1>4 DEF Added
<1> QED
  BY <1>1, <1>5 DEF Moves

\* The row a formatted line is written into.
PrintedRow(t, cells) ==
  IF t.tableProps.strategy = "insert" THEN InsertedCells(CurrentRow(t), cells, t.curCol)
                                      ELSE vector_swap(CurrentRow(t), cells, t.curCol)

LEMMA RowPrintfParts ==
  ASSUME NEW t, Typed(t), NEW cells, cells # NoRow
  PROVE  LET u == ft_row_printf(t, cells)
         IN  /\ u.rows = WithRow(t, t.curRow, PrintedRow(t, cells)).rows /\ u.curRow = t.curRow
             /\ u.curCol = t.curCol + Len(cells) /\ u.tableProps = t.tableProps
<1> DEFINE new == PrintedRow(t, cells)
           w == WithRow(t, t.curRow, new)
           u == [w EXCEPT !.curCol = @ + Len(cells)]
<1>1. ft_row_printf(t, cells) = u
  BY DEF ft_row_printf, PrintedRow, CurrentRow
<1> HIDE DEF new
<1>2. /\ DOMAIN w = TableFields /\ w.curRow = t.curRow /\ w.curCol = t.curCol
      /\ w.tableProps = t.tableProps
  BY WithRowRest DEF Typed
<1> HIDE DEF w
<1>3. /\ u.rows = w.rows /\ u.curRow = t.curRow /\ u.curCol = t.curCol + Len(cells)
      /\ u.tableProps = t.tableProps
  BY <1>2 DEF TableFields
<1> HIDE DEF u
<1> QED
  BY <1>1, <1>3 DEF w, new

\* Cells that take the place of others begin at the cursor.
LEMMA SwappedTexts ==
  ASSUME NEW row \in Seq(Elements), NEW cells \in Seq(Elements), cells # << >>, NEW c \in Nat
  PROVE  LET new == vector_swap(row, cells, c)
         IN  /\ new \in Seq(Elements)
             /\ \A i \in Nat : i < c => RowText(new, i) = RowText(row, i)
<1> DEFINE new == vector_swap(row, cells, c)
           n == c + Len(cells)
           old == PushedUpTo(row, n, Hole)
<1>0. n \in Nat /\ c <= n /\ Hole \in Elements /\ TextOf(Hole) = << >>
  BY DEF Elements, TextOf
<1>1. new \in Seq(Elements)
  BY <1>0, SwapType
<1>2. new = [i \in DOMAIN old |-> IF i \in c + 1 .. n THEN cells[i - c] ELSE old[i]]
  BY DEF vector_swap
<1> HIDE DEF n
<1>3. old \in Seq(Elements) /\ n <= Len(old)
  BY <1>0, PaddedType
<1> HIDE DEF old
<1>4. DOMAIN old = 1 .. Len(old) /\ Len(old) \in Nat
  BY <1>3
<1>5. \A i \in 1 .. c : i \in DOMAIN old /\ i \notin c + 1 .. n
  BY <1>0, <1>3, <1>4
<1>6. \A i \in 1 .. c : new[i] = old[i]
  BY <1>2, <1>5
<1>7. c <= Len(new)
  <2>1. DOMAIN new = 1 .. Len(old)
    BY <1>2, <1>4
  <2> HIDE DEF new
  <2>2. DOMAIN new = 1 .. Len(new) /\ Len(new) \in Nat
    BY <1>1
  <2>3. Len(new) = Len(old)
    BY <1>4, <2>1, <2>2
  <2> QED
    BY <1>0, <1>3, <1>4, <2>3
<1>8. BeginsLike(new, PushedUpTo(row, n, Hole), c)
  BY <1>6 DEF BeginsLike, old
<1> HIDE DEF new
<1>9. \A i \in Nat : i < c => RowText(new, i) = RowText(row, i)
  BY <1>0, <1>1, <1>7, <1>8, PaddedTexts
<1> QED
  BY <1>1, <1>9 DEF new

LEMMA RowPrintfMoves ==
  ASSUME NEW t, Typed(t), NEW cells \in Seq(Cells)
  PROVE  Moves(t, ft_row_printf(t, cells)) /\ Typed(ft_row_printf(t, cells))
<1> DEFINE u == ft_row_printf(t, cells)
           row == CurrentRow(t)
           c == t.curCol
           new == PrintedRow(t, cells)
           k == c + Len(cells)
<1>1. Typed(u)
  <2>1. Cells \subseteq Elements /\ Hole \in Elements /\ HasRows(t, Elements)
    BY DEF Elements, Typed
  <2>2. HasRows(u, Elements)
    BY <2>1, RowPrintfIn
  <2> QED
    BY <2>2 DEF Typed
<1>2. CASE cells = NoRow
  <2>1. u = t
    BY <1>2 DEF ft_row_printf
  <2> QED
    BY <1>1, <2>1, NotMoved
<1>3. CASE cells # NoRow
  <2>0. /\ row \in Seq(Elements) /\ c \in Nat /\ t.curRow \in Nat
        /\ cells \in Seq(Elements) /\ cells # << >> /\ Len(cells) \in Nat /\ k \in Nat /\ c <= k
        /\ create_cell \in Elements /\ create_cell # Hole
    <3>1. cells \in Seq(Elements)
      BY SeqMonotonic DEF Elements
    <3>2. row \in Seq(Elements) /\ c \in Nat /\ t.curRow \in Nat
      BY TypedFacts
    <3> QED
      BY <1>3, <3>1, <3>2, CellFacts DEF Elements, NoRow
  <2>1. /\ u.rows = WithRow(t, t.curRow, new).rows /\ u.curRow = t.curRow
        /\ u.curCol = k /\ u.tableProps = t.tableProps
    BY <1>3, RowPrintfParts
  <2>2. TextOf(create_cell) = << >>
    BY <2>0 DEF TextOf, create_cell
  <2>3. CASE t.tableProps.strategy = "insert"
    <3>1. new = Spliced(row, cells, c, create_cell)
      BY <2>3 DEF PrintedRow, InsertedCells, Spliced
    <3>2. new \in Seq(Elements)
      <4>1. k = c + Len(cells)
        OBVIOUS
      <4> HIDE DEF k, c, row, new
      <4> QED
        BY <2>0, <2>2, <3>1, <4>1, SplicedReading
    <3>3. \A i \in Nat : i < c => RowText(new, i) = RowText(row, i)
      <4> HIDE DEF k, c, row, new
      <4> QED
        BY <2>0, <2>2, <3>1, SplicedTexts
    <3>4. Keeps(t, u)
      <4> HIDE DEF new, u, k
      <4> QED
        BY <2>0, <2>1, <3>2, <3>3, WithRowKeeps
    <3>5. Before(u) = Before(t) \o RowReading(cells) /\ After(u) = After(t)
      <4>1. u.rows = WithRow(t, t.curRow, Spliced(CurrentRow(t), cells, t.curCol, create_cell)).rows
        BY <2>1, <3>1
      <4>2. u.curCol = t.curCol + Len(cells)
        BY <2>1
      <4> HIDE DEF u
      <4> QED
        BY <2>0, <2>1, <2>2, <4>1, <4>2, SplicedTable
    <3>6. RowReading(cells) \in Seq(Text)
      BY <2>0, RowReadingType
    <3>7. Added(t, u)
      <4> DEFINE more == RowReading(cells)
      <4>1. more \in Seq(Text) /\ Before(u) = Then(Before(t), more) /\ After(u) = After(t)
        BY <3>5, <3>6 DEF Then
      <4> HIDE DEF more, u
      <4> QED
        BY <4>1 DEF Added
    <3> QED
      BY <1>1, <2>1, <3>4, <3>7 DEF Moves
  <2>4. CASE t.tableProps.strategy # "insert"
    <3>1. new = vector_swap(row, cells, c)
      BY <2>4 DEF PrintedRow
    <3>2. new \in Seq(Elements) /\ \A i \in Nat : i < c => RowText(new, i) = RowText(row, i)
      <4> HIDE DEF row, c, new
      <4> QED
        BY <2>0, <3>1, SwappedTexts
    <3>3. Keeps(t, u)
      <4> HIDE DEF new, u, k
      <4> QED
        BY <2>0, <2>1, <3>2, WithRowKeeps
    <3> QED
      BY <1>1, <2>1, <2>4, <3>3 DEF Moves
  <2> QED
    BY <2>3, <2>4
<1> QED
  BY <1>2, <1>3

LEMMA OneTextMoves ==
  ASSUME NEW t, Fit(t), NEW a \in Seq(Nat)
  PROVE  Moves(t, ft_nwrite(t, <<a>>)) /\ Fit(ft_nwrite(t, <<a>>))
<1> DEFINE texts == <<a>>
<1>1. DOMAIN texts = {1} /\ texts[1] = a
  OBVIOUS
<1> HIDE DEF texts
<1>2. ft_nwrite(t, texts) = ft_write(t, a)
  BY <1>1, Texting
<1> QED
  BY <1>2, WriteMoves, WriteFit DEF texts

LEMMA TwoTextsMove ==
  ASSUME NEW t, Fit(t), NEW a \in Seq(Nat), NEW b \in Seq(Nat)
  PROVE  Moves(t, ft_nwrite(t, <<a, b>>)) /\ Fit(ft_nwrite(t, <<a, b>>))
<1> DEFINE texts == <<a, b>>
           u == ft_write(t, a)
           v == ft_write(u, b)
<1>1. DOMAIN texts = {1, 2} /\ texts[1] = a /\ texts[2] = b /\ {1, 2} # {1}
  OBVIOUS
<1> HIDE DEF texts
<1>2. ft_nwrite(t, texts) = v
  BY <1>1, Texting
<1>3. Moves(t, u) /\ Fit(u)
  BY WriteMoves, WriteFit
<1> HIDE DEF u
<1>4. Moves(u, v) /\ Fit(v)
  BY <1>3, WriteMoves, WriteFit
<1> HIDE DEF v
<1>5. Moves(t, v)
  BY <1>3, <1>4, MovesTrans DEF Fit
<1> QED
  BY <1>2, <1>4, <1>5 DEF texts

LEMMA TableWriteMoves ==
  ASSUME NEW t, Fit(t), NEW a \in Seq(Nat), NEW b \in Seq(Nat)
  PROVE  Moves(t, ft_table_write(t, <<<<a>>, <<b>>>>)) /\ Fit(ft_table_write(t, <<<<a>>, <<b>>>>))
<1> DEFINE grid == <<<<a>>, <<b>>>>
           lines == <<<<b>>>>
           u == ft_nwrite(t, <<a>>)
           v == ft_ln(u)
           w == ft_nwrite(v, <<b>>)
<1>1. grid[1] = <<a>> /\ Tail(grid) = lines /\ DOMAIN lines = {1} /\ lines[1] = <<b>>
  OBVIOUS
<1>2. ft_table_write(t, grid) = FoldLeft(WriteOnNextLine, u, lines)
  BY <1>1 DEF ft_table_write
<1> HIDE DEF grid, lines
<1>3. FoldLeft(WriteOnNextLine, u, lines) = WriteOnNextLine(u, <<b>>)
  BY <1>1, Lining
<1>4. Moves(t, u) /\ Fit(u)
  BY OneTextMoves
<1> HIDE DEF u
<1>5. Moves(u, v) /\ Fit(v)
  BY <1>4, LnMoves DEF Fit
<1>6. WriteOnNextLine(u, <<b>>) = w
  BY DEF WriteOnNextLine
<1> HIDE DEF v
<1>7. Moves(v, w) /\ Fit(w)
  BY <1>5, OneTextMoves
<1> HIDE DEF w
<1>8. Moves(t, v)
  BY <1>4, <1>5, MovesTrans DEF Fit
<1>9. Moves(t, w)
  BY <1>5, <1>7, <1>8, MovesTrans DEF Fit
<1> QED
  BY <1>2, <1>3, <1>6, <1>7, <1>9 DEF grid

-----------------------------------------------------------------------------
(* Spans take no text away *)

\* A row that took the place of another one that is read alike.
LEMMA ReplacedReading ==
  ASSUME NEW old \in Seq(ElementRows), NEW r \in Nat, NEW k \in Nat, k = r + 1,
         NEW none, none = << >>, NEW new \in ElementRows,
         RowReading(new) = RowReading(RowAt(old, r))
  PROVE  RowsReading(Replaced(old, k, none, new)) = RowsReading(old)
<1> DEFINE rows == Replaced(old, k, none, new)
<1>1. none \in ElementRows
  BY EmptySeq DEF ElementRows
<1>2. IsReplaced(rows, ElementRows, old, r, k, none, new)
  BY <1>1, ReplacedParts
<1> HIDE DEF rows
<1>3. rows \in Seq(ElementRows) /\ RowAt(rows, r) = new /\ SplitTail(rows, k) = SplitTail(old, k)
  BY <1>2 DEF IsReplaced, RowAt
<1>4. RowsReading(SplitHead(rows, r)) = RowsReading(SplitHead(old, r))
  <2>1. SplitHead(old, r) \in Seq(ElementRows)
    BY SplitTypes
  <2>2. Pushed(SplitHead(rows, r), SplitHead(old, r), << >>)
    BY <1>2 DEF IsReplaced
  <2> QED
    BY <2>1, <2>2, PushedRowsReading
<1>5. ASSUME NEW s \in Seq(ElementRows)
      PROVE  RowsReading(s) = RowsReading(SplitHead(s, r))
                                \o (RowReading(RowAt(s, r)) \o RowsReading(SplitTail(s, k)))
  <2> DEFINE head == SplitHead(s, r)
             tail == SplitTail(s, r)
  <2>1. head \in Seq(ElementRows) /\ tail \in Seq(ElementRows) /\ s = head \o tail
    BY SplitJoined
  <2>2. RowsReading(tail) = RowReading(RowAt(s, r)) \o RowsReading(SplitTail(s, k))
    BY RowsReadingNext
  <2> HIDE DEF head, tail
  <2>3. RowsReading(head \o tail) = RowsReading(head) \o RowsReading(tail)
    BY <2>1, RowsReadingConcat
  <2> QED
    BY <2>1, <2>2, <2>3 DEF head
<1>6. /\ RowsReading(rows) = RowsReading(SplitHead(rows, r))
                               \o (RowReading(RowAt(rows, r)) \o RowsReading(SplitTail(rows, k)))
      /\ RowsReading(old) = RowsReading(SplitHead(old, r))
                              \o (RowReading(RowAt(old, r)) \o RowsReading(SplitTail(old, k)))
  BY <1>3, <1>5
<1>7. RowsReading(rows) = RowsReading(old)
  BY <1>3, <1>4, <1>6
<1> QED
  BY <1>7 DEF rows

\* The cells of a span hold the texts they held, and those that were added hold
\* none.
LEMMA SpanTexts ==
  ASSUME NEW row \in Seq(Cells), NEW c \in Nat, NEW span \in Nat
  PROVE  LET new == row_set_cell_span(row, c, span)
         IN  /\ new \in Seq(Elements) /\ RowReading(new) = RowReading(row)
             /\ \A i \in Nat : RowText(new, i) = RowText(row, i)
<1> DEFINE n == c + span
           padded == PushedUpTo(row, n, create_cell)
           spanned(i) == CASE i = c + 1               -> [padded[i] EXCEPT !.type = "master"]
                           [] i \in c + 2 .. c + span -> [padded[i] EXCEPT !.type = "slave"]
                           [] OTHER                   -> padded[i]
           new == [i \in DOMAIN padded |-> spanned(i)]
<1>1. /\ n \in Nat /\ create_cell \in Cells /\ create_cell \in Elements /\ create_cell # Hole
      /\ Len(row) \in Nat /\ row \in Seq(Elements)
  <2>1. row \in Seq(Elements)
    BY SeqMonotonic DEF Elements
  <2> QED
    BY <2>1, CellFacts DEF Elements
<1>2. TextOf(create_cell) = << >>
  BY <1>1 DEF TextOf, create_cell
<1>3. row_set_cell_span(row, c, span) = new
  BY DEF row_set_cell_span
<1> HIDE DEF n
<1>4. /\ padded \in Seq(Cells) /\ Prolongs(padded, row, create_cell)
      /\ n <= Len(row) => Len(padded) = Len(row)
      /\ ~(n <= Len(row)) => Len(padded) = n
  <2>1. padded \in Seq(Cells) /\ Prolongs(padded, row, create_cell)
    BY <1>1, PaddedAt
  <2>2. n <= Len(row) => Len(padded) = Len(row)
    BY <1>1, PaddedAt
  <2>3. ~(n <= Len(row)) => Len(padded) = n
    BY <1>1, PaddedAt
  <2> QED
    BY <2>1, <2>2, <2>3
<1>5. Pushed(padded, row, create_cell)
  <2> DEFINE more == [i \in 1 .. (n - Len(row)) |-> create_cell]
  <2>1. CASE n <= Len(row)
    <3>1. padded = row
      BY <1>1, <2>1, NotPadded
    <3>2. row \o << >> = row /\ << >> \in Pads(create_cell)
      BY ConcatEmptySeq, EmptySeq DEF Pads
    <3> QED
      BY <3>1, <3>2 DEF Pushed
  <2>2. CASE ~(n <= Len(row))
    <3>1. n - Len(row) \in Nat
      BY <1>1, <2>2
    <3>2. more \in Pads(create_cell)
      BY <3>1 DEF Pads
    <3>3. padded = row \o more
      BY DEF PushedUpTo
    <3> HIDE DEF padded, more
    <3> QED
      BY <3>2, <3>3 DEF Pushed
  <2> QED
    BY <2>1, <2>2
<1> HIDE DEF padded
<1>6. /\ Len(padded) \in Nat /\ DOMAIN padded = 1 .. Len(padded)
      /\ \A i \in 1 .. Len(padded) : padded[i] \in Cells
  BY <1>4
<1>7. Len(row) <= Len(padded)
  <2>1. CASE n <= Len(row)
    BY <1>1, <1>4, <2>1
  <2>2. CASE ~(n <= Len(row))
    BY <1>1, <1>4, <2>2
  <2> QED
    BY <2>1, <2>2
<1>8. \A cell \in Cells :
        /\ [cell EXCEPT !.type = "master"] \in Cells /\ [cell EXCEPT !.type = "master"].text = cell.text
        /\ [cell EXCEPT !.type = "slave"] \in Cells /\ [cell EXCEPT !.type = "slave"].text = cell.text
  BY DEF Cells
<1>9. \A i \in 1 .. Len(padded) : spanned(i) \in Cells /\ spanned(i).text = padded[i].text
  BY <1>6, <1>8
<1> HIDE DEF spanned
<1>10. new \in Seq(Cells) /\ Len(new) = Len(padded) /\ \A i \in 1 .. Len(padded) : new[i] = spanned(i)
  BY <1>6, <1>9
<1> HIDE DEF new
<1>11. \A i \in 1 .. Len(padded) : TextOf(new[i]) = TextOf(padded[i])
  <2>1. \A cell \in Cells : TextOf(cell) = cell.text
    BY CellFacts DEF TextOf
  <2> QED
    BY <1>6, <1>9, <1>10, <2>1
<1>12. new \in Seq(Elements) /\ padded \in Seq(Elements)
  BY <1>4, <1>10, SeqMonotonic DEF Elements
<1>13. RowReading(new) = RowReading(row)
  <2>1. RowReading(new) = RowReading(padded)
    BY <1>10, <1>11, <1>12, RowReadingSame
  <2>2. RowReading(padded) = RowReading(row)
    BY <1>1, <1>2, <1>5, PushedReading
  <2> QED
    BY <2>1, <2>2
<1>14. ASSUME NEW i \in Nat PROVE RowText(new, i) = RowText(row, i)
  <2>1. CASE i < Len(padded)
    <3>1. i + 1 \in 1 .. Len(padded) /\ i < Len(new) /\ (i + 1 <= Len(row) <=> i < Len(row))
      BY <1>1, <1>6, <1>10, <2>1
    <3>2. padded[i + 1] = IF i + 1 <= Len(row) THEN row[i + 1] ELSE create_cell
      BY <1>4, <3>1 DEF Prolongs
    <3>3. TextOf(new[i + 1]) = TextOf(padded[i + 1])
      BY <1>11, <3>1
    <3> QED
      BY <1>2, <3>1, <3>2, <3>3 DEF RowText
  <2>2. CASE ~(i < Len(padded))
    <3>1. ~(i < Len(row)) /\ ~(i < Len(new))
      BY <1>1, <1>6, <1>7, <1>10, <2>2
    <3> QED
      BY <3>1 DEF RowText
  <2> QED
    BY <2>1, <2>2
<1> QED
  BY <1>3, <1>12, <1>13, <1>14

\* Same texts in the same places, and in the same order.
SameTexts(t, u) ==
  /\ \A r, c \in Nat : TextAt(u, r, c) = TextAt(t, r, c)
  /\ Reading(u) = Reading(t)

LEMMA SpanSameTexts ==
  ASSUME NEW t, Clean(t), NEW r \in Nat, NEW c \in Nat, NEW span \in Nat
  PROVE  SameTexts(t, ft_set_cell_span(t, r, c, span))
<1> DEFINE u == ft_set_cell_span(t, r, c, span)
           row == RowOrEmpty(t, r)
           new == row_set_cell_span(row, c, span)
           k == r + 1
           old == t.rows
           none == << >>
<1>1. CASE span < 2
  <2>1. u = t
    BY <1>1 DEF ft_set_cell_span
  <2> QED
    BY <2>1 DEF SameTexts
<1>2. CASE ~(span < 2)
  <2>1. u = WithRow(t, r, new)
    BY <1>2 DEF ft_set_cell_span
  <2>2. row \in Seq(Cells)
    BY RowType DEF Clean
  <2>3. Typed(t)
    BY CleanIsTyped
  <2>4. /\ new \in Seq(Elements) /\ RowReading(new) = RowReading(row)
        /\ \A i \in Nat : RowText(new, i) = RowText(row, i)
    <3> HIDE DEF row
    <3> QED
      BY <2>2, SpanTexts
  <2>5. old \in Seq(ElementRows) /\ k \in Nat /\ k = r + 1 /\ none = << >> /\ new \in ElementRows
    BY <2>3, <2>4, TypedFacts DEF ElementRows
  <2>6. row = RowAt(old, r)
    BY DEF RowOrEmpty, RowAt, vector_at
  <2>7. u.rows = Replaced(old, k, none, new)
    BY <2>1 DEF WithRow, Clean, HasRows, TableFields, Replaced
  <2> HIDE DEF u, new
  <2>8. /\ RowOrEmpty(u, r) = new
        /\ \A q \in Nat : q # r => RowOrEmpty(u, q) = RowOrEmpty(t, q)
    <3>1. u.rows = WithRow(t, r, new).rows
      BY <2>1
    <3> QED
      BY <2>3, <2>4, <3>1, WithRowOther
  <2>9. ASSUME NEW q \in Nat, NEW i \in Nat PROVE TextAt(u, q, i) = TextAt(t, q, i)
    <3>1. TextAt(u, q, i) = RowText(RowOrEmpty(u, q), i) /\ TextAt(t, q, i) = RowText(RowOrEmpty(t, q), i)
      BY TextAtRow
    <3> QED
      BY <2>4, <2>8, <3>1
  <2>10. Reading(u) = Reading(t)
    <3>1. Reading(u) = RowsReading(u.rows) /\ Reading(t) = RowsReading(old)
      BY DEF Reading, RowsReading, RowsParts
    <3>2. RowReading(new) = RowReading(RowAt(old, r))
      BY <2>4, <2>6
    <3> HIDE DEF old, k, none, row
    <3>3. RowsReading(Replaced(old, k, none, new)) = RowsReading(old)
      BY <2>5, <3>2, ReplacedReading
    <3> QED
      BY <2>7, <3>1, <3>3
  <2> QED
    BY <2>9, <2>10 DEF SameTexts, u
<1> QED
  BY <1>1, <1>2

-----------------------------------------------------------------------------
(* No call but an erasure takes a text away *)

LEMMA SameStays ==
  ASSUME NEW t, Typed(t), NEW u, SameTexts(t, u)
  PROVE  StaysIn(t, u)
<1>1. \A r \in 0..t.curRow, c \in 0..2 * MaxCols : r \in Nat /\ c \in Nat
  BY TypedFacts, FortAssumption
<1> QED
  BY <1>1 DEF SameTexts, StaysIn

LEMMA TextsStep ==
  ASSUME TablesTyped, [Next]_fortVars
  PROVE  table'.rows = table.rows \/ EraseRange \/ StaysIn(table, table')
<1>1. CASE UNCHANGED fortVars
  BY <1>1 DEF fortVars
<1>2. CASE Next
  <2>1. Call
    BY <1>2 DEF Next, Write, WriteTable, WriteLn, Printf, Ln, SetCurCell, AddSeparator,
               SetCellSpan, SetCellProp, SetTableProp, EraseRange
  <2>2. Clean(table) /\ Typed(table) /\ Fit(table)
    BY <2>1, CallsOnClean DEF TablesTyped, Fit
  <2>3. CASE Write
    <3>1. PICK text \in Texts : table' = ft_write(table, text)
      BY <2>3 DEF Write
    <3>2. text \in Seq(Nat)
      BY FortAssumption
    <3>3. Moves(table, table') /\ Typed(table')
      BY <2>2, <3>1, <3>2, WriteMoves, WriteFit DEF Fit
    <3> QED
      BY <2>2, <3>3, MovesStay
  <2>4. CASE WriteTable
    <3>1. PICK a, b \in Texts : table' = ft_table_write(table, <<<<a>>, <<b>>>>)
      BY <2>4 DEF WriteTable
    <3>2. a \in Seq(Nat) /\ b \in Seq(Nat)
      BY FortAssumption
    <3>3. Moves(table, table') /\ Typed(table')
      BY <2>2, <3>1, <3>2, TableWriteMoves DEF Fit
    <3> QED
      BY <2>2, <3>3, MovesStay
  <2>5. CASE WriteLn
    <3>1. PICK a, b \in Texts : table' = ft_nwrite_ln(table, <<a, b>>)
      BY <2>5 DEF WriteLn
    <3>2. a \in Seq(Nat) /\ b \in Seq(Nat)
      BY FortAssumption
    <3> DEFINE u == ft_nwrite(table, <<a, b>>)
    <3>3. Moves(table, u) /\ Typed(u)
      BY <2>2, <3>2, TwoTextsMove DEF Fit
    <3>4. table' = ft_ln(u)
      BY <3>1 DEF ft_nwrite_ln
    <3> HIDE DEF u
    <3>5. Moves(u, table') /\ Typed(table')
      BY <3>3, <3>4, LnMoves
    <3>6. Moves(table, table')
      BY <2>2, <3>3, <3>5, MovesTrans
    <3> QED
      BY <2>2, <3>5, <3>6, MovesStay
  <2>6. CASE Printf
    <3>1. PICK columns \in 1 .. 2, f, g \in Fields, n \in 1 .. 2 :
            LET fields == SubSeq(<<f, g>>, 1, n)
            IN  table' \in {ft_printf(table, columns, fields), ft_printf_ln(table, columns, fields)}
      BY <2>6 DEF Printf
    <3> DEFINE fields == SubSeq(<<f, g>>, 1, n)
               cells == create_row_from_fmt_string(columns, fields)
               u == ft_row_printf(table, cells)
    <3>2. table' = u \/ table' = IF cells = NoRow THEN table ELSE ft_ln(u)
      BY <3>1 DEF ft_printf, ft_printf_ln
    <3>3. /\ DOMAIN fields = {1} \/ DOMAIN fields = {1, 2}
          /\ \A x \in DOMAIN fields : fields[x] \in Fields
          /\ Len(fields) \in 1 .. 2
      BY SomeFields
    <3> HIDE DEF fields
    <3>4. cells \in Seq(Cells)
      BY <3>3, FormattedCells
    <3> HIDE DEF cells
    <3>5. Moves(table, u) /\ Typed(u)
      BY <2>2, <3>4, RowPrintfMoves
    <3> HIDE DEF u
    <3>6. Moves(u, ft_ln(u)) /\ Typed(ft_ln(u))
      BY <3>5, LnMoves
    <3>7. Moves(table, ft_ln(u))
      BY <2>2, <3>5, <3>6, MovesTrans
    <3>8. table'.rows = table.rows \/ (Moves(table, table') /\ Typed(table'))
      BY <3>2, <3>5, <3>6, <3>7
    <3> QED
      BY <2>2, <3>8, MovesStay
  <2>7. CASE Ln
    <3>1. Moves(table, table') /\ Typed(table')
      BY <2>2, <2>7, LnMoves DEF Ln
    <3> QED
      BY <2>2, <3>1, MovesStay
  <2>8. CASE SetCellSpan
    <3>1. PICK r \in 0 .. MaxRows - 1, c \in 0 .. MaxCols - 1, span \in 1 .. MaxCols :
            table' = ft_set_cell_span(table, r, c, span)
      BY <2>8 DEF SetCellSpan
    <3>2. r \in Nat /\ c \in Nat /\ span \in Nat
      BY FortAssumption
    <3>3. SameTexts(table, table')
      BY <2>2, <3>1, <3>2, SpanSameTexts
    <3> QED
      BY <2>2, <3>3, SameStays
  <2>9. CASE SetCurCell \/ AddSeparator \/ SetCellProp \/ SetTableProp
    BY <2>2, <2>9 DEF SetCurCell, AddSeparator, ft_add_separator, SetCellProp, SetTableProp,
                      Clean, HasRows, TableFields
  <2> QED
    BY <1>2, <2>3, <2>4, <2>5, <2>6, <2>7, <2>8, <2>9 DEF Next
<1> QED
  BY <1>1, <1>2

\* In a table that inserts cells no call but an erasure takes away a text, and
\* the texts are read in the order they were in; and whatever the strategy, a
\* text before the cursor stays where it is (ft_write, ft_row_printf, ft_ln,
\* ft_set_cell_span), for any number of calls and any texts.
THEOREM TextsStay == Spec => TextStays
<1>1. ASSUME TablesTyped, [Next]_fortVars
      PROVE  [\/ table'.rows = table.rows
              \/ EraseRange
              \/ /\ \A r \in 0..table.curRow, c \in 0..2 * MaxCols :
                      (r < table.curRow \/ c < table.curCol) =>
                         TextAt(table', r, c) = TextAt(table, r, c)
                 /\ table.tableProps.strategy = "insert" =>
                      LET old == Reading(table)
                          new == Reading(table')
                      IN  \/ new = old
                          \/ \E more \in SUBSET DOMAIN new : old = Erased(new, {k - 1 : k \in more})
             ]_fortVars
  BY <1>1, TextsStep DEF StaysIn
<1> QED
  BY <1>1, NoSkipNoHoles, PTL DEF Spec, TextStays

-----------------------------------------------------------------------------
(* Properties that were set *)

\* The table has these properties.
HasSettings(t, cellProps, tableProps) ==
  DOMAIN t = TableFields /\ t.cellProps = cellProps /\ t.tableProps = tableProps

\* The calls that fill a table leave them alone.
LEMMA WithRowSettings ==
  ASSUME NEW cp, NEW tp, NEW t, HasSettings(t, cp, tp), NEW r, NEW row
  PROVE  HasSettings(WithRow(t, r, row), cp, tp)
BY DEF WithRow, HasSettings, TableFields

\* A move of the cursor keeps the settings,
LEMMA MovedSettings ==
  ASSUME NEW cp, NEW tp, NEW t, HasSettings(t, cp, tp), NEW c
  PROVE  HasSettings([t EXCEPT !.curCol = c], cp, tp)
BY DEF HasSettings, TableFields

\* a text that is written keeps them,
LEMMA WriteSettings ==
  ASSUME NEW cp, NEW tp, NEW t, HasSettings(t, cp, tp), NEW text
  PROVE  HasSettings(ft_write(t, text), cp, tp)
<1> DEFINE row == [Placed(t) EXCEPT ![t.curCol + 1].text = text]
           u == WithRow(t, t.curRow, row)
<1>1. ft_write(t, text) = [u EXCEPT !.curCol = u.curCol + 1]
  BY DEF ft_write, Placed, CurrentRow
<1>2. HasSettings(u, cp, tp)
  BY WithRowSettings
<1> HIDE DEF u
<1> QED
  BY <1>1, <1>2, MovedSettings

\* and so does the end of a line,
LEMMA LnSettings ==
  ASSUME NEW cp, NEW tp, NEW t, HasSettings(t, cp, tp)
  PROVE  HasSettings(ft_ln(t), cp, tp)
<1>1. \E rows : ft_ln(t) = [t EXCEPT !.rows = rows, !.curCol = 0, !.curRow = @ + 1]
  BY DEF ft_ln
<1> QED
  BY <1>1 DEF HasSettings, TableFields

\* one text of a line,
LEMMA OneTextSettings ==
  ASSUME NEW cp, NEW tp, NEW t, HasSettings(t, cp, tp), NEW a
  PROVE  HasSettings(ft_nwrite(t, <<a>>), cp, tp)
<1> DEFINE texts == <<a>>
<1>1. DOMAIN texts = {1} /\ texts[1] = a
  OBVIOUS
<1> HIDE DEF texts
<1>2. ft_nwrite(t, texts) = ft_write(t, a)
  BY <1>1, Texting
<1> QED
  BY <1>2, WriteSettings DEF texts

\* two texts of it,
LEMMA TwoTextsSettings ==
  ASSUME NEW cp, NEW tp, NEW t, HasSettings(t, cp, tp), NEW a, NEW b
  PROVE  HasSettings(ft_nwrite(t, <<a, b>>), cp, tp)
<1> DEFINE texts == <<a, b>>
           u == ft_write(t, a)
<1>1. DOMAIN texts = {1, 2} /\ texts[1] = a /\ texts[2] = b /\ {1, 2} # {1}
  OBVIOUS
<1> HIDE DEF texts
<1>2. ft_nwrite(t, texts) = ft_write(u, b)
  BY <1>1, Texting
<1>3. HasSettings(u, cp, tp)
  BY WriteSettings
<1> HIDE DEF u
<1>4. HasSettings(ft_write(u, b), cp, tp)
  BY <1>3, WriteSettings
<1> QED
  BY <1>2, <1>4 DEF texts

\* two lines
LEMMA TableWriteSettings ==
  ASSUME NEW cp, NEW tp, NEW t, HasSettings(t, cp, tp), NEW a, NEW b
  PROVE  HasSettings(ft_table_write(t, <<<<a>>, <<b>>>>), cp, tp)
<1> DEFINE grid == <<<<a>>, <<b>>>>
           lines == <<<<b>>>>
           u == ft_nwrite(t, <<a>>)
           v == ft_ln(u)
<1>1. grid[1] = <<a>> /\ Tail(grid) = lines /\ DOMAIN lines = {1} /\ lines[1] = <<b>>
  OBVIOUS
<1>2. ft_table_write(t, grid) = FoldLeft(WriteOnNextLine, u, lines)
  BY <1>1 DEF ft_table_write
<1> HIDE DEF grid, lines
<1>3. FoldLeft(WriteOnNextLine, u, lines) = WriteOnNextLine(u, <<b>>)
  BY <1>1, Lining
<1>4. HasSettings(u, cp, tp)
  BY OneTextSettings
<1>5. HasSettings(v, cp, tp)
  BY <1>4, LnSettings
<1>6. WriteOnNextLine(u, <<b>>) = ft_nwrite(v, <<b>>)
  BY DEF WriteOnNextLine
<1> HIDE DEF u, v
<1>7. HasSettings(ft_nwrite(v, <<b>>), cp, tp)
  BY <1>5, OneTextSettings
<1> QED
  BY <1>2, <1>3, <1>6, <1>7 DEF grid

\* and a formatted line.
LEMMA RowPrintfSettings ==
  ASSUME NEW cp, NEW tp, NEW t, HasSettings(t, cp, tp), NEW cells
  PROVE  HasSettings(ft_row_printf(t, cells), cp, tp)
<1> DEFINE new == IF t.tableProps.strategy = "insert"
                    THEN InsertedCells(CurrentRow(t), cells, t.curCol)
                    ELSE vector_swap(CurrentRow(t), cells, t.curCol)
           u == WithRow(t, t.curRow, new)
<1>1. ft_row_printf(t, cells) = IF cells = NoRow THEN t
                                ELSE [u EXCEPT !.curCol = u.curCol + Len(cells)]
  BY DEF ft_row_printf, CurrentRow
<1>2. HasSettings(u, cp, tp)
  BY WithRowSettings
<1> HIDE DEF u
<1>3. \A c : HasSettings([u EXCEPT !.curCol = c], cp, tp)
  BY <1>2, MovedSettings
<1>4. CASE cells = NoRow
  BY <1>1, <1>4
<1>5. CASE cells # NoRow
  <2> DEFINE v == [u EXCEPT !.curCol = u.curCol + Len(cells)]
  <2>1. HasSettings(v, cp, tp)
    BY <1>3
  <2>2. ft_row_printf(t, cells) = v
    BY <1>1, <1>5
  <2> HIDE DEF v
  <2> QED
    BY <2>1, <2>2
<1> QED
  BY <1>4, <1>5

\* All calls but the two that set a property.
LEMMA FillingSettings ==
  ASSUME NEW cp, NEW tp, HasSettings(table, cp, tp), Next, ~SetCellProp, ~SetTableProp
  PROVE  HasSettings(table', cp, tp)
<1>1. CASE Write
  BY <1>1, WriteSettings DEF Write
<1>2. CASE WriteTable
  BY <1>2, TableWriteSettings DEF WriteTable
<1>3. CASE WriteLn
  <2>1. PICK a, b \in Texts : table' = ft_ln(ft_nwrite(table, <<a, b>>))
    BY <1>3 DEF WriteLn, ft_nwrite_ln
  <2> DEFINE u == ft_nwrite(table, <<a, b>>)
  <2>2. HasSettings(u, cp, tp)
    BY TwoTextsSettings
  <2> HIDE DEF u
  <2>3. HasSettings(ft_ln(u), cp, tp)
    BY <2>2, LnSettings
  <2> QED
    BY <2>1, <2>3 DEF u
<1>4. CASE Printf
  <2>1. \E cells : \/ table' = ft_row_printf(table, cells)
                   \/ table' = IF cells = NoRow THEN table ELSE ft_ln(ft_row_printf(table, cells))
    BY <1>4 DEF Printf, ft_printf, ft_printf_ln
  <2>2. PICK cells : \/ table' = ft_row_printf(table, cells)
                     \/ table' = IF cells = NoRow THEN table ELSE ft_ln(ft_row_printf(table, cells))
    BY <2>1
  <2> DEFINE u == ft_row_printf(table, cells)
  <2>3. HasSettings(u, cp, tp)
    BY RowPrintfSettings
  <2>4. table' \in {u, table, ft_ln(u)}
    BY <2>2
  <2> HIDE DEF u
  <2>5. HasSettings(ft_ln(u), cp, tp)
    BY <2>3, LnSettings
  <2> QED
    BY <2>3, <2>4, <2>5
<1>5. CASE Ln
  BY <1>5, LnSettings DEF Ln
<1>6. CASE SetCurCell
  BY <1>6 DEF SetCurCell, HasSettings, TableFields
<1>7. CASE AddSeparator
  BY <1>7 DEF AddSeparator, ft_add_separator, HasSettings, TableFields
<1>8. CASE SetCellSpan
  <2>1. PICK r, c, span : table' = ft_set_cell_span(table, r, c, span)
    BY <1>8 DEF SetCellSpan
  <2> QED
    BY <2>1, WithRowSettings DEF ft_set_cell_span
<1>9. CASE EraseRange
  <2>1. \/ table' = table
        \/ \E rows, separators : table' = [table EXCEPT !.rows = rows, !.separators = separators]
    BY <1>9 DEF EraseRange, ft_erase_range
  <2> QED
    BY <2>1 DEF HasSettings, TableFields
<1> QED
  BY <1>1, <1>2, <1>3, <1>4, <1>5, <1>6, <1>7, <1>8, <1>9 DEF Next

\* The measures that were set, and the margins, are not negative.
MeasuresKept(props) ==
  \A place \in DOMAIN props :
    \A p \in Measures \cap DOMAIN props[place] : props[place][p] \in Nat
MarginNames == DOMAIN DefaultTableProps \ {"strategy"}
MarginsKept(tprops) ==
  DOMAIN tprops = DOMAIN DefaultTableProps /\ \A p \in MarginNames : tprops[p] \in Nat
Settled(t) ==
  DOMAIN t = TableFields /\ MeasuresKept(t.cellProps) /\ MarginsKept(t.tableProps)
SettingsInv == Settled(table)

\* The default measures are not negative.
LEMMA DefaultsKept == \A p \in Measures : DefaultCellProps[p] \in Nat
<1>1. \A p \in Measures : DefaultCellProps[p] \in {0, 1}
  BY DEF Measures, DefaultCellProps
<1> QED
  BY <1>1

\* A measure that is set is not negative, whatever value is given: a negative
\* one is refused.
LEMMA CellPropertyKept ==
  ASSUME NEW props, MeasuresKept(props), NEW place, NEW p, NEW value,
         p \in Measures => value \in Int
  PROVE  MeasuresKept(set_cell_property(props, place, p, value))
<1> DEFINE opt == IF place \in DOMAIN props THEN props[place]
                  ELSE IF place = <<AnyOne, AnyOne>> THEN DefaultCellProps ELSE NoProps
           old == IF p \in DOMAIN opt THEN opt[p] ELSE 0
           new == IF p \in Measures /\ value < 0 THEN old ELSE value
           set == With(opt, p, new)
           all == With(props, place, set)
<1>1. set_cell_property(props, place, p, value) = all
  BY DEF set_cell_property
<1>2. \A q \in Measures \cap DOMAIN opt : opt[q] \in Nat
  <2>1. DOMAIN NoProps = {}
    BY DEF NoProps
  <2>2. CASE place \in DOMAIN props
    <3>1. opt = props[place]
      BY <2>2
    <3> QED
      BY <2>2, <3>1 DEF MeasuresKept
  <2>3. CASE place \notin DOMAIN props /\ place = <<AnyOne, AnyOne>>
    <3>1. opt = DefaultCellProps
      BY <2>3
    <3> QED
      BY <3>1, DefaultsKept
  <2>4. CASE place \notin DOMAIN props /\ place # <<AnyOne, AnyOne>>
    <3>1. opt = NoProps
      BY <2>4
    <3> QED
      BY <2>1, <3>1
  <2> QED
    BY <2>2, <2>3, <2>4
<1> HIDE DEF opt
<1>3. p \in Measures => new \in Nat
  <2>1. p \in Measures => old \in Nat
    BY <1>2
  <2> QED
    BY <2>1
<1> HIDE DEF new
<1>4. \A q \in Measures \cap DOMAIN set : set[q] \in Nat
  BY <1>2, <1>3 DEF With
<1> HIDE DEF set
<1>5. ASSUME NEW o \in DOMAIN all, NEW q \in Measures \cap DOMAIN all[o] PROVE all[o][q] \in Nat
  <2>1. all[o] = IF o = place THEN set ELSE props[o]
    BY DEF With
  <2>2. o = place \/ o \in DOMAIN props
    BY DEF With
  <2> HIDE DEF all
  <2>3. CASE o = place
    BY <1>4, <2>1, <2>3
  <2>4. CASE o # place
    BY <2>1, <2>2, <2>4 DEF MeasuresKept
  <2> QED
    BY <2>3, <2>4
<1> HIDE DEF all
<1> QED
  BY <1>1, <1>5 DEF MeasuresKept

\* A property of the table that is set leaves no margin negative: a negative
\* one is refused.
LEMMA TablePropertyKept ==
  ASSUME NEW tprops, MarginsKept(tprops), NEW p, NEW value,
         p = "strategy" \/ (p \in MarginNames /\ value \in Int)
  PROVE  MarginsKept(set_entire_table_property(tprops, p, value))
BY DEF MarginsKept, MarginNames, set_entire_table_property

\* Every call keeps the measures and margins.
LEMMA SettingsStep ==
  ASSUME SettingsInv, [Next]_fortVars
  PROVE  SettingsInv'
<1> DEFINE cp == table.cellProps
           tp == table.tableProps
<1>1. HasSettings(table, cp, tp) /\ MeasuresKept(cp) /\ MarginsKept(tp)
  BY DEF SettingsInv, Settled, HasSettings
<1>2. CASE UNCHANGED fortVars
  BY <1>2 DEF fortVars, SettingsInv, Settled
<1>3. CASE SetCellProp
  <2>1. PICK s \in SetProps :
          table' = [table EXCEPT !.cellProps = set_cell_property(cp, s[1], s[2], s[3])]
    BY <1>3 DEF SetCellProp
  <2> DEFINE new == set_cell_property(cp, s[1], s[2], s[3])
  <2>2. MeasuresKept(new)
    BY <1>1, SettingsAssumption, CellPropertyKept
  <2> HIDE DEF new
  <2>3. DOMAIN table' = TableFields /\ table'.cellProps = new /\ table'.tableProps = tp
    BY <1>1, <2>1 DEF HasSettings, TableFields, new
  <2> QED
    BY <1>1, <2>2, <2>3 DEF SettingsInv, Settled
<1>4. CASE SetTableProp
  <2>1. PICK s \in SetTableProps :
          table' = [table EXCEPT !.tableProps = set_entire_table_property(tp, s[1], s[2])]
    BY <1>4 DEF SetTableProp
  <2> DEFINE new == set_entire_table_property(tp, s[1], s[2])
  <2>0. s[1] = "strategy" \/ (s[1] \in MarginNames /\ s[2] \in Int)
    BY SettingsAssumption DEF MarginNames
  <2>2. MarginsKept(new)
    BY <1>1, <2>0, TablePropertyKept
  <2> HIDE DEF new
  <2>3. DOMAIN table' = TableFields /\ table'.cellProps = cp /\ table'.tableProps = new
    BY <1>1, <2>1 DEF HasSettings, TableFields, new
  <2> QED
    BY <1>1, <2>2, <2>3 DEF SettingsInv, Settled
<1>5. CASE Next /\ ~SetCellProp /\ ~SetTableProp
  <2> HIDE DEF cp, tp
  <2>1. HasSettings(table', cp, tp)
    BY <1>1, <1>5, FillingSettings
  <2> QED
    BY <1>1, <2>1 DEF SettingsInv, Settled, HasSettings
<1> QED
  BY <1>2, <1>3, <1>4, <1>5

\* No measure and no margin of a new table is negative.
LEMMA SettingsInitially == Init => SettingsInv
<1>1. DOMAIN NoProps = {}
  BY DEF NoProps
<1>2. MeasuresKept(NoProps)
  BY <1>1 DEF MeasuresKept
<1>3. MarginsKept(DefaultTableProps)
  BY DEF MarginsKept, MarginNames, DefaultTableProps
<1> QED
  BY <1>2, <1>3 DEF Init, ft_create_table, SettingsInv, Settled, TableFields

\* The paddings, widths, heights and margins of a table are never negative,
\* whatever they are set to: set_cell_property and set_entire_table_property
\* refuse a negative value, and keep the one that was there.
THEOREM MeasuresNeverNegative == Spec => []SettingsInv
<1>1. SettingsInv /\ [Next]_fortVars => SettingsInv'
  BY SettingsStep
<1> QED
  BY <1>1, SettingsInitially, PTL DEF Spec

-----------------------------------------------------------------------------
(* The measures of cells *)

\* The value a cell takes of a measure, from wherever it was set.
LEMMA MeasureType ==
  ASSUME NEW props, MeasuresKept(props), NEW row, NEW col, NEW p \in Measures
  PROVE  get_cell_property_hierarchically(props, row, col, p) \in Nat
<1> DEFINE places == Hierarchy(row, col)
           set == {i \in DOMAIN places :
                     places[i] \in DOMAIN props /\ p \in DOMAIN props[places[i]]}
<1>1. DOMAIN places = 1 .. 4
  BY DEF Hierarchy
<1> HIDE DEF places
<1>2. set \in SUBSET Nat
  BY <1>1
<1>3. ASSUME set # {} PROVE Min(set) \in set
  <2>1. \E m \in set : m \in Nat /\ \A n \in Nat : n < m => n \notin set
    BY <1>2, <1>3, LeastPosition
  <2> HIDE DEF set
  <2>2. \E m \in set : \A n \in set : m <= n
    BY <1>2, <2>1
  <2> QED
    BY <2>2 DEF Min
<1>4. get_cell_property_hierarchically(props, row, col, p) =
        IF set = {} THEN DefaultCellProps[p] ELSE props[places[Min(set)]][p]
  BY DEF get_cell_property_hierarchically, places
<1>5. CASE set = {}
  BY <1>4, <1>5, DefaultsKept
<1>6. CASE set # {}
  <2> DEFINE i == Min(set)
  <2>1. i \in set
    BY <1>3, <1>6
  <2>2. places[i] \in DOMAIN props /\ p \in DOMAIN props[places[i]]
    BY <2>1
  <2> HIDE DEF i
  <2>3. props[places[i]][p] \in Nat
    BY <2>2 DEF MeasuresKept
  <2> HIDE DEF set
  <2> QED
    BY <1>4, <1>6, <2>3 DEF i
<1> QED
  BY <1>5, <1>6

\* The escape sequences of a cell.
LEMMA InvisibleType ==
  ASSUME NEW t, NEW r, NEW c
  PROVE  Invisible(t, r, c) \in Nat
<1>1. ColorLen \in Nat /\ ResetLen \in Nat
  BY LengthsAssumption
<1> DEFINE p == t.cellProps
<1>2. style_tag_for_cell(p, r, c) \in Nat
  BY <1>1 DEF style_tag_for_cell
<1>3. reset_style_tag_for_cell(p, r, c) \in Nat
  BY <1>1 DEF reset_style_tag_for_cell
<1>4. style_tag_for_content(p, r, c) \in Nat
  BY <1>1 DEF style_tag_for_content
<1>5. reset_style_tag_for_content(p, r, c) \in Nat
  BY <1>1, <1>2 DEF reset_style_tag_for_content
<1> QED
  BY <1>2, <1>3, <1>4, <1>5 DEF Invisible, cell_invis_codes_width

-----------------------------------------------------------------------------
(* The measures of the columns and rows *)

\* The values of a function on a finite set.
LEMMA FiniteValues ==
  ASSUME NEW S, IsFiniteSet(S), NEW f
  PROVE  IsFiniteSet({f[x] : x \in S})
<1> DEFINE g == [x \in S |-> f[x]]
           T == {f[x] : x \in S}
<1>1. g \in Surjection(S, T)
  BY DEF Surjection
<1> HIDE DEF g, T
<1>2. IsFiniteSet(T)
  BY <1>1, FS_Surjection
<1> QED
  BY <1>2 DEF T

\* The largest value of a function on a finite set, or 0.
LEMMA LargestValue ==
  ASSUME NEW S, IsFiniteSet(S), NEW f, \A x \in S : f[x] \in Nat
  PROVE  MaxOf({f[x] : x \in S}) \in Nat /\ \A x \in S : f[x] <= MaxOf({f[y] : y \in S})
<1> DEFINE T == {f[x] : x \in S}
<1>1. IsFiniteSet(T)
  BY FiniteValues
<1>2. T \in SUBSET Nat
  OBVIOUS
<1>3. \A x \in S : f[x] \in T
  OBVIOUS
<1> HIDE DEF T
<1>4. MaxOf(T) \in Nat /\ \A y \in T : MaxOf(T) >= y
  BY <1>1, <1>2, MaxOfType
<1>5. \A x \in S : f[x] <= MaxOf(T)
  <2>1. \A y \in T : y \in Nat
    BY <1>2
  <2> QED
    BY <1>3, <1>4, <2>1
<1> QED
  BY <1>4, <1>5 DEF T

\* Of two numbers.
LEMMA LargerOfTwo ==
  ASSUME NEW a \in Nat, NEW b \in Nat
  PROVE  Max({a, b}) \in Nat /\ a <= Max({a, b}) /\ b <= Max({a, b})
<1> DEFINE S == {a, b}
<1>1. \E x \in S : \A y \in S : x >= y
  BY DEF S
<1>2. Max(S) \in S /\ \A y \in S : Max(S) >= y
  BY <1>1 DEF Max
<1> QED
  BY <1>2

\* The rows are as many as there are row numbers.
LEMMA RowsFinite ==
  ASSUME NEW X, NEW t, HasRows(t, X)
  PROVE  IsFiniteSet(RowNumbers(t)) /\ Len(t.rows) \in Nat /\ Cardinality(RowNumbers(t)) = Len(t.rows)
<1>1. Len(t.rows) \in Nat
  BY ColumnsType
<1> DEFINE k == Len(t.rows) - 1
<1>2. k \in Int /\ 0 \in Int /\ k - 0 + 1 = Len(t.rows) /\ (0 > k <=> Len(t.rows) = 0)
  BY <1>1
<1> HIDE DEF k
<1>3. IsFiniteSet(0 .. k) /\ Cardinality(0 .. k) = IF 0 > k THEN 0 ELSE k - 0 + 1
  BY <1>2, FS_Interval
<1>4. Cardinality(0 .. k) = Len(t.rows)
  BY <1>2, <1>3
<1> QED
  BY <1>1, <1>3, <1>4 DEF RowNumbers, k

\* The columns are numbered from zero on.
LEMMA ColumnNumbersType ==
  ASSUME NEW X, NEW t, HasRows(t, X)
  PROVE  /\ IsFiniteSet(ColumnNumbers(t)) /\ ColumnNumbers(t) \subseteq Nat
         /\ Columns(t) \in Nat /\ ColumnNumbers(t) = 0 .. Columns(t) - 1
<1>1. Columns(t) \in Nat
  BY ColumnsType
<1>2. IsFiniteSet(ColumnNumbers(t))
  BY ColumnFacts
<1>3. ColumnNumbers(t) = 0 .. Columns(t) - 1
  BY DEF ColumnNumbers
<1> QED
  BY <1>1, <1>2, <1>3

\* A cell that a clean table has.
LEMMA CellFound ==
  ASSUME NEW t, Clean(t), NEW r \in RowNumbers(t), NEW c \in Nat, HasCell(t, r, c)
  PROVE  Cell(t, r, c) \in Cells
<1>1. r \in Nat /\ r < Len(t.rows) /\ Len(t.rows) \in Nat
  BY ColumnsType DEF RowNumbers, Clean
<1>2. RowOrEmpty(t, r) = t.rows[r + 1] /\ vector_at(t.rows, r) = t.rows[r + 1]
  BY <1>1 DEF RowOrEmpty, vector_at
<1> DEFINE row == t.rows[r + 1]
<1>3. row \in Seq(Cells)
  BY <1>1, <1>2, RowType DEF Clean
<1>4. c < Len(row)
  BY <1>2 DEF HasCell, columns_in_row
<1> HIDE DEF row
<1>5. c + 1 \in 1 .. Len(row)
  BY <1>3, <1>4
<1>6. row[c + 1] \in Cells
  BY <1>3, <1>5
<1> QED
  BY <1>2, <1>6 DEF Cell, vector_at, row

\* A text is not narrower or lower than nothing.
LEMMA TextWidth ==
  ASSUME NEW text \in Seq(Nat)
  PROVE  /\ buffer_text_visible_width(text) \in Nat
         /\ buffer_text_visible_height(text) \in Nat
<1>1. Len(text) \in Nat /\ DOMAIN text = 1 .. Len(text)
  OBVIOUS
<1>2. IsFiniteSet(DOMAIN text)
  BY <1>1, FS_Interval
<1>3. MaxOf({text[i] : i \in DOMAIN text}) \in Nat
  BY <1>2, LargestValue
<1> QED
  BY <1>1, <1>3 DEF buffer_text_visible_width, buffer_text_visible_height

\* A measure a cell takes.
LEMMA PropType ==
  ASSUME NEW t, Settled(t), NEW r, NEW c, NEW p \in Measures
  PROVE  Prop(t, r, c, p) \in Nat
BY MeasureType DEF Prop, Settled

\* The width of a cell is a natural number,
LEMMA CellWidthType ==
  ASSUME NEW t, Clean(t), Settled(t), NEW r \in RowNumbers(t), NEW c \in Nat, HasCell(t, r, c)
  PROVE  cell_vis_width(t, r, c) \in Nat
<1> DEFINE left == Prop(t, r, c, "leftPadding")
           right == Prop(t, r, c, "rightPadding")
           wide == buffer_text_visible_width(Cell(t, r, c).text)
           least == Prop(t, r, c, "minWidth")
<1>1. left \in Nat /\ right \in Nat /\ least \in Nat
  <2>1. {"leftPadding", "rightPadding", "minWidth"} \subseteq Measures
    BY DEF Measures
  <2> QED
    BY <2>1, PropType
<1>2. wide \in Nat
  <2>1. Cell(t, r, c).text \in Seq(Nat)
    BY CellFound DEF Cells
  <2> QED
    BY <2>1, TextWidth
<1>3. cell_vis_width(t, r, c) = Max({left + right + wide, least})
  BY DEF cell_vis_width
<1> HIDE DEF left, right, wide, least
<1>4. left + right + wide \in Nat
  BY <1>1, <1>2
<1> QED
  BY <1>1, <1>3, <1>4, LargerOfTwo

\* and so is its height,
LEMMA HeightType ==
  ASSUME NEW t, Clean(t), Settled(t), NEW r \in RowNumbers(t), NEW c \in Nat
  PROVE  Height(t, r, c) \in Nat
<1> DEFINE text == IF HasCell(t, r, c) THEN Cell(t, r, c).text ELSE <<>>
           lines == IF text = <<>> THEN Prop(t, r, c, "emptyStrHeight")
                                   ELSE buffer_text_visible_height(text)
           top == Prop(t, r, c, "topPadding")
           bottom == Prop(t, r, c, "bottomPadding")
<1>1. Prop(t, r, c, "emptyStrHeight") \in Nat /\ top \in Nat /\ bottom \in Nat
  <2>1. {"emptyStrHeight", "topPadding", "bottomPadding"} \subseteq Measures
    BY DEF Measures
  <2> QED
    BY <2>1, PropType
<1>2. text \in Seq(Nat)
  BY CellFound, EmptySeq DEF Cells
<1>3. lines \in Nat
  BY <1>1, <1>2, TextWidth
<1>4. Height(t, r, c) = IF ~HasCell(t, r, c) /\ lines = 0 THEN 0 ELSE lines + top + bottom
  BY DEF Height
<1> HIDE DEF lines, top, bottom
<1> QED
  BY <1>1, <1>3, <1>4

\* and the height of a row.
LEMMA RowHeightType ==
  ASSUME NEW t, Clean(t), Settled(t), NEW r \in RowNumbers(t)
  PROVE  RowHeights(t)[r] \in Nat
<1> DEFINE f == [c \in ColumnNumbers(t) |-> Height(t, r, c)]
<1>1. IsFiniteSet(ColumnNumbers(t)) /\ ColumnNumbers(t) \subseteq Nat
  BY ColumnNumbersType DEF Clean
<1>2. \A c \in ColumnNumbers(t) : f[c] \in Nat
  BY <1>1, HeightType
<1>3. {f[c] : c \in ColumnNumbers(t)} = {Height(t, r, c) : c \in ColumnNumbers(t)}
  OBVIOUS
<1> HIDE DEF f
<1>4. MaxOf({f[c] : c \in ColumnNumbers(t)}) \in Nat
  BY <1>1, <1>2, LargestValue
<1> QED
  BY <1>3, <1>4 DEF RowHeights

\* The cells of a row are in columns of the table.
LEMMA CellInColumn ==
  ASSUME NEW X, NEW t, HasRows(t, X), NEW r \in RowNumbers(t), NEW c \in Nat, HasCell(t, r, c)
  PROVE  c \in ColumnNumbers(t)
<1> DEFINE n == Len(t.rows)
           lengths == [i \in 1 .. n |-> Len(t.rows[i])]
<1>1. n \in Nat /\ DOMAIN t.rows = 1 .. n /\ \A i \in 1 .. n : Len(t.rows[i]) \in Nat
  BY DEF HasRows
<1>2. r + 1 \in 1 .. n
  BY <1>1 DEF RowNumbers
<1>3. c < Len(t.rows[r + 1])
  BY <1>1, <1>2 DEF HasCell, columns_in_row, RowOrEmpty, vector_at
<1>4. Columns(t) = MaxOf({lengths[i] : i \in 1 .. n})
  <2>1. {lengths[i] : i \in 1 .. n} = {Len(t.rows[i]) : i \in DOMAIN t.rows}
    BY <1>1
  <2> QED
    BY <2>1 DEF Columns
<1>5. IsFiniteSet(1 .. n) /\ \A i \in 1 .. n : lengths[i] \in Nat
  BY <1>1, FS_Interval
<1> HIDE DEF lengths
<1>6. Columns(t) \in Nat /\ \A i \in 1 .. n : lengths[i] <= Columns(t)
  BY <1>4, <1>5, LargestValue
<1>7. Len(t.rows[r + 1]) <= Columns(t)
  BY <1>2, <1>6 DEF lengths
<1>8. Len(t.rows[r + 1]) \in Nat
  BY <1>1, <1>2
<1> QED
  BY <1>3, <1>6, <1>7, <1>8 DEF ColumnNumbers

\* The two parts of the width of a column.
RowsWith(t, c) == {r \in RowNumbers(t) : HasCell(t, r, c)}
CommonIn(t, c) == {q \in RowsWith(t, c) : IsType(t, q, c, "common")}
CommonWidth(t, c) == MaxOf({cell_vis_width(t, r, c) : r \in CommonIn(t, c)})
InvisibleWidth(t, c) == MaxOf({Invisible(t, r, c) : r \in RowsWith(t, c)})

\* A column is as wide as its widest common cell, and in the buffer as its
\* longest escape sequences too.
LEMMA ColumnWidthParts ==
  ASSUME NEW t, NEW intern, NEW c \in ColumnNumbers(t)
  PROVE  /\ DOMAIN ColumnWidths(t, intern) = ColumnNumbers(t)
         /\ ColumnWidths(t, intern)[c] =
              CommonWidth(t, c) + IF intern THEN InvisibleWidth(t, c) ELSE 0
BY DEF ColumnWidths, CommonWidth, InvisibleWidth, RowsWith, CommonIn

\* Every common cell fits into its column,
LEMMA CommonWidthFits ==
  ASSUME NEW t, Clean(t), Settled(t), NEW c \in ColumnNumbers(t)
  PROVE  /\ CommonWidth(t, c) \in Nat
         /\ \A r \in RowNumbers(t) :
              IsType(t, r, c, "common") => cell_vis_width(t, r, c) <= CommonWidth(t, c)
<1> DEFINE S == CommonIn(t, c)
           f == [r \in S |-> cell_vis_width(t, r, c)]
<1>1. IsFiniteSet(S)
  <2>1. IsFiniteSet(RowNumbers(t)) /\ S \subseteq RowNumbers(t)
    BY RowsFinite DEF Clean, CommonIn, RowsWith
  <2> QED
    BY <2>1, FS_Subset
<1>2. c \in Nat
  BY ColumnNumbersType DEF Clean
<1>3. \A r \in S : f[r] \in Nat
  BY <1>2, CellWidthType DEF CommonIn, RowsWith
<1>4. {f[r] : r \in S} = {cell_vis_width(t, r, c) : r \in S}
  OBVIOUS
<1> HIDE DEF f
<1>5. MaxOf({f[r] : r \in S}) \in Nat /\ \A r \in S : f[r] <= MaxOf({f[y] : y \in S})
  BY <1>1, <1>3, LargestValue
<1>6. CommonWidth(t, c) \in Nat /\ \A r \in S : f[r] <= CommonWidth(t, c)
  BY <1>4, <1>5 DEF CommonWidth
<1>7. \A r \in RowNumbers(t) : IsType(t, r, c, "common") => r \in S
  BY DEF IsType, CommonIn, RowsWith
<1> QED
  BY <1>6, <1>7 DEF f

\* and the escape sequences of every cell fit into that of the buffer.
LEMMA InvisibleWidthFits ==
  ASSUME NEW t, Clean(t), NEW c \in ColumnNumbers(t)
  PROVE  /\ InvisibleWidth(t, c) \in Nat
         /\ \A r \in RowNumbers(t) : HasCell(t, r, c) => Invisible(t, r, c) <= InvisibleWidth(t, c)
         /\ ~Coloured(t) => InvisibleWidth(t, c) = 0
<1> DEFINE S == RowsWith(t, c)
           f == [r \in S |-> Invisible(t, r, c)]
<1>1. IsFiniteSet(S)
  <2>1. IsFiniteSet(RowNumbers(t)) /\ S \subseteq RowNumbers(t)
    BY RowsFinite DEF Clean, RowsWith
  <2> QED
    BY <2>1, FS_Subset
<1>3. \A r \in S : f[r] \in Nat
  BY InvisibleType
<1>4. {f[r] : r \in S} = {Invisible(t, r, c) : r \in S}
  OBVIOUS
<1>8. ASSUME ~Coloured(t) PROVE InvisibleWidth(t, c) = 0
  <2>1. \A r \in S : Invisible(t, r, c) = 0
    <3>1. \A r \in S : Invisible(t, r, c) \in Nat /\ ~(Invisible(t, r, c) > 0)
      BY <1>8, InvisibleType DEF Coloured, RowsWith
    <3> QED
      BY <3>1
  <2>2. {Invisible(t, r, c) : r \in S} \cup {0} = {0}
    BY <2>1
  <2>3. Max({0}) = 0
    BY DEF Max
  <2> QED
    BY <2>2, <2>3 DEF InvisibleWidth, MaxOf
<1> HIDE DEF f
<1>5. MaxOf({f[r] : r \in S}) \in Nat /\ \A r \in S : f[r] <= MaxOf({f[y] : y \in S})
  BY <1>1, <1>3, LargestValue
<1>6. InvisibleWidth(t, c) \in Nat /\ \A r \in S : f[r] <= InvisibleWidth(t, c)
  BY <1>4, <1>5 DEF InvisibleWidth
<1>7. \A r \in RowNumbers(t) : HasCell(t, r, c) => r \in S
  BY DEF RowsWith
<1> QED
  BY <1>6, <1>7, <1>8 DEF f

\* Widths of all the columns, and others that are nowhere smaller.
AreWidths(t, w) == DOMAIN w = ColumnNumbers(t) /\ \A c \in ColumnNumbers(t) : w[c] \in Nat
NowhereLess(t, v, w) == \A c \in ColumnNumbers(t) : w[c] <= v[c]

\* The widths of the columns before a master widens them.
LEMMA ColumnWidthsType ==
  ASSUME NEW t, Clean(t), Settled(t), NEW intern \in BOOLEAN
  PROVE  AreWidths(t, ColumnWidths(t, intern))
<1>1. ASSUME NEW c \in ColumnNumbers(t)
      PROVE  /\ DOMAIN ColumnWidths(t, intern) = ColumnNumbers(t)
             /\ ColumnWidths(t, intern)[c] \in Nat
  <2>1. CommonWidth(t, c) \in Nat
    BY CommonWidthFits
  <2>2. InvisibleWidth(t, c) \in Nat
    BY InvisibleWidthFits
  <2> QED
    BY <2>1, <2>2, ColumnWidthParts
<1>2. DOMAIN ColumnWidths(t, intern) = ColumnNumbers(t)
  BY DEF ColumnWidths
<1> QED
  BY <1>1, <1>2 DEF AreWidths

\* Without colours both ways to measure the columns agree.
LEMMA NotColoured ==
  ASSUME NEW t, Clean(t), Settled(t), ~Coloured(t), NEW i \in BOOLEAN, NEW j \in BOOLEAN
  PROVE  ColumnWidths(t, i) = ColumnWidths(t, j)
<1>1. DOMAIN ColumnWidths(t, i) = ColumnNumbers(t)
      /\ DOMAIN ColumnWidths(t, j) = ColumnNumbers(t)
  BY DEF ColumnWidths
<1>2. ASSUME NEW c \in ColumnNumbers(t) PROVE ColumnWidths(t, i)[c] = ColumnWidths(t, j)[c]
  <2>1. InvisibleWidth(t, c) = 0
    BY InvisibleWidthFits
  <2>2. ColumnWidths(t, i)[c] = CommonWidth(t, c) + IF i THEN InvisibleWidth(t, c) ELSE 0
    BY ColumnWidthParts
  <2>3. ColumnWidths(t, j)[c] = CommonWidth(t, c) + IF j THEN InvisibleWidth(t, c) ELSE 0
    BY ColumnWidthParts
  <2> QED
    BY <2>1, <2>2, <2>3
<1>3. /\ ColumnWidths(t, i) = [c \in ColumnNumbers(t) |-> ColumnWidths(t, i)[c]]
      /\ ColumnWidths(t, j) = [c \in ColumnNumbers(t) |-> ColumnWidths(t, j)[c]]
  BY <1>1 DEF ColumnWidths
<1> QED
  BY <1>2, <1>3

\* How many cells are printed as one.
LEMMA GroupInTable ==
  ASSUME NEW t, Clean(t), NEW r, NEW c \in ColumnNumbers(t)
  PROVE  LET n == group_cell_number(t, r, c)
         IN  /\ n \in Nat /\ n >= 1
             /\ c .. c + n - 1 \subseteq ColumnNumbers(t)
             /\ ~IsType(t, r, c, "master") => n = 1
<1> DEFINE n == group_cell_number(t, r, c)
           k == Columns(t) - c
           S == {m \in 1 .. k : \A i \in 1 .. m - 1 : IsType(t, r, c + i, "slave")}
<1>1. c \in Nat /\ k \in Nat /\ k >= 1 /\ Columns(t) \in Nat /\ k = Columns(t) - c
      /\ ColumnNumbers(t) = 0 .. Columns(t) - 1
  BY ColumnNumbersType DEF Clean
<1>2. n = IF ~IsType(t, r, c, "master") THEN 1 ELSE Max(S)
  BY DEF group_cell_number
<1>3. IsFiniteSet(1 .. k)
  BY <1>1, FS_Interval
<1> HIDE DEF n, k
<1>4. S \in SUBSET (1 .. k)
  OBVIOUS
<1>5. 1 \in S
  <2>1. 1 .. 1 - 1 = {}
    OBVIOUS
  <2>2. 1 \in 1 .. k
    BY <1>1
  <2> QED
    BY <2>1, <2>2
<1> HIDE DEF S
<1>6. IsFiniteSet(S) /\ S \in SUBSET Nat /\ S # {}
  <2>1. IsFiniteSet(S)
    BY <1>3, <1>4, FS_Subset
  <2>2. S \in SUBSET Nat
    BY <1>4
  <2> QED
    BY <1>5, <2>1, <2>2
<1>7. Max(S) \in S
  <2>1. HasLargest(S)
    BY <1>6, LargestExists
  <2> QED
    BY <2>1 DEF HasLargest, Max
<1>8. n \in 1 .. k
  BY <1>1, <1>2, <1>4, <1>7
<1>9. c .. c + n - 1 \subseteq ColumnNumbers(t)
  BY <1>1, <1>8
<1> QED
  BY <1>1, <1>2, <1>8, <1>9 DEF n

-----------------------------------------------------------------------------
(* Columns that a master widens *)

\* The columns of a group, and the width of it as a sum.
GroupColumns(first, n) == first .. first + n - 1

\* The borders between the columns of a group are part of its width.
LEMMA GroupWidthIsSum ==
  ASSUME NEW widths, NEW first \in Nat, NEW n \in Nat
  PROVE  /\ IsFiniteSet(GroupColumns(first, n))
         /\ GroupWidth(widths, first, n) =
              SumFunctionOnSet(widths, GroupColumns(first, n)) + n - 1
<1> DEFINE S == GroupColumns(first, n)
           f == [c \in S |-> widths[c]]
<1>1. IsFiniteSet(S)
  <2> DEFINE k == first + n - 1
  <2>1. k \in Int
    OBVIOUS
  <2> HIDE DEF k
  <2>2. IsFiniteSet(first .. k)
    BY <2>1, FS_Interval
  <2> QED
    BY <2>2 DEF k, GroupColumns
<1>2. GroupWidth(widths, first, n) = Total(f) + n - 1
  BY DEF GroupWidth, GroupColumns
<1>3. DOMAIN f = S /\ \A c \in S : f[c] = widths[c]
  OBVIOUS
<1> HIDE DEF f, S
<1>4. Total(f) = SumFunctionOnSet(f, S)
  BY <1>3, TotalIsSum
<1>5. SumFunctionOnSet(f, S) = SumFunctionOnSet(widths, S)
  BY <1>1, <1>3, SumCongruent
<1> QED
  BY <1>1, <1>2, <1>4, <1>5 DEF S

\* Wider columns make wider groups.
LEMMA GroupWidthGrows ==
  ASSUME NEW v, NEW w, NEW first \in Nat, NEW n \in Nat,
         \A c \in GroupColumns(first, n) : v[c] \in Nat /\ w[c] \in Nat /\ w[c] <= v[c]
  PROVE  /\ GroupWidth(w, first, n) <= GroupWidth(v, first, n)
         /\ GroupWidth(w, first, n) \in Int /\ GroupWidth(v, first, n) \in Int
<1> DEFINE S == GroupColumns(first, n)
           W == SumFunctionOnSet(w, S)
           V == SumFunctionOnSet(v, S)
<1>1. IsFiniteSet(S)
  BY GroupWidthIsSum
<1>2. GroupWidth(w, first, n) = W + n - 1
  BY GroupWidthIsSum
<1>3. GroupWidth(v, first, n) = V + n - 1
  BY GroupWidthIsSum
<1> HIDE DEF S
<1>4. \A c \in S : w[c] \in Int /\ v[c] \in Int /\ w[c] <= v[c]
  BY DEF S
<1>5. W <= V
  BY <1>1, <1>4, SumMore
<1>6. W \in Int /\ V \in Int
  BY <1>1, <1>4, SumType
<1> HIDE DEF W, V
<1> QED
  BY <1>2, <1>3, <1>5, <1>6

\* What n columns get in turn of m, which is shared out among them: the first
\* ones a column more than the last ones.
Share(m, n, i) == (m + n - 1 - i) \div n

\* The shares differ by one at most: the first m % n columns get one more.
LEMMA ShareOf ==
  ASSUME NEW m \in Nat, NEW n \in Nat, n >= 1, NEW i \in Nat, i < n
  PROVE  /\ Share(m, n, i) \in Nat
         /\ Share(m, n, i) = (m \div n) + IF i < m % n THEN 1 ELSE 0
<1> DEFINE q == m \div n
           s == m % n
<1>1. m = q * n + s /\ q \in Nat /\ s \in Nat /\ s < n
  OBVIOUS
<1> HIDE DEF q, s
<1>2. CASE i < s
  <2> DEFINE d == s - 1 - i
             p == q + 1
  <2>1. d \in Nat /\ d < n /\ p \in Nat
    BY <1>1, <1>2
  <2>2. m + n - 1 - i = p * n + d
    <3>1. p * n = q * n + n
      BY <1>1
    <3>2. q * n \in Nat
      BY <1>1
    <3> QED
      BY <1>1, <3>1, <3>2
  <2> HIDE DEF d, p
  <2>3. (p * n + d) \div n = p
    BY <2>1
  <2>4. Share(m, n, i) = q + 1
    BY <2>2, <2>3 DEF Share, p
  <2> QED
    BY <1>1, <1>2, <2>4 DEF q, s
<1>3. CASE ~(i < s)
  <2> DEFINE d == n + s - 1 - i
  <2>1. d \in Nat /\ d < n
    BY <1>1, <1>3
  <2>2. m + n - 1 - i = q * n + d
    <3>1. q * n \in Nat
      BY <1>1
    <3> QED
      BY <1>1, <3>1
  <2> HIDE DEF d
  <2>3. (q * n + d) \div n = q
    BY <1>1, <2>1
  <2>4. Share(m, n, i) = q
    BY <2>2, <2>3 DEF Share
  <2> QED
    BY <1>1, <1>3, <2>4 DEF q, s
<1> QED
  BY <1>2, <1>3

\* Together they get all of it.
LEMMA SharesAddUp ==
  ASSUME NEW m \in Nat, NEW n \in Nat, n >= 1, NEW first \in Nat, NEW d,
         \A c \in GroupColumns(first, n) : d[c] = Share(m, n, c - first)
  PROVE  SumFunctionOnSet(d, GroupColumns(first, n)) = m
<1> DEFINE q == m \div n
           s == m % n
           S == GroupColumns(first, n)
           A == GroupColumns(first, s)
           B == S \ A
           one == [c \in S |-> 1]
           same == [c \in S |-> q * one[c]]
           more == [c \in S |-> IF c \in A THEN 1 ELSE 0]
<1>1. m = q * n + s /\ q \in Nat /\ s \in Nat /\ s < n
  OBVIOUS
<1> HIDE DEF q, s
<1>2. IsFiniteSet(S) /\ IsFiniteSet(A)
  BY <1>1, GroupWidthIsSum
<1>3. A \subseteq S
  BY <1>1 DEF GroupColumns
<1>4. Cardinality(S) = n /\ Cardinality(A) = s
  <2>1. ASSUME NEW k \in Nat PROVE Cardinality(GroupColumns(first, k)) = k
    <3> DEFINE l == first + k - 1
    <3>1. l \in Int /\ l - first + 1 = k /\ (first > l <=> k = 0)
      OBVIOUS
    <3> HIDE DEF l
    <3>2. Cardinality(first .. l) = IF first > l THEN 0 ELSE l - first + 1
      BY <3>1, FS_Interval
    <3>3. Cardinality(first .. l) = k
      BY <3>1, <3>2
    <3> QED
      BY <3>3 DEF l, GroupColumns
  <2> QED
    BY <1>1, <2>1
<1>5. ASSUME NEW c \in S PROVE d[c] = same[c] + more[c] /\ same[c] \in Int /\ more[c] \in Int
  <2> DEFINE i == c - first
  <2>1. i \in Nat /\ i < n /\ (i < s <=> c \in A)
    BY <1>1 DEF GroupColumns
  <2>2. d[c] = Share(m, n, i)
    OBVIOUS
  <2> HIDE DEF i
  <2>3. Share(m, n, i) = q + IF i < s THEN 1 ELSE 0
    BY <2>1, ShareOf DEF q, s
  <2>4. same[c] = q
    <3>1. same[c] = q * 1
      OBVIOUS
    <3> QED
      BY <1>1, <3>1
  <2>5. more[c] = IF c \in A THEN 1 ELSE 0
    OBVIOUS
  <2> HIDE DEF same, more
  <2> QED
    BY <1>1, <2>1, <2>2, <2>3, <2>4, <2>5
<1>6. \A c \in S : one[c] = 1 /\ one[c] \in Int /\ same[c] = q * one[c]
  OBVIOUS
<1>7. \A c \in A : more[c] = 1
  BY <1>3
<1>8. \A c \in B : more[c] = 0
  OBVIOUS
<1>9. S = A \cup B /\ A \cap B = {} /\ IsFiniteSet(B)
  BY <1>2, <1>3, FS_Subset
<1> HIDE DEF S, A, B, one, same, more
<1>10. SumFunctionOnSet(one, S) = n
  BY <1>2, <1>4, <1>6, SumOfOnes
<1>11. SumFunctionOnSet(same, S) = q * n
  <2>1. q \in Int
    BY <1>1
  <2>2. SumFunctionOnSet(same, S) = q * SumFunctionOnSet(one, S)
    BY <1>2, <1>6, <2>1, SumScale
  <2> QED
    BY <1>10, <2>2
<1>12. SumFunctionOnSet(more, A) = s
  BY <1>2, <1>4, <1>7, SumOfOnes
<1>13. SumFunctionOnSet(more, B) = 0
  <2>1. \A c \in B : more[c] \in {0}
    BY <1>8
  <2>2. SumFunctionOnSet(more, B) \in {0}
    BY <1>9, <2>1, SumType
  <2> QED
    BY <2>2
<1>14. SumFunctionOnSet(more, S) = SumFunctionOnSet(more, A) + SumFunctionOnSet(more, B)
  BY <1>2, <1>5, <1>9, SumParts
<1>15. SumFunctionOnSet(d, S) = SumFunctionOnSet(same, S) + SumFunctionOnSet(more, S)
  BY <1>2, <1>5, SumAdd
<1>16. q * n \in Nat
  BY <1>1
<1>17. SumFunctionOnSet(d, S) = m
  BY <1>1, <1>11, <1>12, <1>13, <1>14, <1>15, <1>16
<1> QED
  BY <1>17 DEF S

\* A group of columns that is widened is as wide as it should be, and no column
\* becomes narrower.
LEMMA WidenedFits ==
  ASSUME NEW t, NEW w, AreWidths(t, w), NEW first \in Nat, NEW n \in Nat, n >= 1,
         GroupColumns(first, n) \subseteq ColumnNumbers(t), NEW hint \in Nat
  PROVE  LET v == Widened(w, first, n, hint)
         IN  AreWidths(t, v) /\ NowhereLess(t, v, w) /\ hint <= GroupWidth(v, first, n)
<1> DEFINE S == GroupColumns(first, n)
           m == hint - GroupWidth(w, first, n)
           d == [c \in S |-> Share(m, n, c - first)]
           v == Widened(w, first, n, hint)
           W == SumFunctionOnSet(w, S)
<1>1. /\ IsFiniteSet(S)
      /\ GroupWidth(w, first, n) = W + n - 1
      /\ GroupWidth(v, first, n) = SumFunctionOnSet(v, S) + n - 1
  BY GroupWidthIsSum
<1>2. DOMAIN w = ColumnNumbers(t) /\ \A c \in ColumnNumbers(t) : w[c] \in Nat
  BY DEF AreWidths
<1>3. \A c \in S : w[c] \in Nat /\ w[c] \in Int
  BY <1>2
<1>4. W \in Int
  BY <1>1, <1>3, SumType
<1>5. m \in Int /\ m = hint - (W + n - 1)
  BY <1>1, <1>4
<1>6. v = IF m <= 0 THEN w
          ELSE [c \in DOMAIN w |-> IF c \in S THEN w[c] + Share(m, n, c - first) ELSE w[c]]
  BY DEF Widened, Share, GroupColumns
<1> HIDE DEF W, v
<1>7. CASE m <= 0
  <2>1. v = w
    BY <1>6, <1>7
  <2>2. hint <= GroupWidth(v, first, n)
    BY <1>1, <1>4, <1>5, <1>7, <2>1
  <2>3. NowhereLess(t, v, w)
    BY <1>2, <2>1 DEF NowhereLess
  <2> QED
    BY <2>1, <2>2, <2>3 DEF v
<1>8. CASE ~(m <= 0)
  <2>1. m \in Nat
    BY <1>5, <1>8
  <2>2. v = [c \in DOMAIN w |-> IF c \in S THEN w[c] + Share(m, n, c - first) ELSE w[c]]
    BY <1>6, <1>8
  <2> HIDE DEF m
  <2>3. \A c \in S : Share(m, n, c - first) \in Nat
    <3> SUFFICES ASSUME NEW c \in S PROVE Share(m, n, c - first) \in Nat
      OBVIOUS
    <3> DEFINE i == c - first
    <3>1. i \in Nat /\ i < n
      BY DEF GroupColumns
    <3> HIDE DEF i
    <3>2. Share(m, n, i) \in Nat
      BY <2>1, <3>1, ShareOf
    <3> QED
      BY <3>2 DEF i
  <2>4. \A c \in S : d[c] = Share(m, n, c - first)
    OBVIOUS
  <2>5. DOMAIN v = ColumnNumbers(t)
    BY <1>2, <2>2
  <2>6. ASSUME NEW c \in ColumnNumbers(t)
        PROVE  v[c] = IF c \in S THEN w[c] + Share(m, n, c - first) ELSE w[c]
    BY <1>2, <2>2
  <2>7. ASSUME NEW c \in ColumnNumbers(t) PROVE v[c] \in Nat /\ w[c] <= v[c]
    BY <1>2, <2>3, <2>6
  <2>8. \A c \in S : v[c] = w[c] + d[c] /\ d[c] \in Int
    BY <2>3, <2>4, <2>6
  <2> HIDE DEF d
  <2>9. SumFunctionOnSet(v, S) = W + SumFunctionOnSet(d, S)
    BY <1>1, <1>3, <2>8, SumAdd DEF W
  <2>10. SumFunctionOnSet(d, S) = m
    BY <2>1, <2>4, SharesAddUp
  <2>11. hint <= GroupWidth(v, first, n)
    BY <1>1, <1>4, <1>5, <2>9, <2>10
  <2> QED
    BY <2>5, <2>7, <2>11 DEF v, AreWidths, NowhereLess
<1> QED
  BY <1>7, <1>8

\* A group is not narrower than the cell that is printed across it.
GroupFits(t, w, r, c) == cell_vis_width(t, r, c) <= GroupWidth(w, c, group_cell_number(t, r, c))

\* It stays so when columns become wider.
LEMMA StillFits ==
  ASSUME NEW t, Clean(t), Settled(t), NEW v, NEW w, AreWidths(t, v), AreWidths(t, w),
         NowhereLess(t, v, w), NEW r \in RowNumbers(t), NEW c \in ColumnNumbers(t),
         HasCell(t, r, c), GroupFits(t, w, r, c)
  PROVE  GroupFits(t, v, r, c)
<1> DEFINE n == group_cell_number(t, r, c)
<1>1. n \in Nat /\ GroupColumns(c, n) \subseteq ColumnNumbers(t)
  BY GroupInTable DEF GroupColumns
<1>2. c \in Nat
  BY ColumnNumbersType DEF Clean
<1> HIDE DEF n
<1>3. \A d \in GroupColumns(c, n) : v[d] \in Nat /\ w[d] \in Nat /\ w[d] <= v[d]
  BY <1>1 DEF AreWidths, NowhereLess
<1>4. /\ GroupWidth(w, c, n) <= GroupWidth(v, c, n)
      /\ GroupWidth(w, c, n) \in Int /\ GroupWidth(v, c, n) \in Int
  BY <1>1, <1>2, <1>3, GroupWidthGrows
<1>5. cell_vis_width(t, r, c) \in Nat
  BY <1>2, CellWidthType
<1>6. cell_vis_width(t, r, c) <= GroupWidth(w, c, n)
  BY DEF GroupFits, n
<1>7. cell_vis_width(t, r, c) <= GroupWidth(v, c, n)
  BY <1>4, <1>5, <1>6
<1> QED
  BY <1>7 DEF GroupFits, n

\* Columns that are widened twice are wider than at first.
LEMMA NowhereLessTrans ==
  ASSUME NEW t, NEW u, NEW v, NEW w, AreWidths(t, u), AreWidths(t, v), AreWidths(t, w),
         NowhereLess(t, v, w), NowhereLess(t, w, u)
  PROVE  NowhereLess(t, v, u)
<1>1. ASSUME NEW c \in ColumnNumbers(t) PROVE u[c] <= v[c]
  <2>1. u[c] \in Nat /\ v[c] \in Nat /\ w[c] \in Nat
    BY DEF AreWidths
  <2>2. u[c] <= w[c] /\ w[c] <= v[c]
    BY DEF NowhereLess
  <2> QED
    BY <2>1, <2>2
<1> QED
  BY <1>1 DEF NowhereLess

\* Columns that stay as they are did not become narrower.
LEMMA NowhereLessSame ==
  ASSUME NEW t, NEW w, AreWidths(t, w)
  PROVE  NowhereLess(t, w, w)
<1>1. \A c \in ColumnNumbers(t) : w[c] \in Nat
  BY DEF AreWidths
<1>2. \A c \in ColumnNumbers(t) : w[c] <= w[c]
  BY <1>1
<1> QED
  BY <1>2 DEF NowhereLess

\* One cell.
LEMMA WidenedByFits ==
  ASSUME NEW t, Clean(t), Settled(t), NEW intern \in BOOLEAN, NEW w, AreWidths(t, w),
         NEW r \in RowNumbers(t), NEW c \in ColumnNumbers(t)
  PROVE  LET v == WidenedBy(t, intern, w, r, c)
         IN  /\ AreWidths(t, v) /\ NowhereLess(t, v, w)
             /\ IsType(t, r, c, "master") => GroupFits(t, v, r, c)
             /\ ~Spans(t) => v = w
<1> DEFINE v == WidenedBy(t, intern, w, r, c)
           n == group_cell_number(t, r, c)
           hint == cell_vis_width(t, r, c) + IF intern THEN Invisible(t, r, c) ELSE 0
<1>1. v = IF IsType(t, r, c, "master") THEN Widened(w, c, n, hint) ELSE w
  BY DEF WidenedBy
<1>2. CASE ~IsType(t, r, c, "master")
  <2>1. v = w
    BY <1>1, <1>2
  <2> QED
    BY <1>2, <2>1, NowhereLessSame
<1>3. CASE IsType(t, r, c, "master")
  <2>1. HasCell(t, r, c) /\ ~IsType(t, r, c, "common")
    BY <1>3 DEF IsType
  <2>2. Spans(t)
    BY <2>1 DEF Spans
  <2>3. c \in Nat
    BY ColumnNumbersType DEF Clean
  <2>4. cell_vis_width(t, r, c) \in Nat
    BY <2>1, <2>3, CellWidthType
  <2>5. hint \in Nat /\ cell_vis_width(t, r, c) <= hint
    BY <2>4, InvisibleType
  <2>6. n \in Nat /\ n >= 1 /\ GroupColumns(c, n) \subseteq ColumnNumbers(t)
    BY GroupInTable DEF GroupColumns
  <2>7. v = Widened(w, c, n, hint)
    BY <1>1, <1>3
  <2> HIDE DEF v, n, hint
  <2>8. AreWidths(t, v) /\ NowhereLess(t, v, w) /\ hint <= GroupWidth(v, c, n)
    BY <2>3, <2>5, <2>6, <2>7, WidenedFits
  <2>9. GroupWidth(v, c, n) \in Int
    <3>1. \A d \in GroupColumns(c, n) : v[d] \in Nat /\ v[d] <= v[d]
      BY <2>6, <2>8 DEF AreWidths
    <3> QED
      BY <2>3, <2>6, <3>1, GroupWidthGrows
  <2>10. cell_vis_width(t, r, c) <= GroupWidth(v, c, n)
    BY <2>4, <2>5, <2>8, <2>9
  <2>11. GroupFits(t, v, r, c)
    BY <2>10 DEF GroupFits, n
  <2> QED
    BY <2>2, <2>8, <2>11 DEF v
<1> QED
  BY <1>2, <1>3

\* The recursions over rows and over columns have a solution.
Down(after, t, intern, w, c, n) ==
  IF n = 0 THEN w ELSE WidenedBy(t, intern, after[n - 1], n - 1, c)
Across(after, t, intern, n) ==
  IF n = 0 THEN ColumnWidths(t, intern) ELSE WidenedFrom(t, intern, after[n - 1], n - 1)

\* Down a column there are widths for every row,
LEMMA DownExists ==
  ASSUME NEW t, NEW intern, NEW w, NEW c, NEW N \in Nat
  PROVE  \E after : after = [n \in 0 .. N |-> Down(after, t, intern, w, c, n)]
<1> DEFINE Good(m) == \E f : \A n \in 0 .. m : f[n] = Down(f, t, intern, w, c, n)
           T == {m \in Nat : ~Good(m)}
<1>1. Good(0)
  <2> DEFINE f == [n \in {0} |-> w]
  <2>1. \A n \in 0 .. 0 : f[n] = Down(f, t, intern, w, c, n)
    BY DEF Down
  <2> QED
    BY <2>1
<1>2. ASSUME NEW m \in Nat, Good(m) PROVE Good(m + 1)
  <2>1. PICK f : \A n \in 0 .. m : f[n] = Down(f, t, intern, w, c, n)
    BY <1>2
  <2> DEFINE g == [n \in 0 .. m + 1 |-> IF n <= m THEN f[n] ELSE Down(f, t, intern, w, c, n)]
  <2>2. ASSUME NEW n \in 0 .. m + 1 PROVE g[n] = Down(f, t, intern, w, c, n)
    BY <2>1
  <2>3. ASSUME NEW n \in 0 .. m + 1, n # 0 PROVE g[n - 1] = f[n - 1]
    <3>1. n - 1 \in 0 .. m + 1 /\ n - 1 <= m
      BY <2>3
    <3> QED
      BY <3>1
  <2> HIDE DEF g
  <2>4. \A n \in 0 .. m + 1 : g[n] = Down(g, t, intern, w, c, n)
    BY <2>2, <2>3 DEF Down
  <2> QED
    BY <2>4
<1> HIDE DEF Good
<1>3. T = {}
  <2>1. SUFFICES ASSUME T # {} PROVE FALSE
    OBVIOUS
  <2>2. PICK m \in T : m \in Nat /\ \A n \in Nat : n < m => n \notin T
    BY <2>1, LeastPosition
  <2>3. m # 0
    BY <1>1
  <2>4. m - 1 \in Nat /\ Good(m - 1)
    BY <2>2, <2>3
  <2>5. Good(m - 1 + 1)
    BY <1>2, <2>4
  <2> QED
    BY <2>2, <2>5
<1>4. Good(N)
  BY <1>3
<1>5. PICK f : \A n \in 0 .. N : f[n] = Down(f, t, intern, w, c, n)
  BY <1>4 DEF Good
<1> DEFINE g == [n \in 0 .. N |-> f[n]]
<1>6. ASSUME NEW n \in 0 .. N PROVE g[n] = Down(g, t, intern, w, c, n)
  <2>1. n # 0 => n - 1 \in 0 .. N
    OBVIOUS
  <2>2. n # 0 => g[n - 1] = f[n - 1]
    BY <2>1
  <2>3. g[n] = f[n]
    OBVIOUS
  <2> HIDE DEF g
  <2> QED
    BY <1>5, <2>2, <2>3 DEF Down
<1>7. g = [n \in 0 .. N |-> g[n]]
  OBVIOUS
<1> HIDE DEF g
<1>8. g = [n \in 0 .. N |-> Down(g, t, intern, w, c, n)]
  BY <1>6, <1>7
<1> QED
  BY <1>8

\* of which WidenedFrom takes the last.
LEMMA WidenedFromSolution ==
  ASSUME NEW t, NEW intern, NEW w, NEW c, Len(t.rows) \in Nat
  PROVE  \E after : /\ \A n \in 0 .. Len(t.rows) : after[n] = Down(after, t, intern, w, c, n)
                    /\ WidenedFrom(t, intern, w, c) = after[Len(t.rows)]
<1> DEFINE N == Len(t.rows)
           after == CHOOSE after : after = [n \in 0 .. N |-> Down(after, t, intern, w, c, n)]
<1>1. after = [n \in 0 .. N |-> Down(after, t, intern, w, c, n)]
  BY DownExists
<1>2. WidenedFrom(t, intern, w, c) = after[N]
  BY DEF WidenedFrom, Down
<1> HIDE DEF after
<1>3. \A n \in 0 .. N : after[n] = Down(after, t, intern, w, c, n)
  BY <1>1
<1> QED
  BY <1>2, <1>3

\* Across the table there are widths for every column,
LEMMA AcrossExists ==
  ASSUME NEW t, NEW intern, NEW N \in Nat
  PROVE  \E after : after = [n \in 0 .. N |-> Across(after, t, intern, n)]
<1> DEFINE Good(m) == \E f : \A n \in 0 .. m : f[n] = Across(f, t, intern, n)
           T == {m \in Nat : ~Good(m)}
<1>1. Good(0)
  <2> DEFINE f == [n \in {0} |-> ColumnWidths(t, intern)]
  <2>1. \A n \in 0 .. 0 : f[n] = Across(f, t, intern, n)
    BY DEF Across
  <2> QED
    BY <2>1
<1>2. ASSUME NEW m \in Nat, Good(m) PROVE Good(m + 1)
  <2>1. PICK f : \A n \in 0 .. m : f[n] = Across(f, t, intern, n)
    BY <1>2
  <2> DEFINE g == [n \in 0 .. m + 1 |-> IF n <= m THEN f[n] ELSE Across(f, t, intern, n)]
  <2>2. ASSUME NEW n \in 0 .. m + 1 PROVE g[n] = Across(f, t, intern, n)
    BY <2>1
  <2>3. ASSUME NEW n \in 0 .. m + 1, n # 0 PROVE g[n - 1] = f[n - 1]
    <3>1. n - 1 \in 0 .. m + 1 /\ n - 1 <= m
      BY <2>3
    <3> QED
      BY <3>1
  <2> HIDE DEF g
  <2>4. \A n \in 0 .. m + 1 : g[n] = Across(g, t, intern, n)
    BY <2>2, <2>3 DEF Across
  <2> QED
    BY <2>4
<1> HIDE DEF Good
<1>3. T = {}
  <2>1. SUFFICES ASSUME T # {} PROVE FALSE
    OBVIOUS
  <2>2. PICK m \in T : m \in Nat /\ \A n \in Nat : n < m => n \notin T
    BY <2>1, LeastPosition
  <2>3. m # 0
    BY <1>1
  <2>4. m - 1 \in Nat /\ Good(m - 1)
    BY <2>2, <2>3
  <2>5. Good(m - 1 + 1)
    BY <1>2, <2>4
  <2> QED
    BY <2>2, <2>5
<1>4. Good(N)
  BY <1>3
<1>5. PICK f : \A n \in 0 .. N : f[n] = Across(f, t, intern, n)
  BY <1>4 DEF Good
<1> DEFINE g == [n \in 0 .. N |-> f[n]]
<1>6. ASSUME NEW n \in 0 .. N PROVE g[n] = Across(g, t, intern, n)
  <2>1. n # 0 => n - 1 \in 0 .. N
    OBVIOUS
  <2>2. n # 0 => g[n - 1] = f[n - 1]
    BY <2>1
  <2>3. g[n] = f[n]
    OBVIOUS
  <2> HIDE DEF g
  <2> QED
    BY <1>5, <2>2, <2>3 DEF Across
<1>7. g = [n \in 0 .. N |-> g[n]]
  OBVIOUS
<1> HIDE DEF g
<1>8. g = [n \in 0 .. N |-> Across(g, t, intern, n)]
  BY <1>6, <1>7
<1> QED
  BY <1>8

\* of which Widths takes the last.
LEMMA WidthsSolution ==
  ASSUME NEW t, NEW intern, Columns(t) \in Nat
  PROVE  \E after : /\ \A n \in 0 .. Columns(t) : after[n] = Across(after, t, intern, n)
                    /\ Widths(t, intern) = after[Columns(t)]
<1> DEFINE N == Columns(t)
           after == CHOOSE after : after = [n \in 0 .. N |-> Across(after, t, intern, n)]
<1>1. after = [n \in 0 .. N |-> Across(after, t, intern, n)]
  BY AcrossExists
<1>2. Widths(t, intern) = after[N]
  BY DEF Widths, Across
<1> HIDE DEF after
<1>3. \A n \in 0 .. N : after[n] = Across(after, t, intern, n)
  BY <1>1
<1> QED
  BY <1>2, <1>3

\* After the masters of one column no column is narrower, and they fit.
MastersFit(t, v, c) ==
  \A r \in RowNumbers(t) : IsType(t, r, c, "master") => GroupFits(t, v, r, c)

\* When the masters of a column have widened their columns all of them fit.
LEMMA WidenedFromFits ==
  ASSUME NEW t, Clean(t), Settled(t), NEW intern \in BOOLEAN, NEW w, AreWidths(t, w),
         NEW c \in ColumnNumbers(t)
  PROVE  LET v == WidenedFrom(t, intern, w, c)
         IN  /\ AreWidths(t, v) /\ NowhereLess(t, v, w) /\ MastersFit(t, v, c)
             /\ ~Spans(t) => v = w
<1> DEFINE N == Len(t.rows)
<1>1. N \in Nat /\ RowNumbers(t) = 0 .. N - 1
  BY RowsFinite DEF RowNumbers, Clean
<1>2. PICK after : /\ \A n \in 0 .. N : after[n] = Down(after, t, intern, w, c, n)
                   /\ WidenedFrom(t, intern, w, c) = after[N]
  BY <1>1, WidenedFromSolution
<1> HIDE DEF N
<1> DEFINE UpTo(v, n) == \A r \in RowNumbers(t) :
                           r < n /\ IsType(t, r, c, "master") => GroupFits(t, v, r, c)
           Good(n) == /\ AreWidths(t, after[n]) /\ NowhereLess(t, after[n], w)
                      /\ UpTo(after[n], n)
                      /\ ~Spans(t) => after[n] = w
           T == {n \in Nat : n <= N /\ ~Good(n)}
<1>3. Good(0)
  <2>1. after[0] = w
    BY <1>1, <1>2 DEF Down
  <2>2. \A r \in RowNumbers(t) : ~(r < 0)
    BY <1>1
  <2> QED
    BY <2>1, <2>2, NowhereLessSame
<1>4. ASSUME NEW n \in Nat, n + 1 <= N, Good(n) PROVE Good(n + 1)
  <2> DEFINE v == after[n]
             u == after[n + 1]
  <2>1. AreWidths(t, v) /\ NowhereLess(t, v, w) /\ UpTo(v, n) /\ (~Spans(t) => v = w)
    BY <1>4
  <2>2. n \in RowNumbers(t) /\ n + 1 \in 0 .. N /\ n + 1 # 0 /\ n + 1 - 1 = n
    BY <1>1, <1>4
  <2>3. u = WidenedBy(t, intern, v, n, c)
    BY <1>2, <2>2 DEF Down
  <2> HIDE DEF u, v, UpTo
  <2>4. /\ AreWidths(t, u) /\ NowhereLess(t, u, v)
        /\ IsType(t, n, c, "master") => GroupFits(t, u, n, c)
        /\ ~Spans(t) => u = v
    BY <2>1, <2>2, <2>3, WidenedByFits
  <2>5. NowhereLess(t, u, w)
    BY <2>1, <2>4, NowhereLessTrans
  <2>6. UpTo(u, n + 1)
    <3> SUFFICES ASSUME NEW r \in RowNumbers(t), r < n + 1, IsType(t, r, c, "master")
                 PROVE  GroupFits(t, u, r, c)
      BY DEF UpTo
    <3>1. HasCell(t, r, c)
      BY DEF IsType
    <3>2. CASE r = n
      BY <2>4, <3>2
    <3>3. CASE r # n
      <4>1. r < n
        BY <1>1, <3>3
      <4>2. GroupFits(t, v, r, c)
        BY <2>1, <4>1 DEF UpTo
      <4> QED
        BY <2>1, <2>4, <3>1, <4>2, StillFits
    <3> QED
      BY <3>2, <3>3
  <2> QED
    BY <2>1, <2>4, <2>5, <2>6 DEF u
<1> HIDE DEF Good
<1>5. T = {}
  <2>1. SUFFICES ASSUME T # {} PROVE FALSE
    OBVIOUS
  <2>2. PICK m \in T : m \in Nat /\ \A n \in Nat : n < m => n \notin T
    BY <2>1, LeastPosition
  <2>3. m # 0
    BY <1>3
  <2>4. m - 1 \in Nat /\ m - 1 + 1 <= N /\ Good(m - 1)
    BY <1>1, <2>2, <2>3
  <2>5. Good(m - 1 + 1)
    BY <1>4, <2>4
  <2> QED
    BY <2>2, <2>5
<1>6. Good(N)
  BY <1>1, <1>5
<1>7. \A r \in RowNumbers(t) : r < N
  BY <1>1
<1> QED
  BY <1>2, <1>6, <1>7 DEF Good, MastersFit

\* The widths of a table: no column is narrower than its cells, no group of
\* columns than the master across it, and without spans nothing is widened.
LEMMA WidthsFit ==
  ASSUME NEW t, Clean(t), Settled(t), NEW intern \in BOOLEAN
  PROVE  LET v == Widths(t, intern)
         IN  /\ AreWidths(t, v) /\ NowhereLess(t, v, ColumnWidths(t, intern))
             /\ \A c \in ColumnNumbers(t) : MastersFit(t, v, c)
             /\ ~Spans(t) => v = ColumnWidths(t, intern)
<1> DEFINE N == Columns(t)
           w == ColumnWidths(t, intern)
<1>1. N \in Nat /\ ColumnNumbers(t) = 0 .. N - 1
  BY ColumnNumbersType DEF Clean
<1>2. PICK after : /\ \A n \in 0 .. N : after[n] = Across(after, t, intern, n)
                   /\ Widths(t, intern) = after[N]
  BY <1>1, WidthsSolution
<1>0. AreWidths(t, w)
  BY ColumnWidthsType
<1> HIDE DEF N
<1> DEFINE UpTo(v, n) == \A c \in ColumnNumbers(t) : c < n => MastersFit(t, v, c)
           Good(n) == /\ AreWidths(t, after[n]) /\ NowhereLess(t, after[n], w)
                      /\ UpTo(after[n], n)
                      /\ ~Spans(t) => after[n] = w
           T == {n \in Nat : n <= N /\ ~Good(n)}
<1>3. Good(0)
  <2>1. after[0] = w
    BY <1>1, <1>2 DEF Across
  <2>2. \A c \in ColumnNumbers(t) : ~(c < 0)
    BY <1>1
  <2> HIDE DEF w
  <2> QED
    BY <1>0, <2>1, <2>2, NowhereLessSame
<1>4. ASSUME NEW n \in Nat, n + 1 <= N, Good(n) PROVE Good(n + 1)
  <2> DEFINE v == after[n]
             u == after[n + 1]
  <2>1. AreWidths(t, v) /\ NowhereLess(t, v, w) /\ UpTo(v, n) /\ (~Spans(t) => v = w)
    BY <1>4
  <2>2. n \in ColumnNumbers(t) /\ n + 1 \in 0 .. N /\ n + 1 # 0 /\ n + 1 - 1 = n
    BY <1>1, <1>4
  <2>3. u = WidenedFrom(t, intern, v, n)
    BY <1>2, <2>2 DEF Across
  <2> HIDE DEF u, v, w, UpTo
  <2>4. /\ AreWidths(t, u) /\ NowhereLess(t, u, v) /\ MastersFit(t, u, n)
        /\ ~Spans(t) => u = v
    BY <2>1, <2>2, <2>3, WidenedFromFits
  <2>5. NowhereLess(t, u, w)
    BY <1>0, <2>1, <2>4, NowhereLessTrans
  <2>6. UpTo(u, n + 1)
    <3> SUFFICES ASSUME NEW c \in ColumnNumbers(t), c < n + 1
                 PROVE  MastersFit(t, u, c)
      BY DEF UpTo
    <3>2. CASE c = n
      BY <2>4, <3>2
    <3>3. CASE c # n
      <4>1. c < n
        BY <1>1, <3>3
      <4>2. MastersFit(t, v, c)
        BY <2>1, <4>1 DEF UpTo
      <4>3. ASSUME NEW r \in RowNumbers(t), IsType(t, r, c, "master") PROVE GroupFits(t, u, r, c)
        <5>1. HasCell(t, r, c) /\ GroupFits(t, v, r, c)
          BY <4>2, <4>3 DEF IsType, MastersFit
        <5> QED
          BY <2>1, <2>4, <5>1, StillFits
      <4> QED
        BY <4>3 DEF MastersFit
    <3> QED
      BY <3>2, <3>3
  <2> QED
    BY <2>1, <2>4, <2>5, <2>6 DEF u
<1> HIDE DEF Good
<1>5. T = {}
  <2>1. SUFFICES ASSUME T # {} PROVE FALSE
    OBVIOUS
  <2>2. PICK m \in T : m \in Nat /\ \A n \in Nat : n < m => n \notin T
    BY <2>1, LeastPosition
  <2>3. m # 0
    BY <1>3
  <2>4. m - 1 \in Nat /\ m - 1 + 1 <= N /\ Good(m - 1)
    BY <1>1, <2>2, <2>3
  <2>5. Good(m - 1 + 1)
    BY <1>4, <2>4
  <2> QED
    BY <2>2, <2>5
<1>6. Good(N)
  BY <1>1, <1>5
<1>7. \A c \in ColumnNumbers(t) : c < N
  BY <1>1
<1> QED
  BY <1>2, <1>6, <1>7 DEF Good

\* Where no cell is coloured the columns are as wide in the buffer as they are
\* seen.
LEMMA WidthsPlain ==
  ASSUME NEW t, Clean(t), Settled(t), ~Coloured(t), NEW i \in BOOLEAN, NEW j \in BOOLEAN
  PROVE  Widths(t, i) = Widths(t, j)
<1> DEFINE N == Columns(t)
           M == Len(t.rows)
<1>1. N \in Nat /\ ColumnNumbers(t) = 0 .. N - 1
  BY ColumnNumbersType DEF Clean
<1>2. M \in Nat /\ RowNumbers(t) = 0 .. M - 1
  BY RowsFinite DEF RowNumbers, Clean
<1>3. ASSUME NEW w, NEW r \in RowNumbers(t), NEW c \in ColumnNumbers(t)
      PROVE  WidenedBy(t, i, w, r, c) = WidenedBy(t, j, w, r, c)
  <2>1. Invisible(t, r, c) \in Nat /\ ~(Invisible(t, r, c) > 0)
    BY InvisibleType DEF Coloured
  <2>2. Invisible(t, r, c) = 0
    BY <2>1
  <2> DEFINE n == group_cell_number(t, r, c)
             kept == cell_vis_width(t, r, c) + IF i THEN Invisible(t, r, c) ELSE 0
             seen == cell_vis_width(t, r, c) + IF j THEN Invisible(t, r, c) ELSE 0
  <2>3. kept = seen
    BY <2>2
  <2>4. WidenedBy(t, i, w, r, c) =
          IF IsType(t, r, c, "master") THEN Widened(w, c, n, kept) ELSE w
    BY DEF WidenedBy
  <2>5. WidenedBy(t, j, w, r, c) =
          IF IsType(t, r, c, "master") THEN Widened(w, c, n, seen) ELSE w
    BY DEF WidenedBy
  <2> HIDE DEF kept, seen, n
  <2> QED
    BY <2>3, <2>4, <2>5
<1>4. ASSUME NEW w, NEW c \in ColumnNumbers(t)
      PROVE  WidenedFrom(t, i, w, c) = WidenedFrom(t, j, w, c)
  <2>1. PICK f : /\ \A n \in 0 .. M : f[n] = Down(f, t, i, w, c, n)
                 /\ WidenedFrom(t, i, w, c) = f[M]
    BY <1>2, WidenedFromSolution
  <2>2. PICK g : /\ \A n \in 0 .. M : g[n] = Down(g, t, j, w, c, n)
                 /\ WidenedFrom(t, j, w, c) = g[M]
    BY <1>2, WidenedFromSolution
  <2> HIDE DEF M
  <2>0. f[0] = w /\ g[0] = w
    <3>1. 0 \in 0 .. M
      BY <1>2
    <3>2. f[0] = Down(f, t, i, w, c, 0) /\ g[0] = Down(g, t, j, w, c, 0)
      BY <2>1, <2>2, <3>1
    <3> QED
      BY <3>2 DEF Down
  <2> DEFINE T == {n \in Nat : n <= M /\ f[n] # g[n]}
  <2>3. T = {}
    <3>1. SUFFICES ASSUME T # {} PROVE FALSE
      OBVIOUS
    <3>2. PICK m \in T : m \in Nat /\ \A n \in Nat : n < m => n \notin T
      BY <3>1, LeastPosition
    <3>3. m # 0
      BY <2>0, <3>2
    <3>4. m \in 0 .. M /\ m - 1 \in RowNumbers(t) /\ f[m - 1] = g[m - 1]
      BY <1>2, <3>2, <3>3
    <3>5. f[m] = WidenedBy(t, i, f[m - 1], m - 1, c)
      BY <2>1, <3>3, <3>4 DEF Down
    <3>6. g[m] = WidenedBy(t, j, g[m - 1], m - 1, c)
      BY <2>2, <3>3, <3>4 DEF Down
    <3> QED
      BY <1>3, <3>2, <3>4, <3>5, <3>6
  <2>4. f[M] = g[M]
    BY <1>2, <2>3
  <2> QED
    BY <2>1, <2>2, <2>4
<1>5. PICK f : /\ \A n \in 0 .. N : f[n] = Across(f, t, i, n)
               /\ Widths(t, i) = f[N]
  BY <1>1, WidthsSolution
<1>6. PICK g : /\ \A n \in 0 .. N : g[n] = Across(g, t, j, n)
               /\ Widths(t, j) = g[N]
  BY <1>1, WidthsSolution
<1> HIDE DEF N, M
<1>0. f[0] = g[0]
  <2>1. 0 \in 0 .. N
    BY <1>1
  <2>2. f[0] = Across(f, t, i, 0) /\ g[0] = Across(g, t, j, 0)
    BY <1>5, <1>6, <2>1
  <2> QED
    BY <2>2, NotColoured DEF Across
<1> DEFINE T == {n \in Nat : n <= N /\ f[n] # g[n]}
<1>7. T = {}
  <2>1. SUFFICES ASSUME T # {} PROVE FALSE
    OBVIOUS
  <2>2. PICK m \in T : m \in Nat /\ \A n \in Nat : n < m => n \notin T
    BY <2>1, LeastPosition
  <2>3. m # 0
    BY <1>0, <2>2
  <2>4. m \in 0 .. N /\ m - 1 \in ColumnNumbers(t) /\ f[m - 1] = g[m - 1]
    BY <1>1, <2>2, <2>3
  <2>5. f[m] = WidenedFrom(t, i, f[m - 1], m - 1)
    BY <1>5, <2>3, <2>4 DEF Across
  <2>6. g[m] = WidenedFrom(t, j, g[m - 1], m - 1)
    BY <1>6, <2>3, <2>4 DEF Across
  <2> QED
    BY <1>4, <2>2, <2>4, <2>5, <2>6
<1>8. f[N] = g[N]
  BY <1>1, <1>7
<1> QED
  BY <1>5, <1>6, <1>8

-----------------------------------------------------------------------------
(* Tables that are printed *)

\* What a table has of the cells does not change with the style either.
LEMMA StyledCells ==
  ASSUME NEW X, NEW t, HasRows(t, X), NEW style
  PROVE  LET u == ft_set_border_style(t, style)
         IN  /\ u.tableProps = t.tableProps /\ RowNumbers(u) = RowNumbers(t)
             /\ \A r, c : /\ cell_vis_width(u, r, c) = cell_vis_width(t, r, c)
                          /\ group_cell_number(u, r, c) = group_cell_number(t, r, c)
<1> DEFINE u == ft_set_border_style(t, style)
<1>1. u.rows = t.rows /\ u.cellProps = t.cellProps /\ u.tableProps = t.tableProps
  BY DEF ft_set_border_style, HasRows, TableFields
<1>2. Columns(u) = Columns(t)
  BY StyledTable
<1> HIDE DEF u
<1>3. RowNumbers(u) = RowNumbers(t)
  BY <1>1 DEF RowNumbers
<1>4. \A r, c : HasCell(u, r, c) = HasCell(t, r, c) /\ Cell(u, r, c) = Cell(t, r, c)
  BY <1>1 DEF HasCell, Cell, RowOrEmpty
<1>5. \A r, c, type : IsType(u, r, c, type) = IsType(t, r, c, type)
  BY <1>4 DEF IsType
<1>6. ASSUME NEW r, NEW c PROVE cell_vis_width(u, r, c) = cell_vis_width(t, r, c)
  BY <1>1, <1>4 DEF cell_vis_width, Prop
<1>7. ASSUME NEW r, NEW c PROVE group_cell_number(u, r, c) = group_cell_number(t, r, c)
  <2> DEFINE S(v) == {n \in 1 .. Columns(v) - c : \A k \in 1 .. n - 1 : IsType(v, r, c + k, "slave")}
  <2>1. S(u) = S(t)
    BY <1>2, <1>5
  <2>2. /\ group_cell_number(u, r, c) = IF ~IsType(u, r, c, "master") THEN 1 ELSE Max(S(u))
        /\ group_cell_number(t, r, c) = IF ~IsType(t, r, c, "master") THEN 1 ELSE Max(S(t))
    BY DEF group_cell_number
  <2> HIDE DEF S
  <2> QED
    BY <1>5, <2>1, <2>2
<1> QED
  BY <1>1, <1>3, <1>6, <1>7 DEF u

\* The parts of what was measured.
LEMMA GeometryParts ==
  ASSUME NEW t
  PROVE  LET g == table_rows_and_cols_geometry(t)
         IN  /\ g.widths = Widths(t, FALSE)
             /\ g.width = Total(Widths(t, FALSE)) /\ g.intern = Total(Widths(t, TRUE))
             /\ g.heights = RowHeights(t) /\ g.height = Total(RowHeights(t))
             /\ \A r \in RowNumbers(t) :
                  /\ g.joined[r] = Joined(t, r)
                  /\ g.tags[r] = Total([c \in {d \in ColumnNumbers(t) \ g.joined[r] : HasCell(t, r, d)} |->
                                          Invisible(t, r, c)])
BY DEF table_rows_and_cols_geometry

\* The group of a cell that is printed has room for it: a common cell has
\* a column of its own that is as wide, and a master has widened its columns.
LEMMA CellFits ==
  ASSUME NEW t, Clean(t), Settled(t), ~OrphanSlaves(t), NEW r \in RowNumbers(t),
         NEW c \in ColumnNumbers(t), HasCell(t, r, c), c \notin Joined(t, r)
  PROVE  GroupFits(t, Widths(t, FALSE), r, c)
<1> DEFINE w == Widths(t, FALSE)
           v == ColumnWidths(t, FALSE)
<1>0. FALSE \in BOOLEAN
  OBVIOUS
<1>1. AreWidths(t, w) /\ NowhereLess(t, w, v)
  BY <1>0, WidthsFit
<1>2. MastersFit(t, w, c)
  BY <1>0, WidthsFit
<1>3. c \in Nat
  BY ColumnNumbersType DEF Clean
<1>4. Cell(t, r, c) \in Cells
  BY <1>3, CellFound
<1>5. IsType(t, r, c, "common") \/ IsType(t, r, c, "master") \/ IsType(t, r, c, "slave")
  BY <1>4 DEF Cells, IsType
<1>6. ~IsType(t, r, c, "slave")
  BY DEF OrphanSlaves
<1>7. CASE IsType(t, r, c, "master")
  BY <1>2, <1>7 DEF MastersFit
<1>8. CASE IsType(t, r, c, "common")
  <2>1. ~IsType(t, r, c, "master")
    BY <1>8 DEF IsType
  <2>2. group_cell_number(t, r, c) = 1
    BY <2>1, GroupInTable
  <2>3. w[c] \in Nat /\ v[c] <= w[c]
    BY <1>1 DEF AreWidths, NowhereLess
  <2>4. v[c] = CommonWidth(t, c) + IF FALSE THEN InvisibleWidth(t, c) ELSE 0
    BY ColumnWidthParts
  <2>5. CommonWidth(t, c) \in Nat /\ cell_vis_width(t, r, c) <= CommonWidth(t, c)
    BY <1>8, CommonWidthFits
  <2>6. cell_vis_width(t, r, c) \in Nat
    BY <1>3, CellWidthType
  <2> HIDE DEF w, v
  <2>13. v[c] = CommonWidth(t, c)
    BY <2>4, <2>5
  <2>7. cell_vis_width(t, r, c) <= w[c]
    BY <2>3, <2>5, <2>6, <2>13
  <2>8. GroupColumns(c, 1) = {c}
    BY <1>3 DEF GroupColumns
  <2>9. GroupWidth(w, c, 1) = SumFunctionOnSet(w, GroupColumns(c, 1)) + 1 - 1
    BY <1>3, GroupWidthIsSum
  <2>10. SumFunctionOnSet(w, {c}) = w[c]
    BY <2>3, SumOne
  <2>11. GroupWidth(w, c, 1) = w[c]
    BY <2>3, <2>8, <2>9, <2>10
  <2>12. GroupFits(t, w, r, c)
    BY <2>2, <2>7, <2>11 DEF GroupFits
  <2> QED
    BY <2>12 DEF w
<1> QED
  BY <1>5, <1>6, <1>7, <1>8

\* No cell that is printed is wider than its columns.
LEMMA NotTooNarrow ==
  ASSUME NEW t, Clean(t), Settled(t), ~OrphanSlaves(t), NEW r \in RowNumbers(t), NEW style
  PROVE  ~TooNarrow(ft_set_border_style(t, style), r, table_rows_and_cols_geometry(t))
<1> DEFINE u == ft_set_border_style(t, style)
           g == table_rows_and_cols_geometry(t)
<1>1. u.rows = t.rows
  BY StyledTable DEF Clean
<1>2. \A c : /\ cell_vis_width(u, r, c) = cell_vis_width(t, r, c)
             /\ group_cell_number(u, r, c) = group_cell_number(t, r, c)
  BY StyledCells DEF Clean
<1>3. g.widths = Widths(t, FALSE) /\ g.joined[r] = Joined(t, r)
  BY GeometryParts
<1> HIDE DEF u, g
<1>4. SUFFICES ASSUME TooNarrow(u, r, g) PROVE FALSE
  BY DEF u, g
<1>5. PICK c \in 0 .. columns_in_row(vector_at(u.rows, r)) - 1 :
        /\ c \notin g.joined[r]
        /\ cell_vis_width(u, r, c) > GroupWidth(g.widths, c, group_cell_number(u, r, c))
  BY <1>4 DEF TooNarrow
<1>6. t.rows \in Seq(Seq(Cells)) /\ r \in Nat /\ r < Len(t.rows)
  BY DEF Clean, HasRows, RowNumbers
<1>7. t.rows[r + 1] \in Seq(Cells)
  BY <1>6
<1>8. c \in Nat /\ HasCell(t, r, c)
  BY <1>1, <1>5, <1>6, <1>7 DEF HasCell, RowOrEmpty, columns_in_row, vector_at
<1>9. c \in ColumnNumbers(t)
  BY <1>8, CellInColumn DEF Clean
<1>10. GroupFits(t, Widths(t, FALSE), r, c)
  BY <1>3, <1>5, <1>8, <1>9, CellFits
<1>11. cell_vis_width(t, r, c) <= GroupWidth(g.widths, c, group_cell_number(t, r, c))
  BY <1>3, <1>10 DEF GroupFits
<1>12. cell_vis_width(t, r, c) \in Nat
  BY <1>8, CellWidthType
<1>13. GroupWidth(g.widths, c, group_cell_number(t, r, c)) \in Int
  <2> DEFINE n == group_cell_number(t, r, c)
             w == Widths(t, FALSE)
  <2>1. n \in Nat /\ GroupColumns(c, n) \subseteq ColumnNumbers(t)
    BY <1>9, GroupInTable DEF GroupColumns
  <2>2. AreWidths(t, w)
    BY WidthsFit
  <2> HIDE DEF n, w
  <2>3. \A d \in GroupColumns(c, n) : w[d] \in Nat /\ w[d] <= w[d]
    BY <2>1, <2>2 DEF AreWidths
  <2>4. GroupWidth(w, c, n) \in Int
    BY <1>8, <2>1, <2>3, GroupWidthGrows
  <2> QED
    BY <1>3, <2>4 DEF n, w
<1> QED
  BY <1>2, <1>5, <1>11, <1>12, <1>13

\* The escape sequences of a line find room in the columns of the buffer: there
\* are none, or the columns are as wide as the widest of them asks for.
LEMMA ColumnWithTags ==
  ASSUME NEW t, Clean(t), Settled(t), ~(Spans(t) /\ Coloured(t)), NEW r \in RowNumbers(t),
         NEW c \in ColumnNumbers(t)
  PROVE  /\ Widths(t, FALSE)[c] \in Nat /\ Widths(t, TRUE)[c] \in Nat
         /\ Widths(t, FALSE)[c] <= Widths(t, TRUE)[c]
         /\ HasCell(t, r, c) =>
              Widths(t, FALSE)[c] + Invisible(t, r, c) <= Widths(t, TRUE)[c]
<1> DEFINE w == Widths(t, FALSE)
           v == Widths(t, TRUE)
           tag == Invisible(t, r, c)
<1>1. TRUE \in BOOLEAN /\ FALSE \in BOOLEAN
  OBVIOUS
<1>2. AreWidths(t, w) /\ AreWidths(t, v)
  BY <1>1, WidthsFit
<1>3. w[c] \in Nat /\ v[c] \in Nat
  BY <1>2 DEF AreWidths
<1>4. tag \in Nat
  BY InvisibleType
<1>5. CASE ~Coloured(t)
  <2>1. w = v
    BY <1>1, <1>5, WidthsPlain
  <2>2. ~(tag > 0)
    BY <1>5 DEF Coloured
  <2> HIDE DEF w, v, tag
  <2>3. w[c] <= v[c] /\ w[c] + tag <= v[c]
    BY <1>3, <1>4, <2>1, <2>2
  <2> QED
    BY <1>3, <2>3 DEF w, v, tag
<1>6. CASE ~Spans(t)
  <2> DEFINE a == CommonWidth(t, c)
             b == InvisibleWidth(t, c)
             seen == ColumnWidths(t, FALSE)
             kept == ColumnWidths(t, TRUE)
  <2>1. w = seen
    BY <1>1, <1>6, WidthsFit
  <2>2. v = kept
    BY <1>1, <1>6, WidthsFit
  <2>3. seen[c] = a + IF FALSE THEN b ELSE 0
    BY ColumnWidthParts
  <2>4. kept[c] = a + IF TRUE THEN b ELSE 0
    BY ColumnWidthParts
  <2>5. a \in Nat /\ b \in Nat /\ (HasCell(t, r, c) => tag <= b)
    BY CommonWidthFits, InvisibleWidthFits
  <2> HIDE DEF w, v, tag, a, b, seen, kept
  <2>6. w[c] <= v[c] /\ (HasCell(t, r, c) => w[c] + tag <= v[c])
    BY <1>4, <2>1, <2>2, <2>3, <2>4, <2>5
  <2> QED
    BY <1>3, <2>6 DEF w, v, tag
<1> QED
  BY <1>5, <1>6

\* The escape sequences of a line are in the cells that are printed.
TaggedCells(t, r) == {d \in ColumnNumbers(t) \ Joined(t, r) : HasCell(t, r, d)}

\* A line with its escape sequences is not longer than the buffer is wide.
LEMMA WidthInBuffer ==
  ASSUME NEW t, Clean(t), Settled(t), ~(Spans(t) /\ Coloured(t)), NEW r \in RowNumbers(t)
  PROVE  LET g == table_rows_and_cols_geometry(t)
         IN  /\ g.width \in Nat /\ g.tags[r] \in Nat /\ g.intern \in Nat
             /\ g.width + g.tags[r] <= g.intern
<1> DEFINE g == table_rows_and_cols_geometry(t)
           C == ColumnNumbers(t)
           D == TaggedCells(t, r)
           w == Widths(t, FALSE)
           v == Widths(t, TRUE)
           tag == [c \in D |-> Invisible(t, r, c)]
           tags == [c \in C |-> IF c \in D THEN Invisible(t, r, c) ELSE 0]
           both == [c \in C |-> w[c] + tags[c]]
<1>0. TRUE \in BOOLEAN /\ FALSE \in BOOLEAN
  OBVIOUS
<1>1. IsFiniteSet(C) /\ C \subseteq Nat
  BY ColumnNumbersType DEF Clean
<1>2. D \in SUBSET C /\ \A c \in D : HasCell(t, r, c)
  BY DEF TaggedCells
<1>3. \A c \in C : /\ w[c] \in Nat /\ v[c] \in Nat /\ w[c] <= v[c]
                   /\ HasCell(t, r, c) => w[c] + Invisible(t, r, c) <= v[c]
  BY ColumnWithTags
<1>4. \A c : Invisible(t, r, c) \in Nat
  BY InvisibleType
<1>5. DOMAIN w = C /\ DOMAIN v = C
  <2>1. AreWidths(t, w)
    BY <1>0, WidthsFit
  <2>2. AreWidths(t, v)
    BY <1>0, WidthsFit
  <2> QED
    BY <2>1, <2>2 DEF AreWidths
<1>6. g.width = Total(w) /\ g.intern = Total(v) /\ g.tags[r] = Total(tag)
  BY GeometryParts DEF TaggedCells
<1> HIDE DEF g, C, D, w, v
<1>7. DOMAIN tag = D
  OBVIOUS
<1>8. \A c \in C : tags[c] = IF c \in D THEN Invisible(t, r, c) ELSE 0
  OBVIOUS
<1>9. \A c \in D : tag[c] = Invisible(t, r, c)
  OBVIOUS
<1>10. \A c \in C : both[c] = w[c] + tags[c]
  OBVIOUS
<1> HIDE DEF tag, tags, both
<1>11. \A c \in C : tags[c] \in Nat /\ tags[c] \in Int /\ w[c] \in Int /\ v[c] \in Int
  BY <1>3, <1>4, <1>8
<1>12. \A c \in C : both[c] \in Int /\ both[c] <= v[c]
  BY <1>2, <1>3, <1>4, <1>8, <1>10
<1>13. SumFunctionOnSet(tags, C) = Total(tag)
  <2> DEFINE E == C \ D
  <2>1. C = D \cup E /\ D \cap E = {}
    BY <1>2
  <2>2. \A c \in E : tags[c] \in {0}
    BY <1>8
  <2>3. IsFiniteSet(E)
    BY <1>1, FS_Subset
  <2>4. IsFiniteSet(D)
    BY <1>1, <1>2, FS_Subset
  <2> HIDE DEF E
  <2>5. SumFunctionOnSet(tags, C) = SumFunctionOnSet(tags, D) + SumFunctionOnSet(tags, E)
    BY <1>1, <1>11, <2>1, SumParts
  <2>6. SumFunctionOnSet(tags, E) \in {0}
    BY <2>2, <2>3, SumType
  <2>7. \A c \in D : tags[c] = tag[c]
    BY <1>2, <1>8, <1>9
  <2>8. SumFunctionOnSet(tags, D) = SumFunctionOnSet(tag, D)
    BY <2>4, <2>7, SumCongruent
  <2>9. Total(tag) = SumFunctionOnSet(tag, D)
    BY <1>7, TotalIsSum
  <2>10. SumFunctionOnSet(tag, D) \in Nat
    <3>1. \A c \in D : tag[c] \in Nat
      BY <1>4, <1>9
    <3> QED
      BY <2>4, <3>1, SumType
  <2> QED
    BY <2>5, <2>6, <2>8, <2>9, <2>10
<1>14. SumFunctionOnSet(both, C) = SumFunctionOnSet(w, C) + SumFunctionOnSet(tags, C)
  BY <1>1, <1>10, <1>11, SumAdd
<1>15. SumFunctionOnSet(both, C) <= SumFunctionOnSet(v, C)
  BY <1>1, <1>11, <1>12, SumMore
<1>16. Total(w) = SumFunctionOnSet(w, C)
  BY <1>5, TotalIsSum
<1>17. Total(v) = SumFunctionOnSet(v, C)
  BY <1>5, TotalIsSum
<1>18. SumFunctionOnSet(w, C) \in Nat
  BY <1>1, <1>3, SumType
<1>19. SumFunctionOnSet(v, C) \in Nat
  BY <1>1, <1>3, SumType
<1>20. SumFunctionOnSet(tags, C) \in Nat
  BY <1>1, <1>11, SumType
<1>21. g.width \in Nat /\ g.tags[r] \in Nat /\ g.intern \in Nat
  BY <1>6, <1>13, <1>16, <1>17, <1>18, <1>19, <1>20
<1>22. g.width + g.tags[r] <= g.intern
  BY <1>6, <1>13, <1>14, <1>15, <1>16, <1>17
<1> QED
  BY <1>21, <1>22 DEF g

-----------------------------------------------------------------------------
(* Lines in the buffer *)

\* A table that may be printed: its style is one of those it may have, and its
\* margins are not negative.
Printable(t) == Clean(t) /\ t.style \in Styles /\ MarginsKept(t.tableProps)

\* What the styles and the margins are.
LEMMA PrintableFacts ==
  ASSUME NEW t, Printable(t)
  PROVE  /\ t.style.side \in Nat /\ t.style.side <= 1
         /\ t.style.mid = 0 \/ t.style.mid = 1
         /\ t.style.bytes \in Nat /\ t.style.bytes >= 1
         /\ Margins(t) \in Nat
         /\ t.tableProps.topMargin \in Nat /\ t.tableProps.bottomMargin \in Nat
<1>1. {t.style.side, t.style.mid} \subseteq {0, 1} /\ t.style.bytes \in Nat \ {0}
  BY StylesAssumption DEF Printable
<1>2. {"leftMargin", "rightMargin", "topMargin", "bottomMargin"} \subseteq MarginNames
  BY DEF MarginNames, DefaultTableProps
<1>3. \A p \in MarginNames : t.tableProps[p] \in Nat
  BY DEF Printable, MarginsKept
<1>4. /\ t.tableProps["leftMargin"] \in Nat /\ t.tableProps["rightMargin"] \in Nat
      /\ t.tableProps["topMargin"] \in Nat /\ t.tableProps["bottomMargin"] \in Nat
  BY <1>2, <1>3
<1>5. Margins(t) \in Nat
  BY <1>4 DEF Margins
<1>6. /\ t.style.side \in Nat /\ t.style.side <= 1
      /\ t.style.mid = 0 \/ t.style.mid = 1
      /\ t.style.bytes \in Nat /\ t.style.bytes >= 1
  BY <1>1
<1> QED
  BY <1>4, <1>5, <1>6

\* The room for a line, with a name for each of its parts.
RoomFor(k, intern, margins, bytes) == (1 + k + 1 + intern + margins) * bytes
WidestOf(t) == Max({1, Columns(t)})

\* The width of the room is that of its parts.
LEMMA RoomWidth ==
  ASSUME NEW t, NEW g, g.intern \in Nat, Printable(t)
  PROVE  /\ WidestOf(t) \in Nat /\ WidestOf(t) >= 1 /\ WidestOf(t) >= Columns(t)
         /\ table_geometry(t, g).width =
              RoomFor(WidestOf(t), g.intern, Margins(t), t.style.bytes)
<1>1. WidestOf(t) \in Nat /\ WidestOf(t) >= 1 /\ WidestOf(t) >= Columns(t)
  <2>1. Columns(t) \in Nat
    BY ColumnNumbersType DEF Printable, Clean
  <2> QED
    BY <2>1, LargerOfTwo DEF WidestOf
<1> DEFINE l == t.tableProps.leftMargin
           r == t.tableProps.rightMargin
           i == g.intern
           k == WidestOf(t)
<1>2. l \in Nat /\ r \in Nat
  <2>1. \A p \in MarginNames : t.tableProps[p] \in Nat
    BY DEF Printable, MarginsKept
  <2>2. {"leftMargin", "rightMargin"} \subseteq MarginNames
    BY DEF MarginNames, DefaultTableProps
  <2> QED
    BY <2>1, <2>2
<1>3. table_geometry(t, g).width = (1 + k + 1 + i + l + r) * t.style.bytes
  BY DEF table_geometry, WidestOf
<1>4. Margins(t) = l + r
  BY DEF Margins
<1> HIDE DEF l, r, i, k
<1>5. i \in Nat
  BY DEF i
<1>6. k \in Nat
  BY <1>1 DEF k
<1>7. 1 + k + 1 + i + l + r = 1 + k + 1 + i + Margins(t)
  BY <1>2, <1>4, <1>5, <1>6
<1>8. table_geometry(t, g).width = RoomFor(k, i, Margins(t), t.style.bytes)
  BY <1>3, <1>7 DEF RoomFor
<1> QED
  BY <1>1, <1>8 DEF k, i

\* What a line of characters and borders takes is within the room.
LEMMA BordersFit ==
  ASSUME NEW y \in Int, NEW k \in Nat, NEW i \in Nat, NEW m \in Nat, NEW b \in Nat, b >= 1,
         y <= i + k + 1
  PROVE  y + y * (b - 1) + m + 1 <= RoomFor(k, i, m, b)
<1>1. y + y * (b - 1) = y * b
  OBVIOUS
<1>2. y * b <= (i + k + 1) * b
  OBVIOUS
<1>3. m <= m * b
  OBVIOUS
<1>4. (1 + k + 1 + i + m) * b = (i + k + 1) * b + m * b + b
  OBVIOUS
<1>5. y * b \in Int /\ (i + k + 1) * b \in Int /\ m * b \in Int
  OBVIOUS
<1> QED
  BY <1>1, <1>2, <1>3, <1>4, <1>5 DEF RoomFor

\* What a line of cells, escape sequences and borders takes is within it too.
LEMMA CellsFit ==
  ASSUME NEW w \in Nat, NEW tag \in Nat, NEW i \in Nat, w + tag <= i, NEW a \in Nat,
         NEW q \in Nat, NEW k \in Nat, a + q <= k + 1, NEW m \in Nat, NEW b \in Nat, b >= 1
  PROVE  w + a + q + q * (b - 1) + tag + m + 1 <= RoomFor(k, i, m, b)
<1>1. q + q * (b - 1) = q * b
  OBVIOUS
<1>2. q * b <= (k + 1 - a) * b
  OBVIOUS
<1>3. i + m + a <= (i + m + a) * b
  OBVIOUS
<1>4. (1 + k + 1 + i + m) * b = (k + 1 - a) * b + (i + m + a) * b + b
  OBVIOUS
<1>5. q * b \in Int /\ (k + 1 - a) * b \in Int /\ (i + m + a) * b \in Int
  OBVIOUS
<1> DEFINE x == q * (b - 1)
<1>6. x \in Int /\ q + x = q * b
  BY <1>1
<1> HIDE DEF x
<1>7. w + a + q + x + tag + m + 1 <= RoomFor(k, i, m, b)
  BY <1>2, <1>3, <1>4, <1>5, <1>6 DEF RoomFor
<1> QED
  BY <1>7 DEF x

\* The bytes of the line of a row.
LEMMA RowLineFits ==
  ASSUME NEW t, Printable(t), NEW r, NEW g,
         g.joined[r] \in SUBSET ColumnNumbers(t), 0 \notin g.joined[r],
         g.width \in Nat, g.tags[r] \in Nat, g.intern \in Nat, g.width + g.tags[r] <= g.intern
  PROVE  /\ RowLine(t, r, g).bytes \in Int
         /\ Columns(t) # 0 => RowLine(t, r, g).bytes <= table_geometry(t, g).width
<1> DEFINE joined == g.joined[r]
           groups == ColumnNumbers(t) \ joined
           a == Cardinality(joined)
           c == Cardinality(groups)
           s == t.style.side
           b == t.style.bytes
           d == (c - 1) * t.style.mid
           m == Margins(t)
           w == g.width
           tag == g.tags[r]
<1>1. RowLine(t, r, g).bytes = w + (a + d) + 2 * s + (d + 2 * s) * (b - 1) + tag + m + 1
  BY DEF RowLine, PrintedLine
<1>2. IsFiniteSet(ColumnNumbers(t)) /\ Cardinality(ColumnNumbers(t)) = Columns(t)
  BY ColumnFacts DEF Printable, Clean
<1>3. a \in Nat /\ c \in Nat /\ a + c = Columns(t)
  BY <1>2, TwoParts
<1>4. ASSUME Columns(t) # 0 PROVE c >= 1
  <2>1. 0 \in groups
    BY <1>4, ColumnNumbersType DEF Printable, Clean
  <2>2. IsFiniteSet(groups)
    BY <1>2, FS_Subset
  <2> HIDE DEF groups
  <2>3. c # 0
    BY <2>1, <2>2, FS_EmptySet
  <2> QED
    BY <1>3, <2>3
<1>5. s \in Nat /\ s <= 1 /\ b \in Nat /\ b >= 1 /\ m \in Nat /\ (t.style.mid = 0 \/ t.style.mid = 1)
  BY PrintableFacts
<1> HIDE DEF a, c, s, b, m, w, tag, joined, groups
<1>6. d \in Int
  BY <1>3, <1>5
<1> DEFINE q == d + 2 * s
           x == q * (b - 1)
<1>7. q \in Int /\ x \in Int
  BY <1>5, <1>6
<1>8. w \in Nat /\ tag \in Nat /\ g.intern \in Nat /\ w + tag <= g.intern
  BY DEF w, tag
<1>9. RowLine(t, r, g).bytes = w + (a + d) + 2 * s + x + tag + m + 1
  BY <1>1
<1> HIDE DEF x
<1>10. w + (a + d) + 2 * s + x + tag + m + 1 = w + a + q + x + tag + m + 1
  BY <1>3, <1>5, <1>6, <1>7, <1>8
<1>11. w + a + q + x + tag + m + 1 \in Int
  BY <1>3, <1>5, <1>7, <1>8
<1>12. ASSUME Columns(t) # 0
       PROVE  w + a + q + x + tag + m + 1 <= table_geometry(t, g).width
  <2>1. d \in Nat /\ d <= c - 1
    BY <1>3, <1>4, <1>5, <1>12
  <2> HIDE DEF d
  <2>2. q \in Nat /\ a + q <= Columns(t) + 1
    BY <1>3, <1>5, <2>1
  <2>3. /\ WidestOf(t) \in Nat /\ WidestOf(t) >= Columns(t)
        /\ table_geometry(t, g).width = RoomFor(WidestOf(t), g.intern, m, b)
    BY RoomWidth DEF m, b
  <2>4. a + q <= WidestOf(t) + 1
    BY <1>3, <2>2, <2>3
  <2> HIDE DEF q
  <2>5. w + a + q + q * (b - 1) + tag + m + 1 <= RoomFor(WidestOf(t), g.intern, m, b)
    BY <1>3, <1>5, <1>8, <2>2, <2>3, <2>4, CellsFit
  <2> QED
    BY <2>3, <2>5 DEF x
<1> QED
  BY <1>9, <1>10, <1>11, <1>12

\* The bytes of a horizontal line.
LEMMA SeparatorLineFits ==
  ASSUME NEW t, Printable(t), NEW r, NEW g, g.width \in Nat, g.intern \in Nat, g.width <= g.intern
  PROVE  /\ SeparatorLine(t, r, g).bytes \in Int
         /\ SeparatorLine(t, r, g).bytes <= table_geometry(t, g).width
         /\ SeparatorLine(t, r, g).times \in {0, 1}
<1> DEFINE between == ColumnNumbers(t) \ {0}
           inner == {c \in between : Slave(t, r - 1, c) /\ Slave(t, r, c)}
           a == Cardinality(inner)
           c == Cardinality(between \ inner)
           s == t.style.side
           b == t.style.bytes
           m == Margins(t)
           w == g.width
           k == WidestOf(t)
           i == g.intern
           x == IF Columns(t) = 0 THEN -s ELSE w + (a + c * t.style.mid)
<1>1. SeparatorLine(t, r, g).bytes = x + 2 * s + (x + 2 * s) * (b - 1) + 0 + m + 1
  BY DEF SeparatorLine, PrintedLine
<1>2. SeparatorLine(t, r, g).times \in {0, 1}
  BY DEF SeparatorLine, PrintedLine
<1>3. s \in Nat /\ s <= 1 /\ b \in Nat /\ b >= 1 /\ m \in Nat /\ (t.style.mid = 0 \/ t.style.mid = 1)
  BY PrintableFacts
<1>4. /\ k \in Nat /\ k >= 1 /\ k >= Columns(t)
      /\ table_geometry(t, g).width = RoomFor(k, i, m, b)
  BY RoomWidth
<1>5. w \in Nat /\ i \in Nat /\ w <= i
  OBVIOUS
<1>6. Columns(t) \in Nat
  BY ColumnNumbersType DEF Printable, Clean
<1>7. ASSUME Columns(t) # 0
      PROVE  a \in Nat /\ c \in Nat /\ a + c = Columns(t) - 1
  <2>1. IsFiniteSet(between) /\ Cardinality(between) = Columns(t) - 1
    BY <1>7, ColumnFacts DEF Printable, Clean
  <2>2. inner \in SUBSET between
    OBVIOUS
  <2> HIDE DEF between, inner
  <2> QED
    BY <2>1, <2>2, TwoParts
<1> HIDE DEF a, c, s, b, m, w, k, i
<1>8. x \in Int /\ x + 2 * s <= i + k + 1
  <2>1. CASE Columns(t) = 0
    BY <1>3, <1>4, <1>5, <2>1
  <2>2. CASE Columns(t) # 0
    <3> DEFINE d == c * t.style.mid
    <3>1. d \in Nat /\ d <= c
      BY <1>3, <1>7, <2>2
    <3>2. x = w + (a + d)
      BY <2>2
    <3> HIDE DEF d, x
    <3> QED
      BY <1>3, <1>4, <1>5, <1>6, <1>7, <2>2, <3>1, <3>2
  <2> QED
    BY <2>1, <2>2
<1> HIDE DEF x
<1> DEFINE y == x + 2 * s
<1>9. y \in Int /\ y <= i + k + 1
  BY <1>3, <1>8
<1>10. SeparatorLine(t, r, g).bytes = y + y * (b - 1) + 0 + m + 1
  BY <1>1
<1> HIDE DEF y
<1>11. y + y * (b - 1) + m + 1 <= RoomFor(k, i, m, b)
  BY <1>3, <1>4, <1>5, <1>9, BordersFit
<1> DEFINE z == y * (b - 1)
<1>12. z \in Int
  BY <1>3, <1>9
<1>13. SeparatorLine(t, r, g).bytes = y + z + 0 + m + 1 /\ y + z + m + 1 <= RoomFor(k, i, m, b)
  BY <1>10, <1>11
<1> HIDE DEF z
<1> QED
  BY <1>2, <1>3, <1>4, <1>9, <1>12, <1>13

\* The positions of n lines of which every second one is of the same kind.
Positions(first, n) == {2 * r + first : r \in 0 .. n - 1}

\* The first n numbers.
LEMMA UpToFinite ==
  ASSUME NEW n \in Nat
  PROVE  IsFiniteSet(0 .. n - 1) /\ Cardinality(0 .. n - 1) = n
<1> DEFINE k == n - 1
<1>1. k \in Int /\ 0 \in Int /\ (IF 0 > k THEN 0 ELSE k - 0 + 1) = n
  OBVIOUS
<1> HIDE DEF k
<1>2. IsFiniteSet(0 .. k) /\ Cardinality(0 .. k) = IF 0 > k THEN 0 ELSE k - 0 + 1
  BY <1>1, FS_Interval
<1> QED
  BY <1>1, <1>2 DEF k

\* The sum of what these lines have, if the line of a row has at most its share.
LEMMA SumOfPositions ==
  ASSUME NEW first \in Nat, NEW n \in Nat, NEW f, NEW h, NEW w \in Int,
         \A r \in 0 .. n - 1 : /\ h[r] \in Int /\ f[2 * r + first] \in Int
                               /\ f[2 * r + first] <= w * h[r]
  PROVE  /\ IsFiniteSet(Positions(first, n))
         /\ \A k \in Positions(first, n) : f[k] \in Int
         /\ SumFunctionOnSet(f, Positions(first, n)) <= w * SumFunctionOnSet(h, 0 .. n - 1)
<1> DEFINE S == 0 .. n - 1
           T == Positions(first, n)
           e == [r \in S |-> 2 * r + first]
           moved == [r \in S |-> f[2 * r + first]]
           share == [r \in S |-> w * h[r]]
<1>1. IsFiniteSet(S)
  BY UpToFinite
<1>2. e \in Bijection(S, T)
  <2>1. e \in [S -> T]
    BY DEF Positions
  <2>2. \A a, b \in S : e[a] = e[b] => a = b
    OBVIOUS
  <2>3. \A k \in T : \E r \in S : e[r] = k
    BY DEF Positions
  <2>4. DOMAIN e = S
    OBVIOUS
  <2> HIDE DEF e, S, T
  <2> QED
    BY <2>1, <2>2, <2>3, <2>4 DEF Bijection, Injection, Surjection, IsInjective
<1>3. \A r \in S : moved[r] \in Int /\ f[e[r]] = moved[r]
  OBVIOUS
<1>4. \A r \in S : share[r] \in Int /\ moved[r] <= share[r] /\ h[r] \in Int /\ share[r] = w * h[r]
  OBVIOUS
<1>5. \A k \in T : f[k] \in Int
  BY DEF Positions
<1> HIDE DEF S, T, e, moved, share
<1>6. IsFiniteSet(T)
  BY <1>1, <1>2, FS_Surjection DEF Bijection
<1>7. SumFunctionOnSet(f, T) = SumFunctionOnSet(moved, S)
  BY <1>1, <1>2, <1>3, SumMoved
<1>8. SumFunctionOnSet(moved, S) <= SumFunctionOnSet(share, S)
  BY <1>1, <1>3, <1>4, SumMore
<1>9. SumFunctionOnSet(share, S) = w * SumFunctionOnSet(h, S)
  BY <1>1, <1>4, SumScale
<1>10. SumFunctionOnSet(f, T) <= w * SumFunctionOnSet(h, S)
  BY <1>7, <1>8, <1>9
<1> QED
  BY <1>5, <1>6, <1>10 DEF S, T

\* The lines of a table, which are between two margins: the horizontal ones and
\* those of the rows in turn.
LEMMA LinesAddUp ==
  ASSUME NEW n \in Nat, NEW f, DOMAIN f = 1 .. 2 * n + 3, NEW w \in Int, NEW h,
         NEW top \in Int, f[1] = w * top, NEW bottom \in Int, f[2 * n + 3] = w * bottom,
         \A r \in 0 .. n : f[2 * r + 2] \in Int /\ f[2 * r + 2] <= w,
         \A r \in 0 .. n - 1 : /\ h[r] \in Int /\ f[2 * r + 3] \in Int
                               /\ f[2 * r + 3] <= w * h[r]
  PROVE  /\ Total(f) \in Int
         /\ Total(f) <= w * (top + bottom + (n + 1) + SumFunctionOnSet(h, 0 .. n - 1))
<1> DEFINE last == 2 * n + 3
           Evens == Positions(2, n + 1)
           Odds == Positions(3, n)
           Inside == Evens \cup Odds
           ends == {1} \cup {last}
           one == [r \in 0 .. n |-> 1]
           G(S) == SumFunctionOnSet(f, S)
           total == SumFunctionOnSet(h, 0 .. n - 1)
<1>1. last \in Nat /\ last # 1
  OBVIOUS
<1>2. /\ IsFiniteSet(Evens) /\ \A k \in Evens : f[k] \in Int
      /\ G(Evens) <= w * (n + 1)
  <2> DEFINE m == n + 1
  <2>1. m \in Nat /\ m - 1 = n /\ 2 \in Nat
    OBVIOUS
  <2>2. \A r \in 0 .. n : one[r] = 1
    OBVIOUS
  <2> HIDE DEF m, one
  <2>3. w * 1 = w
    OBVIOUS
  <2>4. \A r \in 0 .. m - 1 : /\ one[r] \in Int /\ f[2 * r + 2] \in Int
                              /\ f[2 * r + 2] <= w * one[r]
    BY <2>1, <2>2, <2>3
  <2>5. /\ IsFiniteSet(Positions(2, m)) /\ \A k \in Positions(2, m) : f[k] \in Int
        /\ G(Positions(2, m)) <= w * SumFunctionOnSet(one, 0 .. m - 1)
    BY <2>1, <2>4, SumOfPositions
  <2>6. IsFiniteSet(0 .. m - 1) /\ Cardinality(0 .. m - 1) = m
    BY <2>1, UpToFinite
  <2>7. \A r \in 0 .. m - 1 : one[r] = 1
    BY <2>1, <2>2
  <2>8. SumFunctionOnSet(one, 0 .. m - 1) = m
    BY <2>6, <2>7, SumOfOnes
  <2> HIDE DEF G
  <2>9. G(Positions(2, m)) <= w * m
    BY <2>5, <2>8
  <2> QED
    BY <2>5, <2>9 DEF m
<1>3. /\ IsFiniteSet(Odds) /\ \A k \in Odds : f[k] \in Int
      /\ G(Odds) <= w * total
  <2>1. 3 \in Nat
    OBVIOUS
  <2> QED
    BY <2>1, SumOfPositions
<1>4. Evens \cap Odds = {}
  <2>1. \A r, q \in Int : 2 * r + 2 # 2 * q + 3
    OBVIOUS
  <2> QED
    BY <2>1 DEF Positions
<1>5. Inside \cap ends = {}
  <2>1. \A r \in 0 .. n : 2 * r + 2 # 1 /\ 2 * r + 2 # last
    OBVIOUS
  <2>2. \A r \in 0 .. n - 1 : 2 * r + 3 # 1 /\ 2 * r + 3 # last
    OBVIOUS
  <2>3. 0 .. n + 1 - 1 = 0 .. n
    OBVIOUS
  <2> QED
    BY <2>1, <2>2, <2>3 DEF Positions
<1>6. DOMAIN f = Inside \cup ends
  <2>1. ASSUME NEW k \in 1 .. last PROVE k \in Inside \cup ends
    <3>1. CASE k = 1 \/ k = last
      BY <3>1
    <3>2. CASE k # 1 /\ k # last /\ k % 2 = 0
      <4> DEFINE r == (k - 2) \div 2
      <4>1. r \in 0 .. n + 1 - 1 /\ k = 2 * r + 2
        BY <3>2
      <4> QED
        BY <4>1 DEF Positions
    <3>3. CASE k # 1 /\ k # last /\ k % 2 = 1
      <4> DEFINE r == (k - 3) \div 2
      <4>1. r \in 0 .. n - 1 /\ k = 2 * r + 3
        BY <3>3
      <4> QED
        BY <4>1 DEF Positions
    <3>4. k % 2 = 0 \/ k % 2 = 1
      OBVIOUS
    <3> QED
      BY <3>1, <3>2, <3>3, <3>4
  <2>2. Inside \cup ends \subseteq 1 .. last
    <3>1. \A r \in 0 .. n + 1 - 1 : 2 * r + 2 \in 1 .. last
      OBVIOUS
    <3>2. \A r \in 0 .. n - 1 : 2 * r + 3 \in 1 .. last
      OBVIOUS
    <3> QED
      BY <1>1, <3>1, <3>2 DEF Positions
  <2> QED
    BY <2>1, <2>2
<1>7. f[1] \in Int /\ f[last] \in Int
  OBVIOUS
<1>8. f[1] = w * top /\ f[last] = w * bottom
  OBVIOUS
<1> HIDE DEF last, Evens, Odds
<1>9. IsFiniteSet({1}) /\ IsFiniteSet({last})
  BY FS_Singleton
<1>10. IsFiniteSet(ends)
  BY <1>9, FS_Union
<1>11. IsFiniteSet(Inside)
  BY <1>2, <1>3, FS_Union
<1>12. \A k \in Inside : f[k] \in Int
  BY <1>2, <1>3
<1>13. \A k \in ends : f[k] \in Int
  BY <1>7
<1> HIDE DEF G
<1>14. G(Inside) = G(Evens) + G(Odds)
  BY <1>4, <1>11, <1>12, SumParts DEF G
<1>15. G(ends) = w * top + w * bottom
  <2> DEFINE A == {1}
             B == {last}
  <2>1. A \cap B = {} /\ ends = A \cup B
    BY <1>1
  <2> HIDE DEF A, B, ends
  <2>2. G(ends) = G(A) + G(B)
    BY <1>10, <1>13, <2>1, SumParts DEF G
  <2>3. G({1}) = w * top
    BY <1>7, <1>8, SumOne DEF G
  <2>4. G({last}) = w * bottom
    BY <1>7, <1>8, SumOne DEF G
  <2> QED
    BY <2>2, <2>3, <2>4 DEF A, B
<1> HIDE DEF Inside, ends
<1>16. IsFiniteSet(DOMAIN f)
  BY <1>6, <1>10, <1>11, FS_Union
<1>17. \A k \in DOMAIN f : f[k] \in Int
  BY <1>6, <1>12, <1>13
<1>18. G(DOMAIN f) = G(Inside) + G(ends)
  BY <1>5, <1>6, <1>16, <1>17, SumParts DEF G
<1>19. Total(f) = G(DOMAIN f)
  BY TotalIsSum DEF G
<1>24. G(DOMAIN f) \in Int
  BY <1>16, <1>17, SumType DEF G
<1>20. total \in Int
  BY UpToFinite, SumType
<1>21. G(Evens) \in Int
  BY <1>2, SumType DEF G
<1>22. G(Odds) \in Int
  BY <1>3, SumType DEF G
<1> HIDE DEF total
<1>23. G(Evens) + G(Odds) + (w * top + w * bottom) <= w * (top + bottom + (n + 1) + total)
  <2>1. w * (top + bottom + (n + 1) + total) = w * top + w * bottom + w * (n + 1) + w * total
    BY <1>20
  <2> DEFINE a == w * top
             b == w * bottom
             c == w * (n + 1)
             d == w * total
  <2>2. a \in Int /\ b \in Int /\ c \in Int /\ d \in Int
    BY <1>20
  <2>3. G(Evens) <= c /\ G(Odds) <= d
    BY <1>2, <1>3
  <2>4. w * (top + bottom + (n + 1) + total) = a + b + c + d
    BY <2>1
  <2> HIDE DEF a, b, c, d
  <2>5. G(Evens) + G(Odds) + (a + b) <= a + b + c + d
    BY <1>21, <1>22, <2>2, <2>3
  <2> QED
    BY <2>4, <2>5 DEF a, b
<1> QED
  BY <1>14, <1>15, <1>18, <1>19, <1>23, <1>24 DEF total

\* Lines between two others.
LEMMA FramedLines ==
  ASSUME NEW X, NEW s \in Seq(X), NEW x \in X, NEW y \in X
  PROVE  LET v == <<x>> \o s \o <<y>>
         IN  /\ DOMAIN v = 1 .. Len(s) + 2
             /\ v[1] = x /\ v[Len(s) + 2] = y
             /\ \A k \in 1 .. Len(s) : v[k + 1] = s[k]
<1> DEFINE a == <<x>>
           b == <<y>>
           m == Len(s)
<1>1. a \in Seq(X) /\ b \in Seq(X) /\ Len(a) = 1 /\ Len(b) = 1 /\ a[1] = x /\ b[1] = y
  OBVIOUS
<1>2. m \in Nat
  OBVIOUS
<1> HIDE DEF a, b
<1>3. /\ a \o s \in Seq(X) /\ Len(a \o s) = Len(a) + Len(s)
      /\ \A i \in 1 .. Len(a) + Len(s) : (a \o s)[i] = IF i <= Len(a) THEN a[i] ELSE s[i - Len(a)]
  BY <1>1, ConcatProperties
<1> DEFINE v == a \o s
<1>4. v \in Seq(X) /\ Len(v) = m + 1
  BY <1>1, <1>3
<1>5. v[1] = x /\ \A k \in 1 .. m : v[k + 1] = s[k]
  BY <1>1, <1>3
<1> HIDE DEF v
<1>6. /\ v \o b \in Seq(X) /\ Len(v \o b) = Len(v) + Len(b)
      /\ \A i \in 1 .. Len(v) + Len(b) : (v \o b)[i] = IF i <= Len(v) THEN v[i] ELSE b[i - Len(v)]
  BY <1>1, <1>4, ConcatProperties
<1> DEFINE whole == v \o b
<1> HIDE DEF m
<1>7. DOMAIN whole = 1 .. m + 2
  <2>1. whole \in Seq(X) /\ Len(whole) = m + 2
    BY <1>1, <1>2, <1>4, <1>6
  <2> HIDE DEF whole
  <2> QED
    BY <2>1
<1>8. \A k \in 1 .. m + 1 : whole[k] = v[k]
  BY <1>1, <1>2, <1>4, <1>6
<1>9. whole[m + 2] = y
  BY <1>1, <1>2, <1>4, <1>6
<1> HIDE DEF whole
<1>10. whole[1] = x /\ \A k \in 1 .. m : whole[k + 1] = s[k]
  BY <1>2, <1>5, <1>8
<1> QED
  BY <1>7, <1>9, <1>10 DEF whole, v, a, b, m

\* A line that fits is printed so often.
LEMMA LineTimes ==
  ASSUME NEW b \in Int, NEW n \in Nat, NEW w \in Nat, n > 0 => b <= w
  PROVE  b * n \in Int /\ b * n <= w * n
<1>1. CASE n = 0
  BY <1>1
<1>2. CASE n > 0
  BY <1>2
<1> QED
  BY <1>1, <1>2

\* The first column is never joined to another.
LEMMA FirstNotJoined ==
  ASSUME NEW t, NEW r
  PROVE  0 \notin Joined(t, r)
<1>1. 0 .. 0 - 1 = {}
  OBVIOUS
<1> QED
  BY <1>1 DEF Joined

\* The lines of a table are printed into the room for it.
LEMMA LinesFit ==
  ASSUME NEW t, Clean(t), Settled(t), ~(Spans(t) /\ Coloured(t)), t.rows # <<>>,
         NEW style \in Styles
  PROVE  LET g == table_rows_and_cols_geometry(t)
             u == ft_set_border_style(t, style)
             room == table_geometry(u, g)
             lines == <<MarginLine(room, u.tableProps.topMargin)>> \o Body(u, g)
                        \o <<MarginLine(room, u.tableProps.bottomMargin)>>
         IN  ~(Total([k \in DOMAIN lines |-> lines[k].bytes * lines[k].times])
                 >= room.height * room.width + 1)
<1> DEFINE g == table_rows_and_cols_geometry(t)
           u == ft_set_border_style(t, style)
           room == table_geometry(u, g)
           w == room.width
           n == Len(t.rows)
           top == u.tableProps.topMargin
           bottom == u.tableProps.bottomMargin
           body == Body(u, g)
           lines == <<MarginLine(room, top)>> \o body \o <<MarginLine(room, bottom)>>
           f == [k \in DOMAIN lines |-> lines[k].bytes * lines[k].times]
           h == RowHeights(t)
           sum == SumFunctionOnSet(h, 0 .. n - 1)
<1>1. /\ HasRows(u, Cells) /\ u.rows = t.rows /\ u.style = style
      /\ Columns(u) = Columns(t) /\ ColumnNumbers(u) = ColumnNumbers(t)
  BY StyledTable DEF Clean
<1>2. u.tableProps = t.tableProps
  BY StyledCells DEF Clean
<1>3. Printable(u)
  <2>1. MarginsKept(t.tableProps)
    BY DEF Settled
  <2> HIDE DEF u
  <2> QED
    BY <1>1, <1>2, <2>1 DEF Printable, Clean
<1>4. n \in Nat /\ RowNumbers(t) = 0 .. n - 1 /\ n >= 1
  <2>1. t.rows \in Seq(Seq(Cells))
    BY DEF Clean, HasRows
  <2>2. n \in Nat /\ n # 0
    BY <2>1
  <2> QED
    BY <2>2 DEF RowNumbers
<1>5. ASSUME NEW r \in RowNumbers(t)
      PROVE  /\ g.width \in Nat /\ g.tags[r] \in Nat /\ g.intern \in Nat
             /\ g.width + g.tags[r] <= g.intern
  BY WidthInBuffer
<1>6. ASSUME NEW r \in RowNumbers(t)
      PROVE  /\ g.joined[r] \in SUBSET ColumnNumbers(u) /\ 0 \notin g.joined[r]
             /\ g.heights[r] = h[r] /\ h[r] \in Nat
  <2>1. g.joined[r] = Joined(t, r) /\ g.heights = h
    BY GeometryParts
  <2>2. h[r] \in Nat
    BY RowHeightType
  <2>3. Joined(t, r) \in SUBSET ColumnNumbers(t)
    BY DEF Joined
  <2> QED
    BY <1>1, <2>1, <2>2, <2>3, FirstNotJoined
<1>7. g.height = sum
  <2>1. g.height = Total(h)
    BY GeometryParts
  <2>2. DOMAIN h = RowNumbers(t)
    BY DEF RowHeights
  <2> HIDE DEF h
  <2> QED
    BY <1>4, <2>1, <2>2, TotalIsSum
<1>8. top \in Nat /\ bottom \in Nat
  BY <1>3, PrintableFacts
<1>9. room.height = 1 + Max({1, n}) + g.height + top + bottom
  BY <1>1 DEF table_geometry
<1>10. /\ DOMAIN body = 1 .. 2 * n + 1
       /\ \A k \in 1 .. 2 * n + 1 :
            body[k] = IF k % 2 = 1 THEN SeparatorLine(u, (k - 1) \div 2, g)
                                   ELSE RowLine(u, (k - 1) \div 2, g)
  BY <1>1 DEF Body
<1>11. /\ MarginLine(room, top).bytes = w /\ MarginLine(room, top).times = top
       /\ MarginLine(room, bottom).bytes = w /\ MarginLine(room, bottom).times = bottom
  BY DEF MarginLine
<1>12. ASSUME NEW r \in RowNumbers(t) PROVE RowLine(u, r, g).times = g.heights[r]
  BY DEF RowLine, PrintedLine
<1> HIDE DEF g, u, body, room, h
<1>13. 0 \in RowNumbers(t)
  BY <1>4
<1>14. g.width \in Nat /\ g.intern \in Nat /\ g.width <= g.intern
  BY <1>5, <1>13
<1>15. w \in Nat
  <2> DEFINE m == Margins(u)
             b == u.style.bytes
             k == WidestOf(u)
  <2>1. m \in Nat /\ b \in Nat
    BY <1>3, PrintableFacts
  <2>2. k \in Nat /\ w = RoomFor(k, g.intern, m, b)
    BY <1>3, <1>14, RoomWidth DEF room
  <2> HIDE DEF m, b, k, w
  <2> QED
    BY <1>14, <2>1, <2>2 DEF RoomFor
<1>16. ASSUME NEW r \in 0 .. n
       PROVE  LET line == SeparatorLine(u, r, g)
              IN  line.bytes * line.times \in Int /\ line.bytes * line.times <= w
  <2> DEFINE bytes == SeparatorLine(u, r, g).bytes
             times == SeparatorLine(u, r, g).times
  <2>1. bytes \in Int /\ bytes <= w /\ times \in {0, 1}
    BY <1>3, <1>14, SeparatorLineFits DEF room
  <2> HIDE DEF bytes, times, w
  <2>2. bytes * times \in Int /\ bytes * times <= w
    BY <1>15, <2>1
  <2> QED
    BY <2>2 DEF bytes, times
<1>17. ASSUME NEW r \in RowNumbers(t)
       PROVE  LET line == RowLine(u, r, g)
              IN  line.bytes * line.times \in Int /\ line.bytes * line.times <= w * h[r]
  <2> DEFINE bytes == RowLine(u, r, g).bytes
             times == RowLine(u, r, g).times
  <2>1. times = h[r] /\ h[r] \in Nat
    BY <1>6, <1>12
  <2>2. bytes \in Int /\ (Columns(u) # 0 => bytes <= w)
    BY <1>3, <1>5, <1>6, RowLineFits DEF room
  <2>3. Columns(u) = 0 => h[r] = 0
    BY <1>1, NoColumnsNoRows DEF h
  <2> HIDE DEF bytes, times, w
  <2>5. bytes * times \in Int /\ bytes * times <= w * h[r]
    BY <1>15, <2>1, <2>2, <2>3, LineTimes
  <2> QED
    BY <2>5 DEF bytes, times
<1>18. /\ DOMAIN lines = 1 .. 2 * n + 3
       /\ lines[1] = MarginLine(room, top) /\ lines[2 * n + 3] = MarginLine(room, bottom)
       /\ \A k \in 1 .. 2 * n + 1 : lines[k + 1] = body[k]
  <2> DEFINE x == MarginLine(room, top)
             y == MarginLine(room, bottom)
             X == {x, y} \cup {body[k] : k \in 1 .. 2 * n + 1}
             m == 2 * n + 1
  <2>1. m \in Nat /\ m = 2 * n + 1 /\ m + 2 = 2 * n + 3
    BY <1>4
  <2>2. body = [k \in 1 .. m |-> body[k]]
    BY <1>10 DEF body, Body
  <2> HIDE DEF x, y, m, n
  <2>3. body \in [1 .. m -> X]
    BY <2>1, <2>2
  <2>4. x \in X /\ y \in X
    OBVIOUS
  <2> HIDE DEF X
  <2>5. body \in Seq(X) /\ Len(body) = m
    BY <2>1, <2>3
  <2>6. LET v == <<x>> \o body \o <<y>>
        IN  /\ DOMAIN v = 1 .. Len(body) + 2
            /\ v[1] = x /\ v[Len(body) + 2] = y
            /\ \A k \in 1 .. Len(body) : v[k + 1] = body[k]
    BY <2>4, <2>5, FramedLines
  <2> QED
    BY <2>1, <2>5, <2>6 DEF x, y
<1> HIDE DEF lines
<1>19. DOMAIN f = 1 .. 2 * n + 3 /\ \A k \in 1 .. 2 * n + 3 : f[k] = lines[k].bytes * lines[k].times
  BY <1>18
<1> HIDE DEF f
<1>20. f[1] = w * top /\ f[2 * n + 3] = w * bottom
  <2>1. 1 \in 1 .. 2 * n + 3 /\ 2 * n + 3 \in 1 .. 2 * n + 3
    BY <1>4
  <2> HIDE DEF w, top, bottom, n
  <2> QED
    BY <1>11, <1>18, <1>19, <2>1
<1>21. ASSUME NEW r \in 0 .. n PROVE f[2 * r + 2] \in Int /\ f[2 * r + 2] <= w
  <2> DEFINE k == 2 * r + 1
  <2>1. k \in 1 .. 2 * n + 1 /\ k + 1 \in 1 .. 2 * n + 3 /\ k % 2 = 1 /\ (k - 1) \div 2 = r /\ k + 1 = 2 * r + 2
    BY <1>4
  <2> HIDE DEF k, n, w
  <2>2. f[2 * r + 2] = SeparatorLine(u, r, g).bytes * SeparatorLine(u, r, g).times
    BY <1>10, <1>18, <1>19, <2>1
  <2> QED
    BY <1>16, <2>2
<1>22. ASSUME NEW r \in 0 .. n - 1
       PROVE  h[r] \in Int /\ f[2 * r + 3] \in Int /\ f[2 * r + 3] <= w * h[r]
  <2> DEFINE k == 2 * r + 2
  <2>1. k \in 1 .. 2 * n + 1 /\ k + 1 \in 1 .. 2 * n + 3 /\ k % 2 = 0 /\ (k - 1) \div 2 = r /\ k + 1 = 2 * r + 3
    BY <1>4
  <2>2. r \in RowNumbers(t)
    BY <1>4
  <2> HIDE DEF k, n, w
  <2>3. f[2 * r + 3] = RowLine(u, r, g).bytes * RowLine(u, r, g).times
    BY <1>10, <1>18, <1>19, <2>1
  <2>4. h[r] \in Nat
    BY <1>6, <2>2
  <2> QED
    BY <1>17, <2>2, <2>3, <2>4
<1>23. top \in Int /\ bottom \in Int /\ w \in Int /\ n \in Nat
  BY <1>4, <1>8, <1>15
<1> HIDE DEF top, bottom, w, n
<1>24. Total(f) \in Int /\ Total(f) <= w * (top + bottom + (n + 1) + sum)
  BY <1>19, <1>20, <1>21, <1>22, <1>23, LinesAddUp
<1>25. sum \in Nat
  <2>1. IsFiniteSet(0 .. n - 1)
    BY <1>23, UpToFinite
  <2>2. \A r \in 0 .. n - 1 : h[r] \in Nat
    BY <1>4, <1>6 DEF n
  <2> QED
    BY <2>1, <2>2, SumType
<1> HIDE DEF sum
<1>26. room.height \in Int /\ top + bottom + (n + 1) + sum <= room.height
  <2>1. Max({1, n}) \in Nat /\ n <= Max({1, n})
    BY <1>23, LargerOfTwo
  <2>2. room.height = 1 + Max({1, n}) + sum + top + bottom
    BY <1>7, <1>9
  <2> QED
    BY <1>23, <1>25, <2>1, <2>2
<1>27. w * (top + bottom + (n + 1) + sum) <= room.height * w
  <2> DEFINE lower == top + bottom + (n + 1) + sum
             higher == room.height
  <2>1. lower \in Int /\ higher \in Int /\ lower <= higher
    BY <1>23, <1>25, <1>26
  <2> HIDE DEF lower, higher
  <2>2. w * lower <= higher * w
    BY <1>15, <2>1
  <2> QED
    BY <2>2 DEF lower, higher
<1> DEFINE held == room.height * w
           used == w * (top + bottom + (n + 1) + sum)
<1>28. held \in Int /\ used \in Int
  BY <1>23, <1>25, <1>26
<1> HIDE DEF used
<1>29. ~(Total(f) >= held + 1)
  <2> HIDE DEF held
  <2> QED
    BY <1>24, <1>27, <1>28 DEF used, held
<1> QED
  BY <1>29 DEF f, lines, body, room, u, g, w, top, bottom

\* Every table is printed but those of which the code does not promise it.
LEMMA TableIsPrinted ==
  ASSUME NEW t, Clean(t), Settled(t), ~OrphanSlaves(t), ~(Spans(t) /\ Coloured(t)),
         NEW style \in Styles
  PROVE  ~ft_to_string(ft_set_border_style(t, style), table_rows_and_cols_geometry(t)).null
<1> DEFINE g == table_rows_and_cols_geometry(t)
           u == ft_set_border_style(t, style)
           room == table_geometry(u, g)
           lines == <<MarginLine(room, u.tableProps.topMargin)>> \o Body(u, g)
                      \o <<MarginLine(room, u.tableProps.bottomMargin)>>
           bytes == Total([k \in DOMAIN lines |-> lines[k].bytes * lines[k].times])
           narrow == \E r \in RowNumbers(u) : g.heights[r] > 0 /\ TooNarrow(u, r, g)
           full == bytes >= room.height * room.width + 1
<1>1. u.rows = t.rows
  BY StyledTable DEF Clean
<1>2. RowNumbers(u) = RowNumbers(t)
  BY StyledCells DEF Clean
<1>3. ft_to_string(u, g) =
        IF u.rows = <<>> THEN Printed(<<>>) ELSE IF narrow \/ full THEN Null ELSE Printed(lines)
  BY DEF ft_to_string
<1>4. ~narrow
  BY <1>2, NotTooNarrow
<1>5. t.rows # <<>> => ~full
  BY LinesFit
<1>6. ~Printed(<<>>).null /\ ~Printed(lines).null
  BY DEF Printed
<1> HIDE DEF narrow, full, lines, bytes, room, u, g
<1>7. ~ft_to_string(u, g).null
  BY <1>1, <1>3, <1>4, <1>5, <1>6
<1> QED
  BY <1>7 DEF u, g

\* Every table can be printed in every style: the room measured beforehand is
\* enough, and no cell is wider than its columns (ft_to_string_impl and
\* table_geometry never disagree), unless it has holes, slaves without a
\* master, or colours next to spans.
THEOREM TablesPrinted == Spec => []TablesArePrinted
<1>1. ASSUME TablesTyped, SettingsInv PROVE TablesArePrinted
  <2>1. CASE Holes(table) \/ OrphanSlaves(table) \/ (Spans(table) /\ Coloured(table))
    BY <2>1 DEF TablesArePrinted
  <2>2. CASE ~Holes(table) /\ ~OrphanSlaves(table) /\ ~(Spans(table) /\ Coloured(table))
    <3>1. Clean(table)
      BY <1>1, <2>2, TypedAndWhole DEF TablesTyped
    <3>2. Settled(table)
      BY <1>1 DEF SettingsInv
    <3>3. \A style \in Styles :
            ~ft_to_string(ft_set_border_style(table, style), table_rows_and_cols_geometry(table)).null
      BY <2>2, <3>1, <3>2, TableIsPrinted
    <3> QED
      BY <3>3 DEF TablesArePrinted
  <2> QED
    BY <2>1, <2>2
<1> QED
  BY <1>1, NoSkipNoHoles, MeasuresNeverNegative, PTL
===============================================================================
