------------------------------ MODULE FortTable ------------------------------
(***************************************************************************)
(* A libfort table and the calls that fill it (fort.c), made in any order  *)
(* by the program that owns it: the client makes one table per listing,    *)
(* writes a header and a row per record and prints it.                     *)
(*                                                                         *)
(* A text is the sequence of the widths of its lines, <<>> the empty one.  *)
(* A cell is common, or the master or a slave of a span.  An operator      *)
(* named after a function of fort.h returns the table after the call.      *)
(***************************************************************************)
EXTENDS FortVector, FortProperties, FortStyles

CONSTANTS Texts,        \* what is written into a cell
          Fields,       \* one-line texts printed through a format
          MaxRows, MaxCols,         \* bounds of the positions that are used
          MaxCalls,     \* bound of the calls made on one table
          SetProps,     \* the properties that are set: <<place, p, value>>
          SetTableProps             \* and those of the table: <<p, value>>

Cells == [type : {"common", "master", "slave"}, text : Seq(Nat)]

ASSUME FortAssumption ==
  /\ {MaxRows, MaxCols, MaxCalls} \subseteq Nat
  /\ Texts \subseteq Seq(Nat)
  /\ Fields \subseteq {<<n>> : n \in 1..9}
  /\ Hole \notin Cells

(* A measure and a margin are set to an int, the strategy to one of the two. *)
ASSUME SettingsAssumption ==
  /\ \A s \in SetProps : s[2] \in Measures => s[3] \in Int
  /\ \A s \in SetTableProps :
       \/ s[1] = "strategy" /\ s[2] \in {"insert", "replace"}
       \/ s[1] \in DOMAIN DefaultTableProps \ {"strategy"} /\ s[2] \in Int

VARIABLES table,        \* the table
          calls,        \* how many calls were made
          skipped,      \* a call put cells past the end of a row it does not pad
          lost          \* a call does not return
fortVars == <<table, calls, skipped, lost>>

create_cell == [type |-> "common", text |-> <<>>]

ft_create_table ==
  [rows |-> <<>>, separators |-> <<>>, cellProps |-> NoProps,
   tableProps |-> DefaultTableProps, style |-> FT_BASIC_STYLE, curRow |-> 0, curCol |-> 0]

ft_set_border_style(t, style) == [t EXCEPT !.style = style]

columns_in_row(row) == Len(row)
RowOrEmpty(t, r) == IF r < Len(t.rows) THEN vector_at(t.rows, r) ELSE <<>>

(* The table with `row` in place of row r; the rows before it are created. *)
WithRow(t, r, row) ==
  [t EXCEPT !.rows = [PushedUpTo(t.rows, r + 1, <<>>) EXCEPT ![r + 1] = row]]

----------------------------------------------------------------------------
ft_write(t, text) ==
  LET row == RowOrEmpty(t, t.curRow)
      placed == IF t.tableProps.strategy = "insert"
                  THEN vector_insert(row, create_cell, t.curCol)
                  ELSE PushedUpTo(row, t.curCol + 1, create_cell)
  IN  [WithRow(t, t.curRow, [placed EXCEPT ![t.curCol + 1].text = text])
         EXCEPT !.curCol = @ + 1]

(* Mutant: the rest of the row is cut off and not inserted. *)
LnDropsTail(t) ==
  LET row == RowOrEmpty(t, t.curRow)
      split == t.tableProps.strategy = "insert" /\ t.curCol < columns_in_row(row)
  IN  [t EXCEPT !.rows = IF split THEN WithRow(t, t.curRow, SplitHead(row, t.curCol)).rows
                                  ELSE @,
                !.curCol = 0, !.curRow = @ + 1]

(* The next line.  When cells are inserted, the rest of the row moves to a
   row of its own. *)
ft_ln(t) ==
  LET row == RowOrEmpty(t, t.curRow)
      split == t.tableProps.strategy = "insert" /\ t.curCol < columns_in_row(row)
      divided == WithRow(t, t.curRow, SplitHead(row, t.curCol)).rows
      rows == IF split
                THEN vector_insert(divided, SplitTail(row, t.curCol), t.curRow + 1)
                ELSE t.rows
  IN  [t EXCEPT !.rows = rows, !.curCol = 0, !.curRow = @ + 1]

ft_nwrite(t, texts) == FoldLeft(ft_write, t, texts)
ft_nwrite_ln(t, texts) == ft_ln(ft_nwrite(t, texts))

(* ft_table_write: a line end between the rows, none after the last one. *)
WriteOnNextLine(t, texts) == ft_nwrite(ft_ln(t), texts)
ft_table_write(t, grid) == FoldLeft(WriteOnNextLine, ft_nwrite(t, grid[1]), Tail(grid))

(* The cells of a formatted line: one per field when the format has as many
   columns as the result, one cell for all of it, column separators included,
   when the format has one column, and otherwise none. *)
NoRow == <<>>
create_row_from_string(texts) == [i \in DOMAIN texts |-> [create_cell EXCEPT !.text = texts[i]]]
create_row_from_fmt_string(columns, fields) ==
  LET whole == <<Len(fields) - 1 + SumFunction([i \in DOMAIN fields |-> fields[i][1]])>>
  IN  CASE Len(fields) = columns -> create_row_from_string(fields)
        [] columns = 1           -> create_row_from_string(<<whole>>)
        [] OTHER                 -> NoRow

(* Mutant: the row is lengthened, but no cells are created. *)
InsertedAfterGap(row, cells, pos) ==
  LET padded == PushedUpTo(row, pos, Hole)
  IN  SplitHead(padded, pos) \o cells \o SplitTail(padded, pos)

InsertedCells(row, cells, pos) ==
  LET padded == PushedUpTo(row, pos, create_cell)
  IN  SplitHead(padded, pos) \o cells \o SplitTail(padded, pos)

ft_row_printf(t, cells) ==
  LET row == RowOrEmpty(t, t.curRow)
      new == IF t.tableProps.strategy = "insert"
               THEN InsertedCells(row, cells, t.curCol)
               ELSE vector_swap(row, cells, t.curCol)
  IN  IF cells = NoRow THEN t
      ELSE [WithRow(t, t.curRow, new) EXCEPT !.curCol = @ + Len(cells)]

ft_printf(t, columns, fields) ==
  ft_row_printf(t, create_row_from_fmt_string(columns, fields))

ft_printf_ln(t, columns, fields) ==
  IF create_row_from_fmt_string(columns, fields) = NoRow THEN t
                                                 ELSE ft_ln(ft_printf(t, columns, fields))

ft_add_separator(t) ==
  [t EXCEPT !.separators =
     [PushedUpTo(@, t.curRow + 1, FALSE) EXCEPT ![t.curRow + 1] = TRUE]]

row_set_cell_span(cells, c, span) ==
  LET row == PushedUpTo(cells, c + span, create_cell)
  IN  [i \in DOMAIN row |-> CASE i = c + 1              -> [row[i] EXCEPT !.type = "master"]
                              [] i \in c + 2..c + span -> [row[i] EXCEPT !.type = "slave"]
                              [] OTHER                  -> row[i]]

ft_set_cell_span(t, r, c, span) ==
  IF span < 2 THEN t ELSE WithRow(t, r, row_set_cell_span(RowOrEmpty(t, r), c, span))

ft_row_erase_range(row, left, right) == Erased(row, left..right)

(* Erases the cells of a rectangle, and the rows it leaves empty with the
   separators above them.  The counts of cells and of rows to erase wrap
   around when the rectangle begins past the end of a row or of the table:
   then the call crashes or never ends. *)
EraseIsLost(t, top, left, bottom) ==
  LET touched == {r \in top..bottom : r < Len(t.rows)}
  IN  \/ t.rows = <<>>
      \/ top > Len(t.rows)
      \/ \E r \in touched : vector_at(t.rows, r) # <<>> /\ left > Len(vector_at(t.rows, r))

ft_erase_range(t, top, left, bottom, right) ==
  LET cut  == [i \in DOMAIN t.rows |->
                 IF i - 1 \in top..bottom THEN ft_row_erase_range(t.rows[i], left, right)
                                    ELSE t.rows[i]]
      gone == {r \in top..bottom : r < Len(t.rows) /\ vector_at(cut, r) = <<>>}
  IN  [t EXCEPT !.rows = Erased(cut, gone), !.separators = Erased(@, gone)]

----------------------------------------------------------------------------
Holes(t) == \E i \in DOMAIN t.rows : \E j \in DOMAIN t.rows[i] : t.rows[i][j] = Hole

Init == /\ table = ft_create_table
        /\ calls = 0 /\ skipped = FALSE /\ lost = FALSE

(* The owner may call anything, until a call is lost or the table has holes,
   after which any use of it is undefined. *)
Call == /\ calls < MaxCalls /\ ~lost /\ ~Holes(table)
        /\ calls' = calls + 1

PastTheEnd == table.curCol > columns_in_row(RowOrEmpty(table, table.curRow))
InBounds == table.curRow < MaxRows /\ table.curCol < MaxCols

Write == /\ Call /\ InBounds
         /\ \E text \in Texts : table' = ft_write(table, text)
         /\ skipped' = (skipped \/ (table.tableProps.strategy = "insert" /\ PastTheEnd))
         /\ UNCHANGED lost

WriteTable == /\ Call /\ table.curRow + 1 < MaxRows /\ table.curCol < MaxCols
              /\ \E a, b \in Texts : table' = ft_table_write(table, <<<<a>>, <<b>>>>)
              /\ skipped' = (skipped \/ (table.tableProps.strategy = "insert" /\ PastTheEnd))
              /\ UNCHANGED lost

WriteLn == /\ Call /\ InBounds
           /\ \E a, b \in Texts : table' = ft_nwrite_ln(table, <<a, b>>)
           /\ skipped' = (skipped \/ (table.tableProps.strategy = "insert" /\ PastTheEnd))
           /\ UNCHANGED lost

Printf ==
  /\ Call /\ InBounds
  /\ \E columns \in 1..2, f, g \in Fields, n \in 1..2 :
       LET fields == SubSeq(<<f, g>>, 1, n)
           some   == create_row_from_fmt_string(columns, fields) # NoRow
       IN  /\ table' \in {ft_printf(table, columns, fields),
                          ft_printf_ln(table, columns, fields)}
           /\ skipped' = \/ skipped
                         \/ some /\ table.tableProps.strategy # "insert" /\ PastTheEnd
  /\ UNCHANGED lost

Ln == Call /\ table' = ft_ln(table) /\ UNCHANGED <<skipped, lost>>

SetCurCell ==
  /\ Call
  /\ \E r \in 0..MaxRows - 1, c \in 0..MaxCols - 1 :
       table' = [table EXCEPT !.curRow = r, !.curCol = c]
  /\ UNCHANGED <<skipped, lost>>

AddSeparator ==
  Call /\ table.curRow <= MaxRows /\ table' = ft_add_separator(table) /\ UNCHANGED <<skipped, lost>>

SetCellSpan ==
  /\ Call
  /\ \E r \in 0..MaxRows - 1, c \in 0..MaxCols - 1, span \in 1..MaxCols :
       c + span <= MaxCols /\ table' = ft_set_cell_span(table, r, c, span)
  /\ UNCHANGED <<skipped, lost>>

SetCellProp ==
  /\ Call
  /\ \E s \in SetProps :
       table' = [table EXCEPT !.cellProps = set_cell_property(@, s[1], s[2], s[3])]
  /\ UNCHANGED <<skipped, lost>>

SetTableProp ==
  /\ Call
  /\ \E s \in SetTableProps :
       table' = [table EXCEPT !.tableProps = set_entire_table_property(@, s[1], s[2])]
  /\ UNCHANGED <<skipped, lost>>

EraseRange ==
  /\ Call
  /\ \E top, bottom \in 0..MaxRows - 1, left, right \in 0..MaxCols - 1 :
       /\ top <= bottom /\ left <= right
       /\ lost' = EraseIsLost(table, top, left, bottom)
       /\ table' = IF lost' THEN table
                            ELSE ft_erase_range(table, top, left, bottom, right)
  /\ UNCHANGED skipped

Next == \/ Write \/ WriteTable \/ WriteLn \/ Printf \/ Ln \/ SetCurCell \/ AddSeparator
        \/ SetCellSpan \/ SetCellProp \/ SetTableProp \/ EraseRange

Spec == Init /\ [][Next]_fortVars

----------------------------------------------------------------------------
(* Cells that were never created come only from calls that put cells past
   the end of a row: a write when cells are inserted, a formatted line when
   they are replaced.  A listing does neither, whatever its rows hold
   (vector_insert and vector_swap leave the gap as it is, insert_row and
   get_cell_impl fill it). *)
HolesComeFromSkips == Holes(table) => skipped

TextOf(cell) == IF cell = Hole THEN <<>> ELSE cell.text
TextAt(t, r, c) == LET row == RowOrEmpty(t, r)
                   IN  IF c < columns_in_row(row) THEN TextOf(vector_at(row, c)) ELSE <<>>

(* The texts of a table in the order they are read, the empty ones left out. *)
TextItem(cell) == IF TextOf(cell) = <<>> THEN <<>> ELSE <<TextOf(cell)>>
RowReading(row) == FlattenSeq([j \in DOMAIN row |-> TextItem(row[j])])
Reading(t) == FlattenSeq([i \in DOMAIN t.rows |-> RowReading(t.rows[i])])

(* Only an erasure takes away text that stands before the cursor, and when
   cells are inserted nothing but an erasure takes away any text: the texts
   of the table, read in order, are still there in that order, also after a
   line end that divides a row (ft_ln, split_cur_row). *)
TextStays ==
  [][\/ table'.rows = table.rows
     \/ EraseRange
     \/ /\ \A r \in 0..table.curRow, c \in 0..2 * MaxCols :
             (r < table.curRow \/ c < table.curCol) => TextAt(table', r, c) = TextAt(table, r, c)
        /\ table.tableProps.strategy = "insert" =>
             LET old == Reading(table)
                 new == Reading(table')
             IN  \/ new = old
                 \/ \E more \in SUBSET DOMAIN new : old = Erased(new, {k - 1 : k \in more})
    ]_fortVars
=============================================================================
