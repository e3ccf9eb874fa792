----------------------------- MODULE FortLayout -----------------------------
(***************************************************************************)
(* How a libfort table is measured and printed (fort.c: ft_to_string_impl, *)
(* "table.c", "row.c", "cell.c" and "string_buffer.c").  A printed line is *)
(* its visible width, its length in bytes and how many times it is printed *)
(* (the lines of a row are as long as each other); a character of a text   *)
(* is one byte and one column wide.                                        *)
(***************************************************************************)
EXTENDS FortTable

CONSTANT Styles   \* the border styles the table may be printed in

ASSUME StylesAssumption ==
  \A s \in Styles : {s.side, s.mid} \subseteq {0, 1} /\ s.bytes \in Nat \ {0}

MaxOf(S) == Max(S \cup {0})
Total(f) == FoldFunction(+, 0, f)

Prop(t, r, c, p) == get_cell_property_hierarchically(t.cellProps, r, c, p)
RowNumbers(t) == 0..Len(t.rows) - 1
Columns(t) == MaxOf({Len(t.rows[i]) : i \in DOMAIN t.rows})
ColumnNumbers(t) == 0..Columns(t) - 1
HasCell(t, r, c) == c < columns_in_row(RowOrEmpty(t, r))
Cell(t, r, c) == vector_at(vector_at(t.rows, r), c)
IsType(t, r, c, type) == HasCell(t, r, c) /\ Cell(t, r, c).type = type

buffer_text_visible_width(text) == MaxOf({text[i] : i \in DOMAIN text})
buffer_text_visible_height(text) == Len(text)

cell_vis_width(t, r, c) ==
  Max({Prop(t, r, c, "leftPadding") + Prop(t, r, c, "rightPadding")
         + buffer_text_visible_width(Cell(t, r, c).text),
       Prop(t, r, c, "minWidth")})

(* The lines of a cell; an empty text and a missing cell have a height too. *)
Height(t, r, c) ==
  LET text == IF HasCell(t, r, c) THEN Cell(t, r, c).text ELSE <<>>
      lines == IF text = <<>> THEN Prop(t, r, c, "emptyStrHeight")
                              ELSE buffer_text_visible_height(text)
  IN  IF ~HasCell(t, r, c) /\ lines = 0
        THEN 0 ELSE lines + Prop(t, r, c, "topPadding") + Prop(t, r, c, "bottomPadding")

RowHeights(t) == [r \in RowNumbers(t) |-> MaxOf({Height(t, r, c) : c \in ColumnNumbers(t)})]

(* The number of cells printed as one from column c on, and the columns that
   are printed as part of an earlier one. *)
group_cell_number(t, r, c) ==
  IF ~IsType(t, r, c, "master") THEN 1
  ELSE Max({n \in 1..Columns(t) - c : \A k \in 1..n - 1 : IsType(t, r, c + k, "slave")})

Joined(t, r) ==
  {c \in ColumnNumbers(t) : /\ IsType(t, r, c, "slave")
                            /\ \E m \in 0..c - 1 : c < m + group_cell_number(t, r, m)}

(* FORT_COL_SEPARATOR_LENGTH columns of the borders between them included *)
GroupWidth(widths, first, n) == Total([c \in first..first + n - 1 |-> widths[c]]) + n - 1

(* Columns of a group that is too narrow get a column in turn until it fits. *)
Widened(widths, first, n, hint) ==
  LET missing == hint - GroupWidth(widths, first, n)
  IN  IF missing <= 0 THEN widths
      ELSE [c \in DOMAIN widths |->
              IF c \in first..first + n - 1
                THEN widths[c] + (missing + n - 1 - (c - first)) \div n ELSE widths[c]]

Invisible(t, r, c) == cell_invis_codes_width(t.cellProps, r, c)

(* Mutant: the escape sequences are not counted. *)
ColumnWidthsVisible(t, intern) ==
  [c \in ColumnNumbers(t) |->
     MaxOf({cell_vis_width(t, r, c) : r \in {q \in RowNumbers(t) : IsType(t, q, c, "common")}})]

ColumnWidths(t, intern) ==
  LET with(c) == {r \in RowNumbers(t) : HasCell(t, r, c)}
  IN  [c \in ColumnNumbers(t) |->
         MaxOf({cell_vis_width(t, r, c) : r \in {q \in with(c) : IsType(t, q, c, "common")}})
         + IF intern THEN MaxOf({Invisible(t, r, c) : r \in with(c)}) ELSE 0]

(* The master of a span widens the columns it spans. *)
WidenedBy(t, intern, widths, r, c) ==
  LET hint == cell_vis_width(t, r, c) + IF intern THEN Invisible(t, r, c) ELSE 0
  IN  IF IsType(t, r, c, "master")
        THEN Widened(widths, c, group_cell_number(t, r, c), hint) ELSE widths

(* The masters in one column do, from the first row on. *)
WidenedFrom(t, intern, widths, c) ==
  LET after[n \in 0..Len(t.rows)] ==
        IF n = 0 THEN widths ELSE WidenedBy(t, intern, after[n - 1], n - 1, c)
  IN  after[Len(t.rows)]

(* The widths of the columns, as they are seen or (intern) as they are kept
   in the buffer with the escape sequences. *)
Widths(t, intern) ==
  LET after[n \in 0..Columns(t)] ==
        IF n = 0 THEN ColumnWidths(t, intern)
                 ELSE WidenedFrom(t, intern, after[n - 1], n - 1)
  IN  after[Columns(t)]

(* The columns and rows, measured in both ways, and their sums; the columns of
   each row that are joined to another, and the escape sequences of a line of
   it.  g stands for all of it below. *)
table_rows_and_cols_geometry(t) ==
  LET joined == [r \in RowNumbers(t) |-> Joined(t, r)]
      widths == Widths(t, FALSE)
  IN  [widths |-> widths, width |-> Total(widths), intern |-> Total(Widths(t, TRUE)),
       heights |-> RowHeights(t), height |-> Total(RowHeights(t)), joined |-> joined,
       tags |-> [r \in RowNumbers(t) |->
                   Total([c \in {d \in ColumnNumbers(t) \ joined[r] : HasCell(t, r, d)} |->
                            Invisible(t, r, c)])]]

----------------------------------------------------------------------------
(* The room for the printed table. *)
table_geometry(t, g) ==
  [height |-> 1 + Max({1, Len(t.rows)}) + g.height
                + t.tableProps.topMargin + t.tableProps.bottomMargin,
   width  |-> (1 + Max({1, Columns(t)}) + 1 + g.intern
                + t.tableProps.leftMargin + t.tableProps.rightMargin) * t.style.bytes]

Margins(t) == t.tableProps.leftMargin + t.tableProps.rightMargin

(* A line that has `visible` columns without the side borders, of which
   `borders` are border characters. *)
PrintedLine(t, visible, borders, invisible, n) ==
  LET width == visible + 2 * t.style.side
  IN  [width |-> width + Margins(t),
       bytes |-> width + (borders + 2 * t.style.side) * (t.style.bytes - 1)
                 + invisible + Margins(t) + 1,
       times |-> n]

(* The cells on both sides of a horizontal line that are slaves, those beyond
   the table included, have a character of the line between them. *)
Slave(t, r, c) == r \notin RowNumbers(t) \/ IsType(t, r, c, "slave")

(* The horizontal line above row r, or below the last one: nothing when all
   of its characters are unprintable. *)
SeparatorLine(t, r, g) ==
  LET header == \E q \in {r - 1, r} \cap RowNumbers(t) :
                  Prop(t, q, AnyOne, "rowType") = "header"
      place  == IF r = 0 THEN "top" ELSE IF r = Len(t.rows) THEN "bottom" ELSE "inside"
      shown  == IF r < Len(t.separators) /\ vector_at(t.separators, r) THEN "separator" ELSE place
      between == ColumnNumbers(t) \ {0}
      inner  == {c \in between : Slave(t, r - 1, c) /\ Slave(t, r, c)}
      width  == IF Columns(t) = 0 THEN -t.style.side   \* there is no left corner
                ELSE g.width + (Cardinality(inner)
                                  + Cardinality(between \ inner) * t.style.mid)
      n == IF shown = "separator" \/ <<shown, header>> \in t.style.lines THEN 1 ELSE 0
  IN  PrintedLine(t, width, width, 0, n)

(* A cell is narrower than its text: cell_printf refuses to print it.  A
   slave that lost its master is not part of the width of its column. *)
TooNarrow(t, r, g) ==
  \E c \in 0..columns_in_row(vector_at(t.rows, r)) - 1 :
    /\ c \notin g.joined[r]
    /\ cell_vis_width(t, r, c) > GroupWidth(g.widths, c, group_cell_number(t, r, c))

(* Mutant: nothing is printed in place of the cells a row does not have. *)
RowLineOfCells(t, r, g) ==
  LET groups  == {c \in ColumnNumbers(t) \ g.joined[r] : HasCell(t, r, c)}
      borders == (Cardinality(groups) - 1) * t.style.mid
      width   == Total([c \in {d \in ColumnNumbers(t) : HasCell(t, r, d)} |-> g.widths[c]])
                   + (Cardinality(g.joined[r]) + borders)
  IN  PrintedLine(t, width, borders, g.tags[r], g.heights[r])

RowLine(t, r, g) ==
  LET groups  == ColumnNumbers(t) \ g.joined[r]
      borders == (Cardinality(groups) - 1) * t.style.mid
      width   == g.width + (Cardinality(g.joined[r]) + borders)
  IN  PrintedLine(t, width, borders, g.tags[r], g.heights[r])

MarginLine(room, n) == [width |-> room.width - 1, bytes |-> room.width, times |-> n]

(* The lines between the margins: above each row its separator. *)
Body(t, g) ==
  [k \in 1..2 * Len(t.rows) + 1 |->
     LET r == (k - 1) \div 2
     IN  IF k % 2 = 1 THEN SeparatorLine(t, r, g) ELSE RowLine(t, r, g)]

Printed(lines) == [null |-> FALSE, lines |-> lines]
Null == [null |-> TRUE, lines |-> <<>>]

ft_to_string(t, g) ==
  LET room == table_geometry(t, g)
      lines == <<MarginLine(room, t.tableProps.topMargin)>> \o Body(t, g)
                 \o <<MarginLine(room, t.tableProps.bottomMargin)>>
      bytes == Total([k \in DOMAIN lines |-> lines[k].bytes * lines[k].times])
  IN  IF t.rows = <<>> THEN Printed(<<>>)
      ELSE IF \/ \E r \in RowNumbers(t) : g.heights[r] > 0 /\ TooNarrow(t, r, g)
              \/ bytes >= room.height * room.width + 1
        THEN Null ELSE Printed(lines)

----------------------------------------------------------------------------
Spans(t) == \E r \in RowNumbers(t), c \in ColumnNumbers(t) :
              HasCell(t, r, c) /\ ~IsType(t, r, c, "common")
OrphanSlaves(t) == \E r \in RowNumbers(t), c \in ColumnNumbers(t) :
                     IsType(t, r, c, "slave") /\ c \notin Joined(t, r)
Coloured(t) == \E r \in RowNumbers(t), c \in ColumnNumbers(t) : Invisible(t, r, c) > 0

(* A table can be printed in any style: the room measured beforehand is enough
   for the borders, the paddings, the escape sequences and the margins, and no
   cell is wider than its column.  What the code does not promise is left out:
   slaves whose master was erased or replaced, and colours in a table
   with spans, whose columns are widened in two different ways. *)
TablesArePrinted ==
  ~Holes(table) /\ ~OrphanSlaves(table) /\ ~(Spans(table) /\ Coloured(table))
    => LET g == table_rows_and_cols_geometry(table)
       IN  \A style \in Styles : ~ft_to_string(ft_set_border_style(table, style), g).null

(* All the lines of a table are equally wide, whatever its rows are short
   of, its texts' lines, its spans, minimum widths and paddings: the borders
   of the columns stand one below the other.  A style without borders
   between the columns cannot keep the place of those a span covers. *)
LinesAlign ==
  ~Holes(table) =>
    LET g == table_rows_and_cols_geometry(table)
    IN  \A style \in Styles :
          style.mid = 1 \/ ~Spans(table) =>
            LET lines == Body(ft_set_border_style(table, style), g)
            IN  Cardinality({lines[i].width : i \in {k \in DOMAIN lines : lines[k].times > 0}}) <= 1
=============================================================================
