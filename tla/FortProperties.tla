--------------------------- MODULE FortProperties ---------------------------
(***************************************************************************)
(* How libfort finds the properties of a cell (fort.c, "properties.c").    *)
(* A table's property container maps a place, which may be a cell, a whole *)
(* column <<AnyOne, c>>, a whole row <<r, AnyOne>> or the whole table, to  *)
(* the properties that were set there.  Alignment only moves a text inside *)
(* its cell and is left out; one colour stands for all of them.            *)
(***************************************************************************)
EXTENDS Integers, Sequences, FiniteSetsExt

CONSTANTS AnyOne,       \* FT_ANY_ROW and FT_ANY_COLUMN
          ColorLen,     \* the length of an escape sequence that sets a colour
          ResetLen      \* and of the one that resets it

ASSUME LengthsAssumption == {ColorLen, ResetLen} \subseteq Nat

(* g_default_cell_properties *)
DefaultCellProps ==
  [minWidth |-> 0, topPadding |-> 0, bottomPadding |-> 0, leftPadding |-> 1,
   rightPadding |-> 1, emptyStrHeight |-> 1, rowType |-> "common",
   contentColor |-> 0, cellColor |-> 0]

Measures == {"minWidth", "topPadding", "bottomPadding", "leftPadding",
             "rightPadding", "emptyStrHeight"}

NoProps == [p \in {} |-> 0]

(* The function that has the value y at x. *)
With(f, x, y) == [z \in DOMAIN f \cup {x} |-> IF z = x THEN y ELSE f[z]]

(* The property `p` of the place becomes `value`.  A negative measure is
   refused, but only after the property was marked as set. *)
set_cell_property(props, place, p, value) ==
  LET opt == IF place \in DOMAIN props           THEN props[place]
             ELSE IF place = <<AnyOne, AnyOne>> THEN DefaultCellProps ELSE NoProps
      old == IF p \in DOMAIN opt THEN opt[p] ELSE 0
      new == IF p \in Measures /\ value < 0 THEN old ELSE value
  IN  With(props, place, With(opt, p, new))

(* The places whose properties a cell takes, the most specific one first. *)
Hierarchy(row, col) == <<<<row, col>>, <<AnyOne, col>>, <<row, AnyOne>>, <<AnyOne, AnyOne>>>>

get_cell_property_hierarchically(props, row, col, p) ==
  LET places == Hierarchy(row, col)
      set == {i \in DOMAIN places :
                places[i] \in DOMAIN props /\ p \in DOMAIN props[places[i]]}
  IN  IF set = {} THEN DefaultCellProps[p] ELSE props[places[Min(set)]][p]

(* The lengths of the escape sequences of one line of a cell: its own and
   their reset, those of its content and their reset, which also restores
   the cell's. *)
style_tag_for_cell(props, row, col) ==
  IF get_cell_property_hierarchically(props, row, col, "cellColor") # 0
    THEN ColorLen ELSE 0

reset_style_tag_for_cell(props, row, col) ==
  IF style_tag_for_cell(props, row, col) > 0 THEN ResetLen ELSE 0

style_tag_for_content(props, row, col) ==
  IF get_cell_property_hierarchically(props, row, col, "contentColor") # 0
    THEN ColorLen ELSE 0

reset_style_tag_for_content(props, row, col) ==
  IF style_tag_for_content(props, row, col) > 0
    THEN ResetLen + style_tag_for_cell(props, row, col) ELSE 0

cell_invis_codes_width(props, row, col) ==
  style_tag_for_cell(props, row, col) + reset_style_tag_for_cell(props, row, col)
    + style_tag_for_content(props, row, col) + reset_style_tag_for_content(props, row, col)

(* g_entire_table_properties *)
DefaultTableProps ==
  [leftMargin |-> 0, topMargin |-> 0, rightMargin |-> 0, bottomMargin |-> 0,
   strategy |-> "replace"]

(* A negative margin is refused. *)
set_entire_table_property(tprops, p, value) ==
  IF p # "strategy" /\ value < 0 THEN tprops ELSE [tprops EXCEPT ![p] = value]
=============================================================================
