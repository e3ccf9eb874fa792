----------------------------- MODULE FortStyles -----------------------------
(***************************************************************************)
(* The border styles built into libfort (fort.c, "properties.c").  What    *)
(* the measures of a table depend on is kept of a style: how wide the      *)
(* borders at the sides and between the columns are, how many bytes its    *)
(* longest border character has (max_border_elem_strlen), and which        *)
(* horizontal lines have a printable character, apart from the separators  *)
(* that are asked for: <<place, whether a header row is next to it>>.      *)
(***************************************************************************)

Style(side, mid, bytes, lines) ==
  [side |-> side, mid |-> mid, bytes |-> bytes, lines |-> lines]

Everywhere == {"top", "inside", "bottom"} \X BOOLEAN
Around     == {"top", "bottom"} \X BOOLEAN
Framed     == Around \cup {<<"inside", TRUE>>}

FT_BASIC_STYLE       == Style(1, 1, 1, Framed)
FT_BASIC2_STYLE      == Style(1, 1, 1, Everywhere)
FT_SIMPLE_STYLE      == Style(0, 1, 1, {"inside", "bottom"} \X {TRUE})
FT_PLAIN_STYLE       == Style(0, 1, 1, {"top", "inside", "bottom"} \X {TRUE})
FT_DOT_STYLE         == Style(1, 1, 1, Framed)
FT_EMPTY_STYLE       == Style(0, 0, 1, {})
FT_EMPTY2_STYLE      == Style(1, 1, 1, Around)
FT_SOLID_STYLE       == Style(1, 1, 3, Framed)
FT_SOLID_ROUND_STYLE == Style(1, 1, 3, Framed)
FT_NICE_STYLE        == Style(1, 1, 3, Framed)
FT_DOUBLE_STYLE      == Style(1, 1, 3, Framed)
FT_DOUBLE2_STYLE     == Style(1, 1, 3, Everywhere)
FT_BOLD_STYLE        == Style(1, 1, 3, Framed)
FT_BOLD2_STYLE       == Style(1, 1, 3, Everywhere)
FT_FRAME_STYLE       == Style(1, 1, 3, Framed)

built_in_styles ==
  {FT_BASIC_STYLE, FT_BASIC2_STYLE, FT_SIMPLE_STYLE, FT_PLAIN_STYLE, FT_DOT_STYLE,
   FT_EMPTY_STYLE, FT_EMPTY2_STYLE, FT_SOLID_STYLE, FT_SOLID_ROUND_STYLE, FT_NICE_STYLE,
   FT_DOUBLE_STYLE, FT_DOUBLE2_STYLE, FT_BOLD_STYLE, FT_BOLD2_STYLE, FT_FRAME_STYLE}
=============================================================================
