----------------------------- MODULE MCFortTable -----------------------------
(* Tables of at most two rows and three columns that are addressed, built by
   a few calls in any order, printed in all the built-in styles. *)
EXTENDS FortLayout

CellTexts == {<<1, 4>>}
FieldTexts == {<<2>>}
CellSettings ==
  {<<<<0, AnyOne>>, "rowType", "header">>, <<<<AnyOne, 1>>, "contentColor", 1>>,
   <<<<AnyOne, 0>>, "minWidth", 6>>, <<<<AnyOne, AnyOne>>, "leftPadding", -1>>,
   <<<<0, 0>>, "cellColor", 1>>}
TableSettings == {<<"strategy", "insert">>, <<"topMargin", 1>>, <<"leftMargin", -1>>}
=============================================================================
