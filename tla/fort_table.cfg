\* Any sequence of calls on a table: it can be printed, its lines align, and
\* only an erasure takes text away.
SPECIFICATION Spec
CONSTANTS
  Hole = Hole
  AnyOne = AnyOne
  ColorLen = 5
  ResetLen = 4
  MaxRows = 2
  MaxCols = 3
  MaxCalls = 4
  Texts <- CellTexts
  Fields <- FieldTexts
  SetProps <- CellSettings
  SetTableProps <- TableSettings
  Styles <- built_in_styles
INVARIANTS HolesComeFromSkips TablesArePrinted LinesAlign
PROPERTY TextStays
CHECK_DEADLOCK FALSE
