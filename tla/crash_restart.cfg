\* Stops between and in the middle of saves, failed saves, two products, one order.
SPECIFICATION CrashSpec
CONSTANTS
  w1 = w1
  w2 = w2
  alice = alice
  pen = pen
  mug = mug
  NoWorker = NoWorker
  Workers = {w1, w2}
  Customers = {alice}
  Names = {pen, mug}
  NewNames = {"."}
  Methods = {"UPI"}
  StockInputs = {1}
  Quantities = {1}
  IntMax = 100
  MaxProducts = 2
  MaxOrders = 1
  SavesMayFail = TRUE
  InitialProducts <- TwoProducts
  TornSaves = TRUE
  LoadsMayFail = TRUE
  MaxStops = 2
SYMMETRY WorkerSymmetry
INVARIANTS OrdersOnFileIfRead
PROPERTIES DurableOrders StopCreatesNoUnits
