\* A stop while a payment is open.
SPECIFICATION CrashSpec
CONSTANTS
  w1 = w1
  w2 = w2
  alice = alice
  pen = pen
  mug = mug
  NoWorker = NoWorker
  Workers = {w1}
  Customers = {alice}
  Names = {pen}
  NewNames = {"."}
  Methods = {"UPI"}
  StockInputs = {1}
  Quantities = {1}
  IntMax = 100
  MaxProducts = 1
  MaxOrders = 1
  SavesMayFail = FALSE
  InitialProducts <- OneProduct
  TornSaves = FALSE
  LoadsMayFail = FALSE
  MaxStops = 1
PROPERTIES GracefulStopKeepsUnits
