\* An order, a deleted product and a cancellation; names are never changed.
SPECIFICATION Spec
CONSTANTS
  w1 = w1
  w2 = w2
  alice = alice
  pen = pen
  mug = mug
  NoWorker = NoWorker
  Workers = {w1}
  Customers = {alice}
  Names = {pen, mug}
  NewNames = {"."}
  Methods = {"UPI"}
  StockInputs = {1}
  Quantities = {1}
  IntMax = 100
  MaxProducts = 2
  MaxOrders = 1
  SavesMayFail = FALSE
  LowStock = 1
  InitialProducts <- TwoProducts
PROPERTIES CancelRestocksItsProduct
