\* Two workers, one product, two orders for one or two units; any save may fail.
SPECIFICATION Spec
CONSTANTS
  w1 = w1
  w2 = w2
  alice = alice
  pen = pen
  mug = mug
  NoWorker = NoWorker
  Workers = {w1, w2}
  Customers = {alice}
  Names = {pen}
  NewNames = {"."}
  Methods = {"UPI", "COD"}
  StockInputs = {1}
  Quantities = {1, 2}
  IntMax = 100
  MaxProducts = 1
  MaxOrders = 2
  SavesMayFail = TRUE
  LowStock = 1
  InitialProducts <- OneProduct
SYMMETRY WorkerSymmetry
INVARIANTS StockNonNegative PaymentMatchesStatus OrdersOnFile ReportBalances
PROPERTY ImplementsOrderBook
