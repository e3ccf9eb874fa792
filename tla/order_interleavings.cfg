\* Two workers, two products, two orders; every save succeeds; an int holds no more than 2.
SPECIFICATION Spec
CONSTANTS
  w1 = w1
  w2 = w2
  alice = alice
  pen = pen
  mug = mug
  NoWorker = NoWorker
  Workers = {w1, w2}
  Customers = {alice}
  Names = {pen, mug}
  NewNames = {"."}
  Methods = {"UPI"}
  StockInputs = {1}
  Quantities = {1}
  IntMax = 2
  MaxProducts = 2
  MaxOrders = 2
  SavesMayFail = FALSE
  LowStock = 1
  InitialProducts <- TwoProducts
SYMMETRY WorkerSymmetry
INVARIANTS TypeOK ProductIdsSequential OrderIdsUnique
PROPERTIES OrderLifecycle UnitsConserved
