\* Two workers, one product, two orders; any save may fail; refusals race
\* everything else; fair scheduling.
SPECIFICATION FairRefusalSpec
CONSTANTS
  w1 = w1
  w2 = w2
  alice = alice
  pen = pen
  NoWorker = NoWorker
  Workers = {w1, w2}
  Customers = {alice}
  Names = {pen}
  NewNames = {"."}
  Methods = {"UPI"}
  StockInputs = {1}
  Quantities = {1}
  IntMax = 100
  MaxProducts = 1
  MaxOrders = 2
  SavesMayFail = TRUE
  InitialProducts <- OneProduct
INVARIANTS CancelRefusalTruthful
PROPERTIES ReservationSettled
