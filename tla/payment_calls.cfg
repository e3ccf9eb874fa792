\* Three calls at once, children killed at any point.
SPECIFICATION Spec
CONSTANTS
  w1 = w1
  w2 = w2
  w3 = w3
  Workers = {w1, w2, w3}
  Server = Server
INVARIANTS TypeOK GivenUpOnlyIfKilled NoZombies
PROPERTY PaymentReturns
