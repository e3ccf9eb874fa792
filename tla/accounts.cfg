\* Stops that may catch a save, saves and loads that may fail.
\* The server stops for good once it was started MaxStarts times.
SPECIFICATION Spec
CONSTANTS
  c1 = c1
  c2 = c2
  secret = secret
  other = other
  NoConnection = NoConnection
  Connections = {c1, c2}
  Usernames = {"admin", "alice", "bob", "carl"}
  Hashes = {secret, other}
  DefaultHash = secret
  MAX_USERS = 3
  FirstFiles <- SmallFiles
  SavesMayFail = TRUE
  TornSaves = TRUE
  LoadsMayFail = TRUE
  MaxStarts = 3
SYMMETRY ConnectionSymmetry
INVARIANTS TypeOK UsernamesUnique AdminAvailable SessionsMatchAccounts
PROPERTIES AdminsMadeByAdmins AccountsDurable
CHECK_DEADLOCK FALSE
