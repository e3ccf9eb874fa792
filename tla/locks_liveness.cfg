\* Two connections whose peers read; the log may fail to be opened.
\* Every worker may end up waiting for the log's mutex: the server stops.
SPECIFICATION Spec
CONSTANTS
  w1 = w1
  w2 = w2
  NoWorker = NoWorker
  Workers = {w1, w2}
  Rows = 3
  SocketRoom = 2
  LogMayFail = TRUE
  Stalling = {}
INVARIANTS TypeOK NoHoldAndWait
PROPERTIES RepliesSent AnsweredUnlessLogLost
CHECK_DEADLOCK FALSE
