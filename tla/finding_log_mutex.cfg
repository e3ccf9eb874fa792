\* The log file may fail to be opened.
\* Every worker may end up waiting for the mutex: the server stops.
SPECIFICATION Spec
CONSTANTS
  w1 = w1
  w2 = w2
  NoWorker = NoWorker
  Workers = {w1, w2}
  Rows = 2
  SocketRoom = 1
  LogMayFail = TRUE
  Stalling = {}
CHECK_DEADLOCK FALSE
PROPERTIES Answered
