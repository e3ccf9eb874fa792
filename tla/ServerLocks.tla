----------------------------- MODULE ServerLocks -----------------------------
(***************************************************************************)
(* Who waits for whom in retail_server.c.  Every connection has a worker   *)
(* thread; workers share g_db_mutex and g_log_mutex and write their        *)
(* replies to sockets that hold a bounded number of lines.                 *)
(*   - The listings (LIST_PRODUCTS, MY_ORDERS, ALL_ORDERS, REPORT) send    *)
(*     all of their lines while they hold g_db_mutex.                      *)
(*   - The changes (every handler that saves, and LOGIN) release           *)
(*     g_db_mutex, send one line and append to the log under g_log_mutex.  *)
(*     When they are refused the line is all.                              *)
(*   - LOGOUT appends to the log before it sends its line (683 and 688).   *)
(*   - VIEW_LOGS sends the whole log while it holds g_log_mutex.           *)
(*   - PING, and what is refused without a look at the tables, is answered *)
(*     by one line.                                                        *)
(* What the tables and the log hold is abstracted away, as is the second   *)
(* critical section of PLACE_ORDER (OrderDesk has it).                     *)
(***************************************************************************)
EXTENDS Integers

CONSTANTS
  Workers,      \* one per connection
  NoWorker,     \* the owner of a mutex that is free
  Rows,         \* lines of a listing
  SocketRoom,   \* lines a socket holds that the peer has not read
  LogMayFail,   \* whether data/admin_logs.log may fail to be opened
  Stalling      \* the connections whose peer may stop reading for good

ASSUME NoWorkerAssumption == NoWorker \notin Workers
ASSUME SizesAssumption == Rows \in Nat \ {0} /\ SocketRoom \in Nat \ {0}
ASSUME LogAssumption == LogMayFail \in BOOLEAN
ASSUME StallingAssumption == Stalling \subseteq Workers

VARIABLES
  g_db_mutex, g_log_mutex,   \* the worker that holds each, or NoWorker
  pc,                        \* where each worker is in its handler
  left,                      \* the lines its handler has still to send
  unread,                    \* the lines its peer has still to read
  open                       \* whether its peer keeps the connection

vars == <<g_db_mutex, g_log_mutex, pc, left, unread, open>>

\* A worker is "replying" when the log comes after the reply, and "answering"
\* when nothing does.
Waiting == {"list_lock", "change_lock", "log_lock", "logs_lock", "logout_lock"}
Sending == {"listing", "replying", "answering", "viewing"}
Logging == {"logging", "logout_logging"}
Steps == {"receiving", "changing"} \cup Logging \cup Waiting \cup Sending

TypeOK ==
  /\ g_db_mutex \in Workers \cup {NoWorker}
  /\ g_log_mutex \in Workers \cup {NoWorker}
  /\ pc \in [Workers -> Steps]
  /\ left \in [Workers -> 0 .. Rows]
  /\ unread \in [Workers -> 0 .. SocketRoom]
  /\ open \in [Workers -> BOOLEAN]

Init ==
  /\ g_db_mutex = NoWorker /\ g_log_mutex = NoWorker
  /\ pc = [w \in Workers |-> "receiving"]
  /\ left = [w \in Workers |-> 0]
  /\ unread = [w \in Workers |-> 0]
  /\ open = [w \in Workers |-> TRUE]

Goto(w, from, to) == pc[w] = from /\ pc' = [pc EXCEPT ![w] = to]
ToSend(w, lines) == left' = [left EXCEPT ![w] = lines]

-----------------------------------------------------------------------------
(* The peers *)

PeerReads(w) ==
  /\ open[w] /\ unread[w] > 0
  /\ unread' = [unread EXCEPT ![w] = @ - 1]
  /\ UNCHANGED <<g_db_mutex, g_log_mutex, pc, left, open>>

PeerCloses(w) ==
  /\ open[w]
  /\ open' = [open EXCEPT ![w] = FALSE]
  /\ unread' = [unread EXCEPT ![w] = 0]
  /\ UNCHANGED <<g_db_mutex, g_log_mutex, pc, left>>

\* The worker of a closed connection ends and main accepts another connection.
NextConnection(w) ==
  /\ pc[w] = "receiving" /\ ~open[w]
  /\ open' = [open EXCEPT ![w] = TRUE]
  /\ UNCHANGED <<g_db_mutex, g_log_mutex, pc, left, unread>>

Request(w) ==
  /\ open[w]
  /\ \/ /\ \E to \in {"list_lock", "change_lock", "logs_lock", "logout_lock"} :
             Goto(w, "receiving", to)
        /\ UNCHANGED left
     \/ Goto(w, "receiving", "answering") /\ ToSend(w, 1)
  /\ UNCHANGED <<g_db_mutex, g_log_mutex, unread, open>>

-----------------------------------------------------------------------------
(* The workers *)

LockDb(w) ==
  /\ g_db_mutex = NoWorker
  /\ g_db_mutex' = w
  /\ \/ Goto(w, "list_lock", "listing") /\ ToSend(w, Rows)
     \/ Goto(w, "change_lock", "changing") /\ UNCHANGED left
  /\ UNCHANGED <<g_log_mutex, unread, open>>

LockLog(w) ==
  /\ g_log_mutex = NoWorker
  /\ g_log_mutex' = w
  /\ \/ Goto(w, "logs_lock", "viewing") /\ ToSend(w, Rows)
     \/ Goto(w, "log_lock", "logging") /\ UNCHANGED left
     \/ Goto(w, "logout_lock", "logout_logging") /\ UNCHANGED left
  /\ UNCHANGED <<g_db_mutex, unread, open>>

\* Mutant: send() does not wait for room.
SendLineUnbounded(w) ==
  /\ pc[w] \in Sending /\ left[w] > 0
  /\ ToSend(w, left[w] - 1)
  /\ unread' = [unread EXCEPT ![w] = IF open[w] THEN @ + 1 ELSE @]
  /\ UNCHANGED <<g_db_mutex, g_log_mutex, pc, open>>

\* send() blocks while the socket is full and fails at once on a closed one;
\* the handlers do not look at the result.
SendLine(w) ==
  /\ pc[w] \in Sending /\ left[w] > 0
  /\ ToSend(w, left[w] - 1)
  /\ IF open[w] THEN /\ unread[w] < SocketRoom
                     /\ unread' = [unread EXCEPT ![w] = @ + 1]
                ELSE UNCHANGED unread
  /\ UNCHANGED <<g_db_mutex, g_log_mutex, pc, open>>

\* Mutant: a listing returns without unlocking the tables.
ListingLeftLocked(w) ==
  /\ left[w] = 0
  /\ Goto(w, "listing", "receiving")
  /\ UNCHANGED <<g_db_mutex, g_log_mutex, left, unread, open>>

ListingEnds(w) ==
  /\ left[w] = 0
  /\ Goto(w, "listing", "receiving")
  /\ g_db_mutex' = NoWorker
  /\ UNCHANGED <<g_log_mutex, left, unread, open>>

ViewingEnds(w) ==
  /\ left[w] = 0
  /\ Goto(w, "viewing", "receiving")
  /\ g_log_mutex' = NoWorker
  /\ UNCHANGED <<g_db_mutex, left, unread, open>>

\* The file cannot be opened for reading: "ERR Unable to open logs".
LogsNotOpened(w) ==
  /\ LogMayFail
  /\ left[w] = Rows
  /\ Goto(w, "viewing", "answering")
  /\ ToSend(w, 1)
  /\ g_log_mutex' = NoWorker
  /\ UNCHANGED <<g_db_mutex, unread, open>>

\* Mutant: the reply is sent and logged before the tables are unlocked.
ChangeEndsLocked(w) ==
  /\ Goto(w, "changing", "replying") \/ Goto(w, "changing", "answering")
  /\ ToSend(w, 1)
  /\ UNCHANGED <<g_db_mutex, g_log_mutex, unread, open>>

\* The change is made or refused.
ChangeEnds(w) ==
  /\ Goto(w, "changing", "replying") \/ Goto(w, "changing", "answering")
  /\ ToSend(w, 1)
  /\ g_db_mutex' = NoWorker
  /\ UNCHANGED <<g_log_mutex, unread, open>>

ReplyEnds(w) ==
  /\ left[w] = 0
  /\ Goto(w, "replying", "log_lock") \/ Goto(w, "answering", "receiving")
  /\ UNCHANGED <<g_db_mutex, g_log_mutex, left, unread, open>>

\* log_action_server returns: the handler is done, or LOGOUT is left to answer.
AfterLog(w) ==
  \/ Goto(w, "logging", "receiving") /\ UNCHANGED left
  \/ Goto(w, "logout_logging", "answering") /\ ToSend(w, 1)

\* The line is appended, or fopen fails and the mutex is unlocked all the same.
LogWritten(w) ==
  /\ AfterLog(w)
  /\ g_log_mutex' = NoWorker
  /\ UNCHANGED <<g_db_mutex, unread, open>>

\* acquire_file_lock cannot open the file or lock it: line 420 returns while
\* g_log_mutex is held.
LogNotOpened(w) ==
  /\ LogMayFail
  /\ AfterLog(w)
  /\ UNCHANGED <<g_db_mutex, g_log_mutex, unread, open>>

GoOn(w) ==
  \/ SendLine(w) \/ ListingEnds(w) \/ ViewingEnds(w) \/ LogsNotOpened(w)
  \/ ChangeEnds(w) \/ ReplyEnds(w) \/ LogWritten(w) \/ LogNotOpened(w)

Next ==
  \E w \in Workers :
    \/ PeerReads(w) \/ PeerCloses(w) \/ NextConnection(w) \/ Request(w)
    \/ LockDb(w) \/ LockLog(w) \/ GoOn(w)

\* Threads run, a mutex that keeps being released is obtained in the end, and
\* the peers that do not stall go on reading.  Nobody has to send a request.
Fairness ==
  /\ \A w \in Workers : WF_vars(GoOn(w)) /\ SF_vars(LockDb(w)) /\ SF_vars(LockLog(w))
  /\ \A w \in Workers \ Stalling : WF_vars(PeerReads(w))

Spec == Init /\ [][Next]_vars /\ Fairness

-----------------------------------------------------------------------------
\* No worker waits for a mutex while it holds g_db_mutex, not even when it has
\* lost g_log_mutex before: the two mutexes cannot close a circle of workers that
\* wait for each other (lines 413-430 against the handlers).
NoHoldAndWait == \A w \in Workers : pc[w] \in Waiting => g_db_mutex # w

\* A listing is complete and a change, a login or a refusal is replied to even
\* when the log is stuck, as long as every client reads what it is sent: no worker
\* keeps the tables while it waits for the log (lines 413-430).  LOGOUT and
\* VIEW_LOGS take the log's mutex before they reply and are not promised this.
RepliesSent ==
  \A w \in Workers \ Stalling :
    (pc[w] \in {"list_lock", "listing", "change_lock", "changing", "replying", "answering"})
      ~> (pc[w] \in {"receiving", "log_lock"})

\* A worker has left log_action_server with g_log_mutex still locked.
LogLost == g_log_mutex # NoWorker /\ pc[g_log_mutex] \notin Logging \cup {"viewing"}

\* Every request is dealt with while every client reads what it is sent, unless
\* line 420 has lost the log's mutex.
AnsweredUnlessLogLost ==
  \A w \in Workers \ Stalling :
    (pc[w] # "receiving") ~> (pc[w] = "receiving" \/ LogLost)

\* Every request of a client that reads its replies and keeps its connection is
\* dealt with (the comment on lines 1648-1649: the threads keep "the server from
\* hanging").
Answered ==
  \A w \in Workers \ Stalling :
    (pc[w] # "receiving") ~> (pc[w] = "receiving" \/ ~open[w])
==============================================================================
