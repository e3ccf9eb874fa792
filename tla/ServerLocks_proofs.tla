-------------------------- MODULE ServerLocks_proofs --------------------------
(***************************************************************************)
(* Invariance proofs about ServerLocks, for every number of connections,   *)
(* listings of every length and sockets of every size.                     *)
(***************************************************************************)
EXTENDS ServerLocks, TLAPS

\* g_db_mutex is held exactly by the worker that is between its lock and its
\* unlock; with the types, an inductive invariant.
DbMutexInv == \A w \in Workers : g_db_mutex = w <=> pc[w] \in {"listing", "changing"}

\* The same of g_log_mutex, in one direction: line 420 leaves the handler with the
\* mutex locked, so whoever is inside owns it, but the owner may be elsewhere.
LogMutexInv ==
  \A w \in Workers : pc[w] \in Logging \cup {"viewing"} => g_log_mutex = w

LocksInv == TypeOK /\ DbMutexInv /\ LogMutexInv

\* At the start both mutexes are free and every worker waits for a command.
LEMMA LocksInit == Init => LocksInv
  BY NoWorkerAssumption, SizesAssumption
     DEF Init, LocksInv, TypeOK, DbMutexInv, LogMutexInv, Logging, Steps

\* One case per action of Next.
LEMMA LocksNext == LocksInv /\ [Next]_vars => LocksInv'
<1> SUFFICES ASSUME LocksInv, [Next]_vars PROVE LocksInv'
  OBVIOUS
<1> USE NoWorkerAssumption, SizesAssumption
        DEF LocksInv, TypeOK, DbMutexInv, LogMutexInv, Logging, Goto, ToSend
<1>1. CASE UNCHANGED vars
  BY <1>1 DEF vars
<1>2. ASSUME NEW w \in Workers, PeerReads(w) PROVE LocksInv'
  BY <1>2 DEF PeerReads
<1>3. ASSUME NEW w \in Workers, PeerCloses(w) PROVE LocksInv'
  BY <1>3 DEF PeerCloses
<1>4. ASSUME NEW w \in Workers, NextConnection(w) PROVE LocksInv'
  BY <1>4 DEF NextConnection
<1>5. ASSUME NEW w \in Workers, Request(w) PROVE LocksInv'
  BY <1>5 DEF Request, Steps, Waiting, Sending
<1>6. ASSUME NEW w \in Workers, LockDb(w) PROVE LocksInv'
  <2>1. CASE Goto(w, "list_lock", "listing") /\ ToSend(w, Rows)
    BY <1>6, <2>1 DEF LockDb, Steps, Sending
  <2>2. CASE Goto(w, "change_lock", "changing") /\ UNCHANGED left
    BY <1>6, <2>2 DEF LockDb, Steps
  <2> QED
    BY <1>6, <2>1, <2>2 DEF LockDb
<1>7. ASSUME NEW w \in Workers, LockLog(w) PROVE LocksInv'
  <2>1. CASE Goto(w, "logs_lock", "viewing") /\ ToSend(w, Rows)
    BY <1>7, <2>1 DEF LockLog, Steps, Sending
  <2>2. CASE Goto(w, "log_lock", "logging") /\ UNCHANGED left
    BY <1>7, <2>2 DEF LockLog, Steps
  <2>3. CASE Goto(w, "logout_lock", "logout_logging") /\ UNCHANGED left
    BY <1>7, <2>3 DEF LockLog, Steps
  <2> QED
    BY <1>7, <2>1, <2>2, <2>3 DEF LockLog
<1>8. ASSUME NEW w \in Workers, GoOn(w) PROVE LocksInv'
  <2>1. CASE SendLine(w)
    BY <2>1 DEF SendLine
  <2>2. CASE ListingEnds(w)
    BY <2>2 DEF ListingEnds, Steps
  <2>3. CASE ViewingEnds(w)
    BY <2>3 DEF ViewingEnds, Steps
  <2>4. CASE ChangeEnds(w)
    BY <2>4 DEF ChangeEnds, Steps, Sending
  <2>5. CASE ReplyEnds(w)
    BY <2>5 DEF ReplyEnds, Steps, Waiting
  <2>6. CASE LogWritten(w)
    BY <2>6 DEF LogWritten, AfterLog, Steps, Sending
  <2>7. CASE LogNotOpened(w)
    BY <2>7 DEF LogNotOpened, AfterLog, Steps, Sending
  <2>8. CASE LogsNotOpened(w)
    BY <2>8 DEF LogsNotOpened, Steps, Sending
  <2> QED
    BY <1>8, <2>1, <2>2, <2>3, <2>4, <2>5, <2>6, <2>7, <2>8 DEF GoOn
<1> QED
  BY <1>1, <1>2, <1>3, <1>4, <1>5, <1>6, <1>7, <1>8 DEF Next

\* The owners of the two mutexes, the steps of the workers and what the sockets hold
\* go together in every state, whatever the peers do and whichever opens fail.
THEOREM LocksInvariance == Spec => []LocksInv
  BY LocksInit, LocksNext, PTL DEF Spec

\* No socket ever holds more than it has room for, no listing has more rows to go
\* than it began with, and no mutex is held by anything but a worker.
THEOREM TypeCorrect == Spec => []TypeOK
<1>1. LocksInv => TypeOK
  BY DEF LocksInv
<1> QED
  BY <1>1, LocksInvariance, PTL

\* A worker is in a critical section of the tables exactly when it holds
\* g_db_mutex, and in one of the log only while it holds g_log_mutex: neither is
\* ever entered by two workers, although line 420 may leave the log locked.
THEOREM TwoMutexes == Spec => [](DbMutexInv /\ LogMutexInv)
<1>1. LocksInv => DbMutexInv /\ LogMutexInv
  BY DEF LocksInv
<1> QED
  BY <1>1, LocksInvariance, PTL

\* No worker waits for a mutex while it holds g_db_mutex, so the two mutexes
\* cannot close a circle (lines 413-430 against every handler that saves).
THEOREM NeverHoldsAndWaits == Spec => []NoHoldAndWait
<1>1. LocksInv => NoHoldAndWait
  BY DEF LocksInv, DbMutexInv, NoHoldAndWait, Waiting
<1> QED
  BY <1>1, LocksInvariance, PTL
===============================================================================
