----------------------------- MODULE PaymentWorker -----------------------------
(***************************************************************************)
(* run_payment_process of server_payment.c, as several worker threads call *)
(* it at once.  A call makes two pipes, forks a child, sends it a request  *)
(* and waits for the answer and for the child's end.                       *)
(*                                                                         *)
(* A pipe is read to its end only when no process has its write end open.  *)
(* All worker threads share the server's descriptors, and a child starts   *)
(* with a copy of every descriptor open at the fork, those of other calls  *)
(* included.  writers[w] is the set of processes that have the write end   *)
(* of the response pipe of w's call open: the server, and children, named  *)
(* by the worker that forked them.  The request pipe needs no such set:    *)
(* the parent writes a request before it closes its end.                   *)
(***************************************************************************)
EXTENDS Integers, FiniteSets

CONSTANTS
  Workers,   \* the threads
  Server     \* the server process

ASSUME ServerAssumption == Server \notin Workers

VARIABLES
  pc,         \* where each thread is in run_payment_process
  child,      \* what became of the child of each thread's call
  request,    \* whether the request is in the pipe
  response,   \* whether an answer is in the pipe
  writers,    \* who has the write end of the response pipe open
  outcome     \* what each thread's last call returned

vars == <<pc, child, request, response, writers, outcome>>

Steps == {"idle", "forking", "closing", "requesting", "reading", "answered", "unanswered"}
ChildStates == {"none", "started", "decided", "done", "exited", "killed"}

TypeOK ==
  /\ pc \in [Workers -> Steps]
  /\ child \in [Workers -> ChildStates]
  /\ request \in [Workers -> BOOLEAN]
  /\ response \in [Workers -> BOOLEAN]
  /\ writers \in [Workers -> SUBSET (Workers \cup {Server})]
  /\ outcome \in [Workers -> {0, 1}]

Init ==
  /\ pc = [w \in Workers |-> "idle"]
  /\ child = [w \in Workers |-> "none"]
  /\ request = [w \in Workers |-> FALSE]
  /\ response = [w \in Workers |-> FALSE]
  /\ writers = [w \in Workers |-> {}]
  /\ outcome = [w \in Workers |-> 0]

Goto(w, from, to) == pc[w] = from /\ pc' = [pc EXCEPT ![w] = to]

Return(w, from, value) ==
  /\ Goto(w, from, "idle")
  /\ outcome' = [outcome EXCEPT ![w] = value]

-----------------------------------------------------------------------------
(* The parent *)

\* Until a call returns its outcome is 0.
MakePipes(w) ==
  /\ Goto(w, "idle", "forking")
  /\ request' = [request EXCEPT ![w] = FALSE]
  /\ response' = [response EXCEPT ![w] = FALSE]
  /\ writers' = [writers EXCEPT ![w] = {Server}]
  /\ outcome' = [outcome EXCEPT ![w] = 0]
  /\ UNCHANGED child

PipesFail(w) ==
  /\ Return(w, "idle", 0)
  /\ UNCHANGED <<child, request, response, writers>>

\* The child gets a copy of whatever the server has open.
Fork(w) ==
  /\ Goto(w, "forking", "closing")
  /\ child' = [child EXCEPT ![w] = "started"]
  /\ writers' = [v \in Workers |->
                   IF Server \in writers[v] THEN writers[v] \cup {w} ELSE writers[v]]
  /\ UNCHANGED <<request, response, outcome>>

ForkFails(w) ==
  /\ Return(w, "forking", 0)
  /\ writers' = [writers EXCEPT ![w] = {}]
  /\ UNCHANGED <<child, request, response>>

\* Mutant: the parent keeps its copy of the write end.
KeepWriteEnd(w) ==
  /\ Goto(w, "closing", "requesting")
  /\ UNCHANGED <<child, request, response, writers, outcome>>

CloseWriteEnd(w) ==
  /\ Goto(w, "closing", "requesting")
  /\ writers' = [writers EXCEPT ![w] = @ \ {Server}]
  /\ UNCHANGED <<child, request, response, outcome>>

SendRequest(w) ==
  /\ Goto(w, "requesting", "reading")
  /\ request' = [request EXCEPT ![w] = TRUE]
  /\ UNCHANGED <<child, response, writers, outcome>>

ReadAnswer(w) ==
  /\ response[w]
  /\ Goto(w, "reading", "answered")
  /\ response' = [response EXCEPT ![w] = FALSE]
  /\ UNCHANGED <<child, request, writers, outcome>>

\* read() returns 0.
ReadEnd(w) ==
  /\ ~response[w] /\ writers[w] = {}
  /\ Goto(w, "reading", "unanswered")
  /\ UNCHANGED <<child, request, response, writers, outcome>>

\* Mutant: the failure path returns without waiting for the child.
ReapAnsweredOnly(w) ==
  \/ /\ child[w] \in {"exited", "killed"}
     /\ Return(w, "answered", IF child[w] = "exited" THEN 1 ELSE 0)
     /\ child' = [child EXCEPT ![w] = "none"]
     /\ UNCHANGED <<request, response, writers>>
  \/ /\ Return(w, "unanswered", 0)
     /\ UNCHANGED <<child, request, response, writers>>

\* Mutant: a failure is -1, which the caller takes for a payment made.
ReapMinusOne(w) ==
  /\ child[w] \in {"exited", "killed"}
  /\ \/ Return(w, "answered", IF child[w] = "exited" THEN 1 ELSE -1)
     \/ Return(w, "unanswered", -1)
  /\ child' = [child EXCEPT ![w] = "none"]
  /\ UNCHANGED <<request, response, writers>>

\* waitpid() returns: the child is reaped and its exit decides.  That the child
\* answers FAILED (server_payment.c:33, 86) is not an outcome here: the parent
\* always sends a method it has checked and an amount that is not negative.
Reap(w) ==
  /\ child[w] \in {"exited", "killed"}
  /\ \/ Return(w, "answered", IF child[w] = "exited" THEN 1 ELSE 0)
     \/ Return(w, "unanswered", 0)
  /\ child' = [child EXCEPT ![w] = "none"]
  /\ UNCHANGED <<request, response, writers>>

-----------------------------------------------------------------------------
(* The child *)

ReadRequest(w) ==
  /\ child[w] = "started" /\ request[w]
  /\ child' = [child EXCEPT ![w] = "decided"]
  /\ request' = [request EXCEPT ![w] = FALSE]
  /\ UNCHANGED <<pc, response, writers, outcome>>

Answer(w) ==
  /\ child[w] = "decided"
  /\ child' = [child EXCEPT ![w] = "done"]
  /\ response' = [response EXCEPT ![w] = TRUE]
  /\ UNCHANGED <<pc, request, writers, outcome>>

\* The end of a process closes all of its descriptors.
End(w, how) ==
  /\ child' = [child EXCEPT ![w] = how]
  /\ writers' = [v \in Workers |-> writers[v] \ {w}]
  /\ UNCHANGED <<pc, request, response, outcome>>

\* Mutant: the child may exit without an answer.
ExitUnanswered(w) == child[w] \in {"decided", "done"} /\ End(w, "exited")

Exit(w) == child[w] = "done" /\ End(w, "exited")

\* A signal from outside, at any point.
Killed(w) == child[w] \in {"started", "decided", "done"} /\ End(w, "killed")

-----------------------------------------------------------------------------
Parent(w) ==
  \/ Fork(w) \/ ForkFails(w) \/ CloseWriteEnd(w) \/ SendRequest(w)
  \/ ReadAnswer(w) \/ ReadEnd(w) \/ Reap(w)

Child(w) == ReadRequest(w) \/ Answer(w) \/ Exit(w)

Next == \E w \in Workers : MakePipes(w) \/ PipesFail(w) \/ Parent(w) \/ Child(w) \/ Killed(w)

\* Threads and processes are scheduled; nobody has to call or to be killed.
Fairness == \A w \in Workers : WF_vars(Parent(w)) /\ WF_vars(Child(w))

Spec == Init /\ [][Next]_vars /\ Fairness

-----------------------------------------------------------------------------
\* A thread gives up on the answer only when its own child was killed (lines
\* 70-76), although other calls' children keep its pipe open: no child can
\* still decide for an order that was given up.
GivenUpOnlyIfKilled ==
  \A w \in Workers : pc[w] = "unanswered" => child[w] = "killed"

\* No return leaves a child unreaped ("prevent the child from becoming a
\* Zombie Process", lines 73-74), and a child that exists has a waiting parent.
NoZombies ==
  \A w \in Workers : pc[w] \in {"idle", "forking"} <=> child[w] = "none"

\* Every call returns, although children are killed and although the end of a
\* killed child's pipe is seen only after other calls' children have ended.
PaymentReturns ==
  \A w \in Workers : (pc[w] # "idle") ~> (pc[w] = "idle")
==============================================================================
