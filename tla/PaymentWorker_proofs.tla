------------------------- MODULE PaymentWorker_proofs -------------------------
(***************************************************************************)
(* Invariance proofs about PaymentWorker, for every number of threads that *)
(* call run_payment_process at once.                                       *)
(***************************************************************************)
EXTENDS PaymentWorker, TLAPS

Running == {"started", "decided", "done"}

\* Until the parent closes it, the server has the write end of a response pipe
\* open, so that a fork copies it; from then on only children have it.
ServerWriterInv ==
  \A w \in Workers : Server \in writers[w] <=> pc[w] \in {"forking", "closing"}

\* A child that runs has the write end of its own call's pipe open.
OwnWriterInv == \A w \in Workers : child[w] \in Running => w \in writers[w]

\* A child that came past its answer has put it into the pipe, where it stays
\* until the parent takes it out.
AnswerInv ==
  \A w \in Workers :
    child[w] \in {"done", "exited"} => response[w] \/ pc[w] = "answered"

CallsInv ==
  TypeOK /\ NoZombies /\ ServerWriterInv /\ OwnWriterInv /\ AnswerInv /\ GivenUpOnlyIfKilled

\* Before the first call nobody has a pipe open.
LEMMA CallsInit == Init => CallsInv
  BY ServerAssumption
     DEF Init, CallsInv, TypeOK, NoZombies, ServerWriterInv, OwnWriterInv, AnswerInv,
         GivenUpOnlyIfKilled, Steps, ChildStates, Running

\* The steps of a parent, one case per action.
LEMMA ParentNext ==
  ASSUME CallsInv, NEW w \in Workers, MakePipes(w) \/ PipesFail(w) \/ Parent(w)
  PROVE  CallsInv'
<1> USE ServerAssumption
        DEF CallsInv, TypeOK, NoZombies, ServerWriterInv, OwnWriterInv, AnswerInv,
            GivenUpOnlyIfKilled, Steps, ChildStates, Running, Goto, Return
<1>1. CASE MakePipes(w)
  BY <1>1 DEF MakePipes
<1>2. CASE PipesFail(w)
  BY <1>2 DEF PipesFail
<1>3. CASE Fork(w)
  BY <1>3 DEF Fork
<1>4. CASE ForkFails(w)
  BY <1>4 DEF ForkFails
<1>5. CASE CloseWriteEnd(w)
  BY <1>5 DEF CloseWriteEnd
<1>6. CASE SendRequest(w)
  BY <1>6 DEF SendRequest
<1>7. CASE ReadAnswer(w)
  BY <1>7 DEF ReadAnswer
<1>8. CASE ReadEnd(w)
  BY <1>8 DEF ReadEnd
<1>9. CASE Reap(w)
  <2>1. CASE Return(w, "answered", IF child[w] = "exited" THEN 1 ELSE 0)
    BY <1>9, <2>1 DEF Reap
  <2>2. CASE Return(w, "unanswered", 0)
    BY <1>9, <2>2 DEF Reap
  <2> QED
    BY <1>9, <2>1, <2>2 DEF Reap
<1> QED
  BY <1>1, <1>2, <1>3, <1>4, <1>5, <1>6, <1>7, <1>8, <1>9 DEF Parent

\* The steps of a child, its death by a signal included.
LEMMA ChildNext ==
  ASSUME CallsInv, NEW w \in Workers, Child(w) \/ Killed(w)
  PROVE  CallsInv'
<1> USE ServerAssumption
        DEF CallsInv, TypeOK, NoZombies, ServerWriterInv, OwnWriterInv, AnswerInv,
            GivenUpOnlyIfKilled, Steps, ChildStates, Running
<1>1. CASE ReadRequest(w)
  BY <1>1 DEF ReadRequest
<1>2. CASE Answer(w)
  BY <1>2 DEF Answer
<1>3. CASE Exit(w)
  BY <1>3 DEF Exit, End
<1>4. CASE Killed(w)
  BY <1>4 DEF Killed, End
<1> QED
  BY <1>1, <1>2, <1>3, <1>4 DEF Child

\* Every step of a parent or a child keeps the invariant.
LEMMA CallsNext == CallsInv /\ [Next]_vars => CallsInv'
<1> SUFFICES ASSUME CallsInv, [Next]_vars PROVE CallsInv'
  OBVIOUS
<1>1. CASE UNCHANGED vars
  BY <1>1 DEF vars, CallsInv, TypeOK, NoZombies, ServerWriterInv, OwnWriterInv, AnswerInv,
              GivenUpOnlyIfKilled
<1>2. CASE Next
  BY <1>2, ParentNext, ChildNext DEF Next
<1> QED
  BY <1>1, <1>2

\* What a parent knows, what has become of its child and which processes have its
\* pipe open go together in every state (lines 10-89 of server_payment.c).
THEOREM CallsInvariance == Spec => []CallsInv
  BY CallsInit, CallsNext, PTL DEF Spec

\* Parents, children, answers and open pipe ends keep their types in any number
\* of calls at once.
THEOREM TypeCorrect == Spec => []TypeOK
<1>1. CallsInv => TypeOK
  BY DEF CallsInv
<1> QED
  BY <1>1, CallsInvariance, PTL

\* A call gives up on its answer only when its own child was killed, however
\* many other children have its pipe open and in whatever order they end (lines
\* 70-76): the end of the file is seen only after the own child has ended.
THEOREM NeverGivenUpEarly == Spec => []GivenUpOnlyIfKilled
<1>1. CallsInv => GivenUpOnlyIfKilled
  BY DEF CallsInv
<1> QED
  BY <1>1, CallsInvariance, PTL

\* No call returns without having waited for its child, and no child is without
\* a parent that will (lines 73-74 and 82-87).
THEOREM NoZombiesEver == Spec => []NoZombies
<1>1. CallsInv => NoZombies
  BY DEF CallsInv
<1> QED
  BY <1>1, CallsInvariance, PTL
===============================================================================
