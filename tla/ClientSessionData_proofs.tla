---------------------- MODULE ClientSessionData_proofs ----------------------
(***************************************************************************)
(* Proofs about what one connection carries and keeps: how much of it      *)
(* there can be, that the pages of a listing show all of its rows, and     *)
(* that the commands the worker obeys are the lines of its peer, for       *)
(* streams, buffers, listings and pages of any size.                       *)
(*                                                                         *)
(* What sequences put end to end are is defined by recursion; it is        *)
(* unfolded by least counterexamples: the first number of sequences for    *)
(* which a fact fails.                                                     *)
(***************************************************************************)
EXTENDS ClientSession_proofs, FiniteSetTheorems

-----------------------------------------------------------------------------
(* Bounds: how much is sent, kept and counted *)

\* The client asks no more than MaxRequests times before its last QUIT, which it only
\* sends from the main menu and does not come back from.
AskedInv ==
  \/ client.n <= MaxRequests
  \/ /\ client.n = MaxRequests + 1
     /\ \/ client.at = "exited"
        \/ client.at = "reply" /\ client.asked = "QUIT" /\ ~client.authenticated

\* What is left of a request that was not handled yet: one line, perhaps cut.
LastLine ==
  /\ worker.n < client.n
  /\ worker.reader.complete => up = << >>
  /\ \A i \in 1 .. Len(up) - 1 : up[i] # NL
  /\ Len(worker.reader.part) + Len(up) <= 3

\* The worker handles no more lines than retail_client sent, or than another peer
\* sent bytes.
RetailInv ==
  peer = "retail" =>
    /\ worker.n <= client.n
    /\ (client.at = "exited" /\ ~Gone) => Idle \/ LastLine
ForeignInv ==
  peer = "foreign" =>
    /\ client.n = 0
    /\ worker.n + Len(worker.reader.part) + Len(up) <= Len(sent)
    /\ Len(sent) <= MaxForeign

\* The buffer of recv_line has room for a final zero, and for one more byte while
\* the line is not complete.
BufferInv ==
  /\ Len(worker.reader.part) < MaxLine
  /\ ~worker.reader.complete => Len(worker.reader.part) < MaxLine - 1

LeftInv == worker.left \in 0 .. MaxRows
EndsInv == upEnd \in Ends /\ downEnd \in Ends
RepliesInv == \A i \in 1 .. Len(down) : down[i].re <= MaxRequests + MaxForeign + 1

\* The arrays of the client hold what was put into them; a cut line has no category.
RowOf == Categories \cup {"none"}
Fits(listing) ==
  /\ listing.rows \in Seq(RowOf) /\ Len(listing.rows) <= MaxShown
  /\ IsFiniteSet(listing.categories) /\ Cardinality(listing.categories) <= MaxCategories
ListingInv == Fits(client.listing)

\* The steps of the worker, by what becomes of its buffer.
Taking ==
  /\ worker.at = "recv" /\ ~worker.reader.complete /\ up # << >>
  /\ up' = Tail(up) /\ worker'.reader = Take(worker.reader, Head(up))
  /\ worker'.n = worker.n /\ worker'.left = worker.left
Handling ==
  /\ worker.at = "recv" /\ AtLine /\ worker.reader.part # << >>
  /\ up' = up /\ worker'.reader = Nothing
  /\ worker'.n = worker.n + 1 /\ worker'.left \in {worker.left} \cup 0 .. MaxRows
Passing ==
  /\ up' = up
  /\ \/ worker'.reader = worker.reader
     \/ worker'.reader = Nothing /\ (worker'.at = "closed" \/ AtLine)
  /\ worker'.n = worker.n
  /\ worker'.left = worker.left \/ (worker.left > 0 /\ worker'.left = worker.left - 1)

\* Handling a line leaves the number of rows to send, or begins a listing.
LEMMA HandledLeft ==
  ASSUME ShapeInv, NEW line, Handle(line)
  PROVE  worker'.left \in {worker.left} \cup 0 .. MaxRows
<1>1. worker \in WorkersTyped
  BY DEF ShapeInv
<1>2. Cleared \in WorkersTyped /\ Cleared.left = worker.left
  BY <1>1, ClearedType DEF WorkersTyped, Cleared
<1>3. \/ worker'.left = Cleared.left
      \/ worker'.left \in 0 .. MaxRows
  <2>1. CASE LogIn(line)
    BY <1>2, <2>1 DEF LogIn, WorkersTyped
  <2>2. CASE LogOut(line)
    BY <1>2, <2>2 DEF LogOut, WorkersTyped
  <2>3. CASE BeginListing(line)
    BY <1>2, <2>3 DEF BeginListing, WorkersTyped
  <2>4. CASE Succeed(line) \/ Refuse
    BY <2>4 DEF Succeed, Refuse
  <2>5. CASE Quit(line)
    BY <1>2, <2>5 DEF Quit, WorkersTyped
  <2> QED
    BY <2>1, <2>2, <2>3, <2>4, <2>5 DEF Handle
<1> QED
  BY <1>2, <1>3

\* Every step of the worker takes a byte, handles a line or does neither.
LEMMA WorkerSteps ==
  ASSUME ShapeInv, Work \/ ServerStops
  PROVE  /\ ~Gone /\ UNCHANGED <<peer, client, upEnd, sent>>
         /\ Taking \/ Handling \/ Passing
<1>1. worker \in WorkersTyped
  BY DEF ShapeInv
<1>2. UNCHANGED <<peer, client, upEnd, sent>> /\ ~Gone
  BY DEF Work, Welcome, Receive, Obey, HangUp, SendRow, SendEnd, ServerStops, Gone
<1>3. ASSUME Receive PROVE Taking
  BY <1>1, <1>3 DEF Receive, Taking, WorkersTyped
<1>4. ASSUME Obey PROVE Handling \/ Passing
  <2>1. CASE worker.reader.part = << >>
    BY <1>1, <1>4, <2>1 DEF Obey, Passing, WorkersTyped
  <2>2. CASE worker.reader.part # << >>
    <3>1. Handle(worker.reader.part)
      BY <1>4, <2>2 DEF Obey
    <3>2. worker'.n = worker.n + 1 /\ worker'.reader = Nothing
      BY <3>1, HandleShape
    <3>3. worker'.left \in {worker.left} \cup 0 .. MaxRows
      BY <3>1, HandledLeft
    <3> QED
      BY <1>4, <2>2, <3>2, <3>3 DEF Obey, Handling
  <2> QED
    BY <2>1, <2>2
<1>5. ASSUME Welcome \/ SendEnd PROVE Passing
  BY <1>1, <1>5 DEF Welcome, SendEnd, Passing, WorkersTyped
<1>6. ASSUME HangUp \/ ServerStops PROVE Passing
  BY <1>1, <1>6 DEF HangUp, ServerStops, Passing, WorkersTyped
<1>7. ASSUME SendRow PROVE Passing
  BY <1>1, <1>7 DEF SendRow, Passing, WorkersTyped
<1> QED
  BY <1>2, <1>3, <1>4, <1>5, <1>6, <1>7 DEF Work

-----------------------------------------------------------------------------
\* The buffer and the bounds of what is counted, step by step.
LEMMA TakenPart ==
  ASSUME NEW reader \in Readers, NEW b \in Bytes, ~reader.complete,
         Len(reader.part) < MaxLine - 1
  PROVE  /\ Take(reader, b).part \in Seq(Bytes) /\ Len(Take(reader, b).part) <= MaxLine - 1
         /\ Len(Take(reader, b).part) \in {Len(reader.part), Len(reader.part) + 1}
         /\ ~Take(reader, b).complete => Len(Take(reader, b).part) < MaxLine - 1
         /\ Take(reader, b).complete => b = NL \/ Len(Take(reader, b).part) = MaxLine - 1
<1>1. reader.part \in Seq(Bytes) /\ Len(reader.part) \in Nat /\ MaxLine \in Nat
  BY MaxLineAssumption DEF Readers
<1>2. CASE b = CR
  <2>1. CR # NL
    BY DEF CR, NL
  <2>2. Take(reader, b) = reader
    BY <1>2, <2>1 DEF Take
  <2> QED
    BY <1>1, <2>2
<1>3. CASE b # CR /\ b = NL
  <2>1. Take(reader, b) = [reader EXCEPT !.complete = TRUE]
    BY <1>3 DEF Take
  <2>2. Take(reader, b).part = reader.part
    BY <2>1 DEF Readers
  <2>3. Take(reader, b).complete = TRUE
    BY <2>1 DEF Readers
  <2> QED
    BY <1>1, <1>3, <2>2, <2>3
<1>4. CASE b # CR /\ b # NL
  <2> DEFINE part == Append(reader.part, b)
             full == Len(reader.part) + 1 = MaxLine - 1
  <2>1. part \in Seq(Bytes) /\ Len(part) = Len(reader.part) + 1
    BY <1>1
  <2>2. Take(reader, b) = [part |-> part, complete |-> full]
    BY <1>4 DEF Take
  <2>3. /\ Len(reader.part) + 1 <= MaxLine - 1
        /\ ~full => Len(reader.part) + 1 < MaxLine - 1
        /\ full => Len(reader.part) + 1 = MaxLine - 1
        /\ full \in BOOLEAN
    BY <1>1
  <2> HIDE DEF part, full
  <2>4. Take(reader, b).part = part /\ Take(reader, b).complete = full
    BY <2>2, <2>3
  <2> QED
    BY <2>1, <2>3, <2>4
<1> QED
  BY <1>2, <1>3, <1>4

\* The buffer recv_line starts with.
LEMMA NothingParts == Nothing.part = << >> /\ Nothing.complete = FALSE /\ Len(Nothing.part) = 0
BY DEF Nothing

\* The steps keep the bounds of the buffer ...
LEMMA BufferNext == ShapeInv /\ BufferInv /\ Next => BufferInv'
<1> SUFFICES ASSUME ShapeInv, BufferInv, Next PROVE BufferInv'
  OBVIOUS
<1>1. CASE Work \/ ServerStops
  <2>1. CASE Taking
    <3>1. worker.reader \in Readers /\ Head(up) \in Bytes
      BY <2>1 DEF ShapeInv, WorkersTyped, Taking
    <3>2. /\ Len(Take(worker.reader, Head(up)).part) \in Nat
          /\ Len(Take(worker.reader, Head(up)).part) <= MaxLine - 1
          /\ ~Take(worker.reader, Head(up)).complete
               => Len(Take(worker.reader, Head(up)).part) < MaxLine - 1
      BY <2>1, <3>1, TakenPart DEF Taking, BufferInv
    <3> QED
      BY <2>1, <3>2, MaxLineAssumption DEF Taking, BufferInv
  <2>2. CASE worker'.reader = Nothing
    BY <2>2, NothingParts, RequestsFit, MaxLineAssumption DEF BufferInv
  <2>3. CASE worker'.reader = worker.reader
    BY <2>3 DEF BufferInv
  <2> QED
    BY <1>1, <2>1, <2>2, <2>3, WorkerSteps DEF Handling, Passing
<1>2. CASE worker' = worker
  BY <1>2 DEF BufferInv
<1>3. Work \/ ServerStops \/ worker' = worker
  BY DEF Next, User, Connect, Choose, Ask, AskInVain, TurnPage, Read, SendByte, Discard, ClientEnds
<1> QED
  BY <1>1, <1>2, <1>3

\* ... of the rows that are left ...
LEMMA LeftNext == ShapeInv /\ LeftInv /\ Next => LeftInv'
<1> SUFFICES ASSUME ShapeInv, LeftInv, Next PROVE LeftInv'
  OBVIOUS
<1>1. CASE Work \/ ServerStops
  <2>1. worker.left \in 0 .. MaxRows /\ MaxRows \in Nat
    BY SessionAssumption DEF LeftInv
  <2>2. CASE worker'.left \in {worker.left} \cup 0 .. MaxRows
    BY <2>1, <2>2 DEF LeftInv
  <2>3. CASE worker.left > 0 /\ worker'.left = worker.left - 1
    BY <2>1, <2>3 DEF LeftInv
  <2> QED
    BY <1>1, <2>2, <2>3, WorkerSteps DEF Taking, Handling, Passing
<1>2. CASE worker' = worker
  BY <1>2 DEF LeftInv
<1>3. Work \/ ServerStops \/ worker' = worker
  BY DEF Next, User, Connect, Choose, Ask, AskInVain, TurnPage, Read, SendByte, Discard, ClientEnds
<1> QED
  BY <1>1, <1>2, <1>3

\* ... what either end of the connection can be found to be ...
LEMMA EndsNext == EndsInv /\ Next => EndsInv'
<1> SUFFICES ASSUME EndsInv, Next PROVE EndsInv'
  OBVIOUS
<1> USE DEF EndsInv, Ends
<1>1. CASE Connect \/ SendByte \/ Discard
  BY <1>1 DEF Connect, SendByte, Discard
<1>2. CASE User
  BY <1>2 DEF User, Choose, Ask, AskInVain, TurnPage
<1>3. CASE Read
  BY <1>3 DEF Read, Greeted, Reply, ReplyLost, HeadOfListing, Row, EndOfRows
<1>4. CASE Obey
  <2>1. downEnd' \in {downEnd, "closed", "reset"} /\ upEnd' = upEnd
    BY <1>4 DEF Obey, Handle, LogIn, LogOut, BeginListing, Succeed, Quit, Refuse
  <2> QED
    BY <2>1
<1>5. CASE Welcome \/ Receive \/ HangUp \/ SendRow \/ SendEnd \/ ServerStops
  BY <1>5 DEF Welcome, Receive, HangUp, SendRow, SendEnd, ServerStops
<1>6. CASE ClientEnds
  BY <1>6 DEF ClientEnds
<1> QED
  BY <1>1, <1>2, <1>3, <1>4, <1>5, <1>6 DEF Next, Work


\* ... and the number of requests.
LEMMA AskedNext == ShapeInv /\ AskedInv /\ Next => AskedInv'
<1> SUFFICES ASSUME ShapeInv, AskedInv, Next PROVE AskedInv'
  OBVIOUS
<1>1. ClientTyped /\ client.n \in Nat /\ MaxRequests \in Nat
  BY SessionAssumption DEF ShapeInv, ClientTyped, Clients
<1>2. CASE client' = client
  BY <1>2 DEF AskedInv
<1>3. CASE Choose
  <2>1. PICK command \in MenuChoices : Ask(command) \/ AskInVain(command)
    BY <1>3 DEF Choose
  <2>2. client.at = "menu" /\ client.n <= MaxRequests
    BY <1>3 DEF Choose, AskedInv
  <2>3. command = "QUIT" => ~client.authenticated
    BY DEF MenuChoices, SessionMenu, AdminCommands, CustomerCommands
  <2>4. command = "QUIT" => Expecting(command) = "reply" /\ command \notin Listings \cup {"REPORT"}
    BY DEF Expecting, Listings
  <2>5. CASE client'.at = "exited" /\ client'.n = client.n
    BY <2>2, <2>5 DEF AskedInv
  <2>6. CASE /\ client.n < MaxRequests \/ command = "QUIT"
             /\ client'.n = client.n + 1 /\ client'.asked = command
             /\ client'.authenticated = client.authenticated
             /\ command = "QUIT" => client'.at = "reply"
    <3>1. CASE command = "QUIT"
      <4>1. client'.n <= MaxRequests \/ client'.n = MaxRequests + 1
        BY <1>1, <2>2, <2>6
      <4> QED
        BY <2>3, <2>6, <3>1, <4>1 DEF AskedInv
    <3>2. CASE client.n < MaxRequests
      <4>1. client'.n <= MaxRequests
        BY <1>1, <2>6, <3>2
      <4> QED
        BY <4>1 DEF AskedInv
    <3> QED
      BY <2>6, <3>1, <3>2
  <2>7. CASE Ask(command)
    <3>1. /\ client'.n = client.n + 1 /\ client'.asked = command
          /\ client'.authenticated = client.authenticated /\ client'.at = Expecting(command)
      BY <1>1, <2>7 DEF Ask, ClientTyped, Clients
    <3> QED
      BY <2>4, <2>6, <2>7, <3>1 DEF Ask
  <2>8. CASE AskInVain(command)
    <3>1. CASE client' = [client EXCEPT !.at = "exited"]
      BY <1>1, <2>5, <3>1 DEF ClientTyped, Clients
    <3>2. CASE /\ client.n < MaxRequests \/ command = "QUIT"
               /\ client' = [client EXCEPT !.asked = command, !.n = @ + 1, !.listing = NoListing,
                               !.at = IF command \in Listings \cup {"REPORT"} THEN "menu" ELSE "reply"]
      <4>1. /\ client'.n = client.n + 1 /\ client'.asked = command
            /\ client'.authenticated = client.authenticated
            /\ command \notin Listings \cup {"REPORT"} => client'.at = "reply"
        BY <1>1, <3>2 DEF ClientTyped, Clients
      <4> QED
        BY <2>4, <2>6, <3>2, <4>1
    <3> QED
      BY <2>8, <3>1, <3>2 DEF AskInVain
  <2> QED
    BY <2>1, <2>7, <2>8
<1>4. CASE client'.n = client.n /\ (client.at # "reply" /\ client.at # "exited")
  BY <1>4 DEF AskedInv
<1>5. CASE client'.n = client.n /\ client.asked # "QUIT" /\ client.at # "exited"
  BY <1>5 DEF AskedInv
<1>6. CASE client'.n = client.n /\ (client'.at = "exited" \/ (client.authenticated /\ client.at # "exited"))
  BY <1>6 DEF AskedInv
<1>7. CASE Read
  <2>1. client'.n = client.n
    BY <1>1, <1>7 DEF Read, Greeted, Reply, ReplyLost, HeadOfListing, Row, EndOfRows, Settle,
                      ClientTyped, Clients
  <2>2. CASE ~Reply /\ ~ReplyLost
    BY <1>4, <1>7, <2>1, <2>2 DEF Read, Greeted, HeadOfListing, Row, EndOfRows
  <2>3. CASE Reply /\ client.asked = "QUIT"
    <3>1. ~LoginAccepted(Head(down).kind)
      BY <2>3 DEF LoginAccepted, Logins
    <3>2. client' = [client EXCEPT !.at = "exited"]
      BY <2>3, <3>1 DEF Reply, Settle
    <3>3. client'.at = "exited"
      BY <1>1, <3>2 DEF ClientTyped, Clients
    <3> QED
      BY <1>6, <2>1, <3>3
  <2>4. CASE (Reply \/ ReplyLost) /\ client.asked # "QUIT"
    BY <1>5, <2>1, <2>4 DEF Reply, ReplyLost
  <2>5. CASE ReplyLost /\ client.asked = "QUIT"
    <3>1. client.at = "reply"
      BY <2>5 DEF ReplyLost
    <3>2. client.authenticated \/ client' = [client EXCEPT !.at = "exited"]
      BY <2>5 DEF ReplyLost, Settle
    <3>3. client.authenticated \/ client'.at = "exited"
      BY <1>1, <3>2 DEF ClientTyped, Clients
    <3> QED
      BY <1>6, <2>1, <3>1, <3>3
  <2> QED
    BY <2>2, <2>3, <2>4, <2>5
<1>8. CASE Connect \/ ClientEnds \/ TurnPage
  <2>1. client'.n = client.n
    BY <1>1, <1>8 DEF Connect, ClientEnds, TurnPage, ClientTyped, Clients
  <2>2. CASE Connect \/ TurnPage
    BY <1>4, <2>1, <2>2 DEF Connect, TurnPage
  <2>3. CASE ClientEnds
    <3>1. client'.at = "exited"
      BY <1>1, <2>3 DEF ClientEnds, ClientTyped, Clients
    <3> QED
      BY <1>6, <2>1, <3>1
  <2> QED
    BY <1>8, <2>2, <2>3
<1>9. CASE SendByte \/ Discard \/ Work \/ ServerStops
  <2>1. client' = client
    BY <1>9, WorkerSteps DEF SendByte, Discard
  <2> QED
    BY <1>2, <2>1
<1> QED
  BY <1>3, <1>7, <1>8, <1>9 DEF Next, User

\* A byte less on its way, at most one more in the buffer.
LEMMA ByteTaken ==
  ASSUME NEW n \in Nat, NEW p \in Nat, NEW u \in Nat, NEW m \in Nat, n + p + u <= m,
         NEW q \in {p, p + 1}
  PROVE  n + q + (u - 1) <= m
OBVIOUS

\* Another peer: what was handled, kept and is on its way was sent.
LEMMA ForeignNext ==
  ShapeInv /\ PeerInv /\ BufferInv /\ ForeignInv /\ sent \in Seq(ForeignBytes) /\ Next
    => ForeignInv' /\ sent' \in Seq(ForeignBytes)
<1> SUFFICES ASSUME ShapeInv, PeerInv, BufferInv, ForeignInv, sent \in Seq(ForeignBytes), Next
             PROVE  ForeignInv' /\ sent' \in Seq(ForeignBytes)
  OBVIOUS
<1> DEFINE part == Len(worker.reader.part)
<1>1. /\ ClientTyped /\ client.n \in Nat /\ worker.n \in Nat
      /\ worker.reader \in Readers /\ part \in Nat /\ Len(up) \in Nat /\ Len(sent) \in Nat
      /\ up \in Seq(Bytes)
  BY DEF ShapeInv, ClientTyped, Clients, WorkersTyped, Readers
<1>2. peer' = peer
  BY PeerNext
<1>3. CASE peer # "foreign"
  <2>1. sent' = sent
    BY <1>3, WorkerSteps
       DEF Next, User, Connect, Choose, Ask, AskInVain, TurnPage, Read, SendByte, Discard, ClientEnds,
           PeerInv, ShapeInv
  <2> QED
    BY <1>2, <1>3, <2>1 DEF ForeignInv
<1>4. ASSUME peer = "foreign", client'.n = client.n, sent' \in Seq(ForeignBytes),
             Len(sent') <= MaxForeign,
             worker'.n + Len(worker'.reader.part) + Len(up') <= Len(sent')
      PROVE  ForeignInv' /\ sent' \in Seq(ForeignBytes)
  BY <1>2, <1>4 DEF ForeignInv
<1>5. CASE peer = "foreign" /\ (Work \/ ServerStops)
  <2>1. client' = client /\ sent' = sent
    BY <1>5, WorkerSteps
  <2>2. worker'.n + Len(worker'.reader.part) + Len(up') <= Len(sent)
    <3>1. worker.n + part + Len(up) <= Len(sent)
      BY <1>5 DEF ForeignInv
    <3>2. CASE Taking
      <4>1. Head(up) \in Bytes /\ Len(up') = Len(up) - 1
        BY <1>1, <3>2, OneLess DEF Taking
      <4>2. Len(worker'.reader.part) \in {part, part + 1}
        BY <1>1, <3>2, <4>1, TakenPart DEF Taking, BufferInv
      <4>3. worker'.n = worker.n
        BY <3>2 DEF Taking
      <4> QED
        BY <1>1, <3>1, <4>1, <4>2, <4>3, ByteTaken
    <3>3. CASE Handling
      <4>1. worker'.n = worker.n + 1 /\ Len(worker'.reader.part) = 0 /\ up' = up
        BY <3>3, NothingParts DEF Handling
      <4>2. part > 0
        BY <1>1, <3>3 DEF Handling, Readers
      <4> QED
        BY <1>1, <3>1, <4>1, <4>2
    <3>4. CASE Passing
      <4>1. /\ worker'.n = worker.n /\ up' = up
            /\ Len(worker'.reader.part) = part \/ Len(worker'.reader.part) = 0
        BY <3>4, NothingParts DEF Passing
      <4> QED
        BY <1>1, <3>1, <4>1
    <3> QED
      BY <1>5, <3>2, <3>3, <3>4, WorkerSteps
  <2> QED
    BY <1>4, <1>5, <2>1, <2>2 DEF ForeignInv
<1>6. CASE peer = "foreign" /\ (Connect \/ Discard)
  <2>1. client'.n = client.n /\ UNCHANGED <<worker, up, sent>>
    BY <1>1, <1>6 DEF Connect, Discard, ClientTyped, Clients
  <2> QED
    BY <1>4, <1>6, <2>1 DEF ForeignInv
<1>7. CASE peer = "foreign" /\ SendByte
  <2>1. PICK b \in ForeignBytes : up' = Append(up, b) /\ sent' = Append(sent, b)
    BY <1>7 DEF SendByte
  <2>2. b \in Bytes
    BY DEF Bytes
  <2>3. Len(up') = Len(up) + 1 /\ Len(sent') = Len(sent) + 1 /\ sent' \in Seq(ForeignBytes)
    BY <1>1, <2>1, <2>2
  <2>4. Len(sent) < MaxForeign /\ MaxForeign \in Nat /\ worker' = worker /\ client' = client
    BY <1>7, SessionAssumption DEF SendByte
  <2>5. Len(sent') <= MaxForeign /\ worker'.n + Len(worker'.reader.part) + Len(up') <= Len(sent')
    <3>1. worker.n + part + Len(up) <= Len(sent)
      BY <1>7 DEF ForeignInv
    <3> QED
      BY <1>1, <2>3, <2>4, <3>1
  <2> QED
    BY <1>4, <1>7, <2>3, <2>4, <2>5
<1>8. CASE peer = "foreign" /\ ClientEnds
  <2>1. PICK cut \in 0 .. Len(up) : /\ up' = SubSeq(up, 1, Len(up) - cut)
                                   /\ sent' = SubSeq(sent, 1, Len(sent) - cut)
    BY <1>8 DEF ClientEnds
  <2>2. client'.n = client.n /\ worker' = worker
    BY <1>1, <1>8 DEF ClientEnds, ClientTyped, Clients
  <2>3. worker.n + part + Len(up) <= Len(sent) /\ Len(sent) <= MaxForeign /\ MaxForeign \in Nat
    BY <1>8, SessionAssumption DEF ForeignInv
  <2>4. cut \in Nat /\ cut <= Len(up) /\ cut <= Len(sent)
    BY <1>1, <2>3
  <2>5. Len(up) - cut \in 0 .. Len(up) /\ Len(sent) - cut \in 0 .. Len(sent)
    BY <1>1, <2>4
  <2>6. Len(up') = Len(up) - cut /\ Len(sent') = Len(sent) - cut /\ sent' \in Seq(ForeignBytes)
    BY <1>1, <2>1, <2>5
  <2>7. Len(sent') <= MaxForeign /\ worker'.n + Len(worker'.reader.part) + Len(up') <= Len(sent')
    BY <1>1, <2>2, <2>3, <2>4, <2>6
  <2> QED
    BY <1>4, <1>8, <2>2, <2>6, <2>7
<1>9. peer = "foreign" => ~Choose /\ ~TurnPage /\ ~Read
  BY DEF PeerInv, Choose, TurnPage, Read, Greeted, Reply, ReplyLost, HeadOfListing, Row, EndOfRows
<1> QED
  BY <1>3, <1>5, <1>6, <1>7, <1>8, <1>9 DEF Next, User


\* The request that is on its way, or what is left of it when its sender has ended.
LEMMA TransitIsLastLine ==
  ASSUME Session, InTransit
  PROVE  LastLine
<1>1. worker.n + 1 = client.n /\ worker.n \in Nat /\ client.n \in Nat
  BY SessionFacts DEF InTransit, WorkersTyped, Clients
<1>2. client.asked \in Commands \cup {"none"}
  BY SessionFacts DEF Clients
<1> DEFINE c == client.asked
<1>3. c # NL /\ "args" # NL
  BY <1>2 DEF NL, Commands, AdminCommands, CustomerCommands, Logins, Bare, Listings
<1>4. ASSUME NEW rest, NEW part, NEW complete \in BOOLEAN, Travelling(rest, part, complete),
             Len(part) + Len(rest) <= 3, complete => rest = << >>,
             \A i \in 1 .. Len(rest) - 1 : rest[i] # NL
      PROVE  LastLine
  <2>1. up = rest /\ worker.reader.part = part /\ worker.reader.complete = complete
    BY <1>4 DEF Travelling
  <2> QED
    BY <1>1, <1>4, <2>1 DEF LastLine
<1>5. /\ Len(<<c, NL>>) = 2 /\ Len(<<NL>>) = 1 /\ Len(<<c>>) = 1 /\ Len(<<c, "args", NL>>) = 3
      /\ Len(<<"args", NL>>) = 2 /\ Len(<<c, "args">>) = 2 /\ Len(<< >>) = 0
      /\ <<c, NL>>[1] = c /\ <<c, "args", NL>>[1] = c /\ <<c, "args", NL>>[2] = "args"
      /\ <<"args", NL>>[1] = "args"
  OBVIOUS
<1>6. /\ \A i \in 1 .. Len(<<c, NL>>) - 1 : <<c, NL>>[i] # NL
      /\ \A i \in 1 .. Len(<<NL>>) - 1 : <<NL>>[i] # NL
      /\ \A i \in 1 .. Len(<< >>) - 1 : << >>[i] # NL
      /\ \A i \in 1 .. Len(<<"args", NL>>) - 1 : <<"args", NL>>[i] # NL
      /\ \A i \in 1 .. Len(<<c, "args", NL>>) - 1 : <<c, "args", NL>>[i] # NL
  <2>1. \A i \in 1 .. Len(<<c, NL>>) - 1 : <<c, NL>>[i] # NL
    BY <1>3, <1>5
  <2>2. \A i \in 1 .. Len(<<NL>>) - 1 : <<NL>>[i] # NL
    BY <1>5
  <2>3. \A i \in 1 .. Len(<< >>) - 1 : << >>[i] # NL
    BY <1>5
  <2>4. \A i \in 1 .. Len(<<"args", NL>>) - 1 : <<"args", NL>>[i] # NL
    BY <1>3, <1>5
  <2>5. \A i \in 1 .. Len(<<c, "args", NL>>) - 1 : <<c, "args", NL>>[i] # NL
    BY <1>3, <1>5
  <2> QED
    BY <2>1, <2>2, <2>3, <2>4, <2>5
<1>7. /\ Len(<< >>) + Len(<<c, NL>>) <= 3 /\ Len(<<c>>) + Len(<<NL>>) <= 3
      /\ Len(<<c>>) + Len(<< >>) <= 3 /\ Len(<< >>) + Len(<<c, "args", NL>>) <= 3
      /\ Len(<<c>>) + Len(<<"args", NL>>) <= 3 /\ Len(<<c, "args">>) + Len(<<NL>>) <= 3
      /\ Len(<<c, "args">>) + Len(<< >>) <= 3
  BY <1>5
<1>8. CASE BareOnWay
  BY <1>4, <1>6, <1>7, <1>8 DEF BareOnWay
<1>9. CASE OtherOnWay
  BY <1>4, <1>6, <1>7, <1>9 DEF OtherOnWay
<1> QED
  BY <1>8, <1>9 DEF InTransit

\* What a client that ends has cut does not add to what is left.
LEMMA CutSum ==
  ASSUME NEW p \in Nat, NEW u \in Nat, NEW cut \in Nat, p + u <= 3
  PROVE  p + (u - cut) <= 3
OBVIOUS

\* An end of retail_client leaves at most one line on its way.
LEMMA CutLastLine ==
  ASSUME up \in Seq(Bytes), NEW cut \in 0 .. Len(up), up' = SubSeq(up, 1, Len(up) - cut),
         worker' = worker, client'.n = client.n, worker.reader \in Readers
  PROVE  /\ LastLine => LastLine'
         /\ Idle => Idle'
<1>1. Len(up) \in Nat /\ cut \in Nat /\ cut <= Len(up) /\ Len(up) - cut \in 0 .. Len(up)
      /\ Len(worker.reader.part) \in Nat
  BY DEF Readers
<1>2. /\ Len(up') = Len(up) - cut /\ up' \in Seq(Bytes)
      /\ \A i \in 1 .. Len(up) - cut : up'[i] = up[i]
  BY <1>1
<1>3. up = << >> => up' = << >>
  <2>1. up = << >> => Len(up') = 0
    BY <1>1, <1>2
  <2> QED
    BY <1>2, <2>1, NoneLeft
<1>4. ASSUME LastLine PROVE LastLine'
  <2>1. \A i \in 1 .. Len(up') - 1 : i \in 1 .. Len(up) - 1 /\ up'[i] = up[i]
    BY <1>1, <1>2
  <2>2. Len(worker.reader.part) + Len(up) <= 3
    BY <1>4 DEF LastLine
  <2>3. Len(worker.reader.part) + Len(up') <= 3
    BY <1>1, <1>2, <2>2, CutSum
  <2> QED
    BY <1>3, <1>4, <2>1, <2>3 DEF LastLine
<1> QED
  BY <1>3, <1>4 DEF Idle

\* A request and its newline are at most three bytes.
LEMMA AtMostThree ==
  ASSUME NEW p \in Nat, NEW u \in Nat, p + u <= 3, u > 0, NEW q \in {p, p + 1}, NEW m \in Nat, m >= 4
  PROVE  q + (u - 1) <= 3 /\ (q = m - 1 => u - 1 = 0)
OBVIOUS

\* retail_client: no more lines are handled than it sent, and one at most after its end.
LEMMA RetailNext ==
  ShapeInv /\ SessionInv /\ BufferInv /\ RetailInv /\ Next => RetailInv'
<1> SUFFICES ASSUME ShapeInv, SessionInv, BufferInv, RetailInv, Next PROVE RetailInv'
  OBVIOUS
<1>0. peer' = peer
  BY PeerNext DEF SessionInv
<1> SUFFICES ASSUME peer = "retail"
             PROVE  /\ worker'.n <= client'.n
                    /\ (client'.at = "exited" /\ ~Gone') => Idle' \/ LastLine'
  BY <1>0 DEF RetailInv
<1>1. /\ ClientTyped /\ client.n \in Nat /\ worker.n \in Nat /\ up \in Seq(Bytes)
      /\ worker.reader \in Readers /\ Len(worker.reader.part) \in Nat
  BY DEF ShapeInv, ClientTyped, Clients, WorkersTyped, Readers
<1>2. worker.n <= client.n /\ ((client.at = "exited" /\ ~Gone) => Idle \/ LastLine)
  BY DEF RetailInv
<1>3. CASE Work \/ ServerStops
  <2>1. ~Gone /\ client' = client
    BY <1>3, WorkerSteps
  <2>2. CASE Taking
    <3>1. ~Idle /\ worker'.n = worker.n
      BY <2>2 DEF Idle, Taking
    <3>2. ASSUME LastLine PROVE LastLine'
      <4>1. /\ Head(up) \in Bytes /\ up' = Tail(up) /\ Len(up') = Len(up) - 1 /\ up' \in Seq(Bytes)
            /\ Len(up) \in Nat /\ Len(up) > 0 /\ Head(up) = up[1]
            /\ \A i \in 1 .. Len(up) - 1 : up'[i] = up[i + 1]
        BY <1>1, <2>2, OneLess DEF Taking
      <4> DEFINE part == Take(worker.reader, Head(up)).part
      <4>2. /\ Len(part) \in {Len(worker.reader.part), Len(worker.reader.part) + 1}
            /\ Take(worker.reader, Head(up)).complete => up[1] = NL \/ Len(part) = MaxLine - 1
        BY <1>1, <2>2, <4>1, TakenPart DEF Taking, BufferInv
      <4>3. worker'.reader.part = part /\ worker'.reader.complete = Take(worker.reader, Head(up)).complete
        BY <2>2 DEF Taking
      <4> HIDE DEF part
      <4>4. /\ Len(part) + Len(up') <= 3
            /\ Len(part) = MaxLine - 1 => Len(up') = 0
        <5>1. Len(worker.reader.part) + Len(up) <= 3 /\ MaxLine \in Nat /\ MaxLine >= 4
          BY <3>2, RequestsFit, MaxLineAssumption DEF LastLine
        <5> QED
          BY <1>1, <4>1, <4>2, <5>1, AtMostThree
      <4>5. up[1] = NL => Len(up') = 0
        <5>1. up[1] = NL => ~(1 \in 1 .. Len(up) - 1)
          BY <3>2 DEF LastLine
        <5> QED
          BY <4>1, <5>1
      <4>6. worker'.reader.complete => up' = << >>
        BY <4>1, <4>2, <4>3, <4>4, <4>5, NoneLeft
      <4>7. \A i \in 1 .. Len(up') - 1 : up'[i] # NL
        <5>1. \A i \in 1 .. Len(up') - 1 : i + 1 \in 1 .. Len(up) - 1 /\ i \in 1 .. Len(up) - 1
          BY <4>1
        <5> QED
          BY <3>2, <4>1, <5>1 DEF LastLine
      <4> QED
        BY <2>1, <3>1, <3>2, <4>3, <4>4, <4>6, <4>7 DEF LastLine
    <3> QED
      BY <1>2, <2>1, <3>1, <3>2
  <2>3. CASE Handling
    <3>1. ~Idle /\ worker.at = "recv"
      BY <2>3, NothingParts DEF Idle, Handling
    <3>2. worker.n < client.n
      <4>1. CASE client.at = "exited"
        BY <1>2, <2>1, <3>1, <4>1 DEF LastLine
      <4>2. CASE client.at # "exited"
        <5>1. InTransit
          BY <3>1, <4>2, OnItsWay DEF Session, Playing
        <5> QED
          BY <1>1, <5>1 DEF InTransit
      <4> QED
        BY <4>1, <4>2
    <3>3. worker'.n <= client'.n
      BY <1>1, <2>1, <2>3, <3>2 DEF Handling
    <3>4. client.at = "exited" => Idle'
      BY <1>2, <2>1, <2>3, <3>1 DEF Idle, LastLine, Handling, AtLine
    <3> QED
      BY <2>1, <3>3, <3>4
  <2>4. CASE Passing
    <3>1. worker'.n = worker.n /\ up' = up
      BY <2>4 DEF Passing
    <3>2. CASE worker'.reader = worker.reader
      BY <1>2, <2>1, <3>1, <3>2 DEF Idle, LastLine
    <3>3. CASE worker'.reader = Nothing /\ worker'.at = "closed"
      BY <1>2, <2>1, <3>1, <3>3 DEF Gone
    <3>4. CASE worker'.reader = Nothing /\ AtLine
      BY <1>2, <2>1, <3>1, <3>4 DEF Idle, LastLine, AtLine, Nothing
    <3> QED
      BY <2>4, <3>2, <3>3, <3>4 DEF Passing
  <2> QED
    BY <1>3, <2>2, <2>3, <2>4, WorkerSteps
<1>4. CASE ~(Work \/ ServerStops)
  <2>1. worker' = worker /\ client.at # "exited"
    BY <1>4 DEF Next, User, Connect, Choose, Ask, AskInVain, TurnPage, Read, Greeted, Reply, ReplyLost,
                HeadOfListing, Row, EndOfRows, SendByte, Discard, ClientEnds
  <2>2. Session
    BY <2>1 DEF Session, Playing
  <2>3. client'.n \in {client.n, client.n + 1}
    BY <1>1, <1>4 DEF Next, User, Connect, Choose, Ask, AskInVain, TurnPage, Read, Greeted, Reply,
                      ReplyLost, HeadOfListing, Row, EndOfRows, Settle, SendByte, Discard, ClientEnds,
                      ClientTyped, Clients
  <2>4. ASSUME client'.at = "exited", ~Gone PROVE Idle' \/ LastLine'
    <3>1. ServedInv /\ downEnd = "open"
      BY <2>2, <2>4, SessionFacts DEF Gone
    <3>2. CASE ClientEnds
      <4>1. Idle \/ InTransit
        <5>1. client.at \in {"greeting", "menu", "paging", "reply", "head", "rows"}
          BY <2>2, <3>2, SessionFacts DEF ClientEnds, Clients, ClientPlaces, Waiting
        <5> QED
          BY <3>1, <5>1 DEF ServedInv, AtGreeting, AtMenu, AtReply, AtHead, AtRows, Answered1
      <4>2. PICK cut \in 0 .. Len(up) : up' = SubSeq(up, 1, Len(up) - cut)
        BY <3>2 DEF ClientEnds
      <4>3. client'.n = client.n
        BY <1>1, <3>2 DEF ClientEnds, ClientTyped, Clients
      <4> QED
        BY <1>1, <2>1, <2>2, <4>1, <4>2, <4>3, TransitIsLastLine, CutLastLine
    <3>3. CASE Reply
      <4>1. down # << >> /\ client.at = "reply" /\ up' = up
        BY <3>3, <1>4 DEF Reply, Heard, Next, User, Connect, Choose, TurnPage, Read, SendByte, Discard,
           ClientEnds
      <4>2. Idle
        BY <3>1, <4>1 DEF ServedInv, AtReply, InTransit, Answered1
      <4> QED
        BY <2>1, <4>1, <4>2 DEF Idle
    <3>4. ~ReplyLost
      BY <3>1 DEF ReplyLost, Lost
    <3>5. ~(\E command \in MenuChoices : AskInVain(command))
      BY <3>1 DEF AskInVain
    <3>6. ASSUME NEW command \in MenuChoices, Ask(command) PROVE FALSE
      BY <1>1, <2>4, <3>6 DEF Ask, Expecting, ClientTyped, Clients
    <3>7. ~Connect /\ ~TurnPage /\ ~Greeted /\ ~HeadOfListing /\ ~Row /\ ~EndOfRows /\ ~SendByte
          /\ ~Discard
      BY <1>1, <2>1, <2>4 DEF Connect, TurnPage, Greeted, HeadOfListing, Row, EndOfRows, SendByte, Discard,
           Settle, ClientTyped, Clients
    <3> QED
      BY <1>4, <3>2, <3>3, <3>4, <3>5, <3>6, <3>7 DEF Next, User, Choose, Read
  <2> QED
    BY <1>1, <1>2, <2>1, <2>3, <2>4 DEF Gone
<1> QED
  BY <1>3, <1>4


\* Every line on its way was there before, or is about the worker's last command.
LEMMA DownSteps ==
  ASSUME ShapeInv, Next, NEW i \in 1 .. Len(down')
  PROVE  (\E j \in 1 .. Len(down) : down'[i].re = down[j].re) \/ down'[i].re = worker'.n
<1>1. down \in Seq(ReplyLine) /\ worker \in WorkersTyped /\ worker.n \in Nat
  BY DEF ShapeInv, WorkersTyped
<1>2. CASE down' = down
  BY <1>2
<1>3. CASE down # << >> /\ down' = Tail(down)
  <2>1. /\ Len(down) \in Nat /\ Len(down') = Len(down) - 1
        /\ \A k \in 1 .. Len(down) - 1 : down'[k] = down[k + 1]
    BY <1>1, <1>3, OneLess
  <2>2. i + 1 \in 1 .. Len(down) /\ down'[i] = down[i + 1]
    BY <2>1
  <2> QED
    BY <2>2
<1>4. ASSUME NEW line \in ReplyLine, Say(<<line>>), line.re = worker'.n
      PROVE  (\E j \in 1 .. Len(down) : down'[i].re = down[j].re) \/ down'[i].re = worker'.n
  <2>1. CASE down' = down
    BY <2>1
  <2>2. CASE down' = down \o <<line>>
    <3>1. /\ Len(down) \in Nat /\ Len(down') = Len(down) + 1
          /\ \A k \in 1 .. Len(down) : down'[k] = down[k]
          /\ down'[Len(down) + 1] = line
      BY <1>1, <2>2, OneMore
    <3>2. i \in 1 .. Len(down) \/ i = Len(down) + 1
      BY <3>1
    <3> QED
      BY <1>4, <3>1, <3>2
  <2> QED
    BY <1>4, <2>1, <2>2 DEF Say
<1>5. CASE Welcome
  <2>1. worker'.n = worker.n /\ Line("OK").re = worker.n /\ Say(<<Line("OK")>>)
    BY <1>1, <1>5 DEF Welcome, Line, WorkersTyped
  <2>2. Line("OK") \in ReplyLine
    BY LineType DEF Line, AllKinds
  <2> QED
    BY <1>4, <2>1, <2>2
<1>6. CASE Obey
  <2>1. CASE worker.reader.part = << >>
    BY <1>2, <1>6, <2>1 DEF Obey
  <2>2. CASE worker.reader.part # << >>
    <3>1. Handle(worker.reader.part)
      BY <1>6, <2>2 DEF Obey
    <3>2. PICK kind \in {"OK", "OK LOGIN", "ERR"} : Answer(kind)
      BY <3>1 DEF Handle, LogIn, LogOut, BeginListing, Succeed, Quit, Refuse
    <3> DEFINE line == [re |-> worker.n + 1, kind |-> kind, category |-> "none"]
    <3>3. line \in ReplyLine /\ line.re = worker.n + 1
      BY LineType DEF AllKinds
    <3>4. Say(<<line>>)
      BY <3>2 DEF Answer
    <3>5. worker'.n = worker.n + 1
      BY <3>1, HandleShape
    <3> HIDE DEF line
    <3> QED
      BY <1>4, <3>3, <3>4, <3>5
  <2> QED
    BY <2>1, <2>2
<1>7. CASE SendRow
  <2>1. PICK category \in Categories : Say(<<[re |-> worker.n, kind |-> "DATA", category |-> category]>>)
    BY <1>7 DEF SendRow
  <2> DEFINE line == [re |-> worker.n, kind |-> "DATA", category |-> category]
  <2>2. line \in ReplyLine /\ line.re = worker.n
    BY LineType DEF AllKinds
  <2>3. worker'.n = worker.n
    BY <1>1, <1>7 DEF SendRow, WorkersTyped
  <2>4. Say(<<line>>)
    BY <2>1
  <2> HIDE DEF line
  <2> QED
    BY <1>4, <2>2, <2>3, <2>4
<1>8. CASE SendEnd
  <2>1. worker'.n = worker.n /\ Line("END").re = worker.n /\ Say(<<Line("END")>>)
    BY <1>1, <1>8 DEF SendEnd, Line, WorkersTyped
  <2>2. Line("END") \in ReplyLine
    BY LineType DEF Line, AllKinds
  <2> QED
    BY <1>4, <2>1, <2>2
<1>9. CASE ServerStops
  <2>1. down' \in WithCut(down) \/ down' \in Prefixes(down)
    BY <1>9 DEF ServerStops
  <2>2. /\ Len(down') <= Len(down) /\ Len(down') \in Nat /\ Len(down) \in Nat
        /\ down'[i].re = down[i].re
    BY <1>1, <2>1, CutShort
  <2>3. i \in 1 .. Len(down)
    BY <2>2
  <2> QED
    BY <2>2, <2>3
<1>10. CASE Receive \/ HangUp \/ Connect \/ User \/ SendByte \/ ClientEnds
  BY <1>2, <1>10 DEF Receive, HangUp, Connect, User, Choose, Ask, AskInVain, TurnPage, SendByte, ClientEnds
<1>11. CASE Read \/ Discard
  <2>1. (\E kinds : Heard(kinds)) \/ Lost \/ Discard
    BY <1>11 DEF Read, Greeted, Reply, ReplyLost, HeadOfListing, Row, EndOfRows
  <2> QED
    BY <1>2, <1>3, <2>1 DEF Heard, Lost, Discard
<1> QED
  BY <1>5, <1>6, <1>7, <1>8, <1>9, <1>10, <1>11 DEF Next, Work

\* Replies are about commands the worker has handled, of which there are not more
\* than its peer asked for.
LEMMA RepliesNext ==
  ASSUME ShapeInv, ShapeInv', RepliesInv, AskedInv', RetailInv', ForeignInv',
         sent' \in Seq(ForeignBytes), Next
  PROVE  RepliesInv'
<1> DEFINE most == MaxRequests + MaxForeign + 1
<1>1. MaxRequests \in Nat /\ MaxForeign \in Nat /\ most \in Nat
  BY SessionAssumption
<1>2. /\ worker'.n \in Nat /\ client'.n \in Nat /\ peer' \in {"retail", "foreign"}
      /\ Len(worker'.reader.part) \in Nat /\ Len(up') \in Nat /\ Len(sent') \in Nat
  BY DEF ShapeInv, ClientTyped, Clients, WorkersTyped, Readers
<1>3. worker'.n <= most
  <2>1. CASE peer' = "retail"
    <3>1. worker'.n <= client'.n
      BY <2>1 DEF RetailInv
    <3>2. client'.n <= MaxRequests + 1
      BY <1>1, <1>2 DEF AskedInv
    <3> QED
      BY <1>1, <1>2, <3>1, <3>2
  <2>2. CASE peer' = "foreign"
    <3>1. worker'.n + Len(worker'.reader.part) + Len(up') <= Len(sent') /\ Len(sent') <= MaxForeign
      BY <2>2 DEF ForeignInv
    <3> QED
      BY <1>1, <1>2, <3>1
  <2> QED
    BY <1>2, <2>1, <2>2
<1> HIDE DEF most
<1>4. ASSUME NEW i \in 1 .. Len(down') PROVE down'[i].re <= most
  BY <1>3, DownSteps DEF RepliesInv, most
<1> QED
  BY <1>4 DEF RepliesInv, most

\* What the client keeps of a listing fits its arrays.
LEMMA StoreFits ==
  ASSUME NEW listing, Fits(listing), NEW category \in RowOf
  PROVE  Fits(Store(listing, category))
<1>1. MaxShown \in Nat /\ MaxCategories \in Nat
  BY PagesAssumption
<1>2. CASE Len(listing.rows) >= MaxShown
  BY <1>2 DEF Store
<1>3. CASE ~(Len(listing.rows) >= MaxShown)
  <2> DEFINE rows == Append(listing.rows, category)
             categories == IF Cardinality(listing.categories) < MaxCategories
                           THEN listing.categories \cup {category}
                           ELSE listing.categories
  <2>1. rows \in Seq(RowOf) /\ Len(rows) <= MaxShown
    <3>1. listing.rows \in Seq(RowOf) /\ Len(listing.rows) \in Nat
      BY DEF Fits
    <3>2. Len(rows) = Len(listing.rows) + 1 /\ rows \in Seq(RowOf)
      BY <3>1
    <3> QED
      BY <1>1, <1>3, <3>1, <3>2
  <2>2. IsFiniteSet(categories) /\ Cardinality(categories) <= MaxCategories
    <3>1. IsFiniteSet(listing.categories) /\ Cardinality(listing.categories) <= MaxCategories
      BY DEF Fits
    <3>2. Cardinality(listing.categories) \in Nat
      BY <3>1, FS_CardinalityType
    <3>3. /\ IsFiniteSet(listing.categories \cup {category})
          /\ Cardinality(listing.categories \cup {category})
               = IF category \in listing.categories THEN Cardinality(listing.categories)
                                                    ELSE Cardinality(listing.categories) + 1
      BY <3>1, FS_AddElement
    <3> QED
      BY <1>1, <3>1, <3>2, <3>3
  <2>3. Store(listing, category) = [rows |-> rows, categories |-> categories]
    BY <1>3 DEF Store
  <2> HIDE DEF rows, categories
  <2> QED
    BY <2>1, <2>2, <2>3 DEF Fits
<1> QED
  BY <1>2, <1>3

\* The arrays are empty at first.
LEMMA NoListingFits == Fits(NoListing)
BY FS_EmptySet, PagesAssumption DEF Fits, NoListing

\* What becomes of the rows that were kept.
LEMMA ListingSteps ==
  ASSUME ShapeInv, Next
  PROVE  \/ client'.listing \in {client.listing, NoListing}
         \/ \E category \in RowOf : client'.listing = Store(client.listing, category)
<1>1. ClientTyped
  BY DEF ShapeInv
<1>3. CASE Row
  <2>1. CASE client' = client
    BY <2>1
  <2>2. CASE client' = [client EXCEPT !.listing = Store(@, Head(down).category)]
    <3>1. Head(down) \in ReplyLine
      BY <1>3, TailType DEF Row, Heard
    <3>2. Head(down).category \in RowOf
      BY <3>1 DEF ReplyLine, RowOf
    <3>3. client'.listing = Store(client.listing, Head(down).category)
      BY <1>1, <2>2 DEF ClientTyped, Clients
    <3> QED
      BY <3>2, <3>3
  <2> QED
    BY <1>3, <2>1, <2>2 DEF Row
<1>4. CASE Choose
  <2>1. PICK command \in MenuChoices : Ask(command) \/ AskInVain(command)
    BY <1>4 DEF Choose
  <2> QED
    BY <1>1, <2>1 DEF Ask, AskInVain, ClientTyped, Clients
<1>5. CASE Connect \/ ClientEnds \/ TurnPage
  BY <1>1, <1>5 DEF Connect, ClientEnds, TurnPage, ClientTyped, Clients
<1>6. CASE Read /\ ~Row
  BY <1>1, <1>6 DEF Read, Greeted, Reply, ReplyLost, HeadOfListing, EndOfRows, Settle,
                    ClientTyped, Clients
<1>7. CASE SendByte \/ Discard \/ Work \/ ServerStops
  BY <1>7, WorkerSteps DEF SendByte, Discard
<1> QED
  BY <1>3, <1>4, <1>5, <1>6, <1>7 DEF Next, User

\* The arrays are never overrun.
LEMMA ListingNext == ShapeInv /\ ListingInv /\ Next => ListingInv'
<1> SUFFICES ASSUME ShapeInv, ListingInv, Next PROVE ListingInv'
  OBVIOUS
<1>1. \A category \in RowOf : Fits(Store(client.listing, category))
  BY StoreFits DEF ListingInv
<1> QED
  BY <1>1, ListingSteps, NoListingFits DEF ListingInv

BoundsInv ==
  /\ AskedInv /\ RetailInv /\ ForeignInv /\ sent \in Seq(ForeignBytes)
  /\ BufferInv /\ LeftInv /\ EndsInv /\ RepliesInv /\ ListingInv

\* The bounds hold at the start ...
LEMMA BoundsInit == Init => BoundsInv
<1> SUFFICES ASSUME Init PROVE BoundsInv
  OBVIOUS
<1>1. MaxRequests \in Nat /\ MaxForeign \in Nat /\ MaxRows \in Nat
  BY SessionAssumption
<1>2. client.n = 0 /\ worker.n = 0 /\ client.at = "start" /\ client.listing = NoListing
      /\ worker.reader = Nothing /\ worker.left = 0
  BY DEF Init
<1>3. up = << >> /\ down = << >> /\ sent = << >> /\ upEnd = "open" /\ downEnd = "open"
  BY DEF Init
<1>4. sent \in Seq(ForeignBytes) /\ Len(sent) = 0 /\ Len(up) = 0 /\ Len(down) = 0
  BY <1>3
<1>5. AskedInv
  BY <1>1, <1>2 DEF AskedInv
<1>6. RetailInv /\ ForeignInv
  BY <1>1, <1>2, <1>4, NothingParts DEF RetailInv, ForeignInv
<1>7. BufferInv
  BY <1>2, NothingParts, RequestsFit, MaxLineAssumption DEF BufferInv
<1>8. LeftInv /\ EndsInv /\ RepliesInv
  BY <1>1, <1>2, <1>3, <1>4 DEF LeftInv, EndsInv, Ends, RepliesInv
<1>9. ListingInv
  BY <1>2, NoListingFits DEF ListingInv
<1> QED
  BY <1>4, <1>5, <1>6, <1>7, <1>8, <1>9 DEF BoundsInv

\* ... and every step keeps them.
LEMMA BoundsNext ==
  ShapeInv /\ SessionInv /\ BoundsInv /\ [Next]_vars => BoundsInv'
<1> SUFFICES ASSUME ShapeInv, SessionInv, BoundsInv, [Next]_vars PROVE BoundsInv'
  OBVIOUS
<1>1. CASE UNCHANGED vars
  BY <1>1 DEF vars, BoundsInv, AskedInv, RetailInv, ForeignInv, BufferInv, LeftInv, EndsInv,
              RepliesInv, ListingInv, Idle, LastLine, Gone
<1>2. CASE Next
  <2>1. ShapeInv' /\ PeerInv
    BY <1>2, ShapeNext DEF SessionInv
  <2>2. AskedInv' /\ BufferInv' /\ LeftInv' /\ EndsInv' /\ ListingInv'
    BY <1>2, AskedNext, BufferNext, LeftNext, EndsNext, ListingNext DEF BoundsInv
  <2>3. RetailInv'
    BY <1>2, RetailNext DEF BoundsInv
  <2>4. ForeignInv' /\ sent' \in Seq(ForeignBytes)
    BY <1>2, <2>1, ForeignNext DEF BoundsInv
  <2>5. RepliesInv'
    BY <1>2, <2>1, <2>2, <2>3, <2>4, RepliesNext DEF BoundsInv
  <2> QED
    BY <2>2, <2>3, <2>4, <2>5 DEF BoundsInv
<1> QED
  BY <1>1, <1>2

\* TypeOK: the two ends and what is between them keep their types, no reply is about a
\* command that was not asked for, and a line never fills more of the buffer than
\* leaves room for the final zero (server_net.c:56-88).
THEOREM TypeCorrect == Spec => []TypeOK
<1>1. Init => ShapeInv /\ SessionInv /\ BoundsInv
  BY ShapeInit, SessionInit, BoundsInit
<1>2. ShapeInv /\ SessionInv /\ BoundsInv /\ [Next]_vars => (ShapeInv /\ SessionInv /\ BoundsInv)'
  BY ShapeNext, SessionNext, BoundsNext
<1>3. ShapeInv /\ BoundsInv => TypeOK
  <2> SUFFICES ASSUME ShapeInv, BoundsInv PROVE TypeOK
    OBVIOUS
  <2>1. /\ client.at \in {"start", "menu", "paging", "exited", "foreign"} \cup Waiting
        /\ client.authenticated \in BOOLEAN /\ client.role \in {"none", "ADMIN", "CUSTOMER"}
        /\ client.asked \in Commands \cup {"none"} /\ client.n \in Nat
    BY DEF ShapeInv, ClientTyped, Clients, ClientPlaces, Roles
  <2>2. client.n \in 0 .. MaxRequests + 1
    BY <2>1, SessionAssumption DEF BoundsInv, AskedInv
  <2>3. /\ worker.at \in {"welcome", "recv", "rows", "closed"} /\ worker.authenticated \in BOOLEAN
        /\ worker.role \in {"none", "ADMIN", "CUSTOMER"}
    BY DEF ShapeInv, WorkersTyped, WorkerPlaces, Roles
  <2>4. ASSUME NEW i \in DOMAIN down PROVE down[i] \in Replies
    <3>1. i \in 1 .. Len(down) /\ down[i] \in ReplyLine
      BY DEF ShapeInv
    <3>2. down[i].re <= MaxRequests + MaxForeign + 1
      BY <3>1 DEF BoundsInv, RepliesInv
    <3>3. down[i].re \in 0 .. MaxRequests + MaxForeign + 1
      BY <3>1, <3>2, SessionAssumption DEF ReplyLine
    <3> QED
      BY <3>1, <3>3 DEF ReplyLine, Replies, AllKinds
  <2> QED
    BY <2>1, <2>2, <2>3, <2>4
       DEF TypeOK, BoundsInv, BufferInv, LeftInv, EndsInv, ListingInv, Fits
<1> QED
  BY <1>1, <1>2, <1>3, PTL DEF Spec

-----------------------------------------------------------------------------
(* Sequences put end to end *)

\* A set of natural numbers that has an element has a least one.
LEMMA LeastNatural ==
  ASSUME NEW T \in SUBSET Nat, T # {}
  PROVE  \E m \in T : m \in Nat /\ \A n \in Nat : n < m => n \notin T
<1> DEFINE Less == {ss \in Nat \X Nat : ss[1] < ss[2]}
<1>1. IsWellFoundedOn(Less, Nat)
  BY NatLessThanWellFounded DEF OpToRel
<1>2. \A m, n \in Nat : <<n, m>> \in Less <=> n < m
  OBVIOUS
<1> HIDE DEF Less
<1>3. \E m \in T : \A n \in T : ~(<<n, m>> \in Less)
  BY <1>1, WFMin
<1> QED
  BY <1>2, <1>3

\* How FlattenSeq is computed: one sequence after the other.
OneFurther(seqs, f, i) == IF i = 1 THEN seqs[i] ELSE f[i - 1] \o seqs[i]
Flattens(f, seqs) == f = [i \in 1 .. Len(seqs) |-> OneFurther(seqs, f, i)]

\* That recursion has a solution.
LEMMA FlattenExists ==
  ASSUME NEW X, NEW seqs \in Seq(X)
  PROVE  \E f : Flattens(f, seqs)
<1> DEFINE Good(n) == \E f : \A i \in 1 .. n : f[i] = OneFurther(seqs, f, i)
<1>1. Good(0)
  OBVIOUS
<1>2. ASSUME NEW n \in Nat, Good(n) PROVE Good(n + 1)
  <2> PICK f : \A i \in 1 .. n : f[i] = OneFurther(seqs, f, i)
    BY <1>2
  <2> DEFINE g == [i \in 1 .. n + 1 |-> IF i <= n THEN f[i] ELSE OneFurther(seqs, f, i)]
  <2>1. ASSUME NEW i \in 1 .. n + 1 PROVE g[i] = OneFurther(seqs, f, i)
    BY <2>1
  <2>2. ASSUME NEW i \in 1 .. n + 1, i # 1 PROVE g[i - 1] = f[i - 1]
    <3>1. i - 1 \in 1 .. n + 1 /\ i - 1 <= n
      BY <2>2
    <3> QED
      BY <3>1
  <2> HIDE DEF g
  <2>3. ASSUME NEW i \in 1 .. n + 1 PROVE g[i] = OneFurther(seqs, g, i)
    BY <2>1, <2>2, <2>3 DEF OneFurther
  <2> QED
    BY <2>3
<1> HIDE DEF Good
<1>3. Good(Len(seqs))
  <2> DEFINE T == {n \in Nat : ~Good(n)}
  <2>1. SUFFICES ASSUME T # {} PROVE FALSE
    OBVIOUS
  <2>2. PICK m \in T : m \in Nat /\ \A n \in Nat : n < m => n \notin T
    BY <2>1, LeastNatural
  <2>3. m # 0
    BY <1>1
  <2>4. m - 1 \in Nat /\ Good(m - 1)
    BY <2>2, <2>3
  <2> QED
    BY <1>2, <2>4
<1>4. PICK f : \A i \in 1 .. Len(seqs) : f[i] = OneFurther(seqs, f, i)
  BY <1>3 DEF Good
<1> DEFINE g == [i \in 1 .. Len(seqs) |-> f[i]]
<1>5. ASSUME NEW i \in 1 .. Len(seqs) PROVE f[i] = OneFurther(seqs, g, i)
  <2>1. i # 1 => i - 1 \in 1 .. Len(seqs)
    OBVIOUS
  <2>2. i # 1 => g[i - 1] = f[i - 1]
    BY <2>1
  <2> QED
    BY <1>4, <2>2 DEF OneFurther
<1>6. Flattens(g, seqs)
  BY <1>5 DEF Flattens
<1> QED
  BY <1>6

\* What FlattenSeq gives is the last step of a solution.
LEMMA FlattenSolution ==
  ASSUME NEW X, NEW seqs \in Seq(X), seqs # << >>
  PROVE  \E f : Flattens(f, seqs) /\ FlattenSeq(seqs) = f[Len(seqs)]
<1> DEFINE f == CHOOSE f : Flattens(f, seqs)
<1>1. Flattens(f, seqs)
  BY FlattenExists
<1>2. Len(seqs) # 0
  OBVIOUS
<1>3. FlattenSeq(seqs) = f[Len(seqs)]
  BY <1>2 DEF FlattenSeq, Flattens, OneFurther
<1> QED
  BY <1>1, <1>3

\* No sequences leave none.
LEMMA FlattenEmpty == FlattenSeq(<< >>) = << >>
  BY DEF FlattenSeq

Begins(more, seqs) ==
  Len(seqs) <= Len(more) /\ \A i \in 1 .. Len(seqs) : seqs[i] = more[i]

\* Two solutions agree on the sequences that are the same.
LEMMA FlattenUnique ==
  ASSUME NEW X, NEW seqs \in Seq(X), NEW more \in Seq(X), Begins(more, seqs),
         NEW f, Flattens(f, seqs), NEW g, Flattens(g, more)
  PROVE  \A k \in 1 .. Len(seqs) : f[k] = g[k]
<1> USE DEF Begins
<1> SUFFICES ASSUME NEW k \in 1 .. Len(seqs) PROVE f[k] = g[k]
  OBVIOUS
<1> DEFINE T == {n \in Nat : n \in 1 .. Len(seqs) /\ f[n] # g[n]}
<1>1. SUFFICES ASSUME f[k] # g[k] PROVE FALSE
  OBVIOUS
<1>2. k \in T /\ T \in SUBSET Nat
  BY <1>1
<1> HIDE DEF T
<1>3. PICK m \in T : m \in Nat /\ \A n \in Nat : n < m => n \notin T
  BY <1>2, LeastNatural
<1>4. m \in 1 .. Len(seqs) /\ f[m] # g[m] /\ m \in 1 .. Len(more) /\ Len(seqs) \in Nat /\ Len(more) \in Nat
  BY <1>3 DEF T
<1>5. f[m] = OneFurther(seqs, f, m) /\ g[m] = OneFurther(more, g, m)
  BY <1>4 DEF Flattens
<1>6. m # 1 => f[m - 1] = g[m - 1]
  <2> SUFFICES ASSUME m # 1 PROVE f[m - 1] = g[m - 1]
    OBVIOUS
  <2>1. m - 1 \in Nat /\ m - 1 < m /\ m - 1 \in 1 .. Len(seqs)
    BY <1>4
  <2>2. m - 1 \notin T
    BY <1>3, <2>1
  <2> QED
    BY <2>1, <2>2 DEF T
<1> QED
  BY <1>4, <1>5, <1>6 DEF OneFurther

\* One sequence more is put behind the others.
LEMMA FlattenAppend ==
  ASSUME NEW X, NEW seqs \in Seq(Seq(X)), NEW s \in Seq(X)
  PROVE  FlattenSeq(Append(seqs, s)) = FlattenSeq(seqs) \o s
<1> DEFINE more == Append(seqs, s)
<1>1. /\ more \in Seq(Seq(X)) /\ Len(seqs) \in Nat /\ Len(more) = Len(seqs) + 1
      /\ \A i \in 1 .. Len(seqs) : seqs[i] = more[i]
      /\ more[Len(seqs) + 1] = s /\ more # << >>
  <2> DEFINE Y == Seq(X)
  <2>1. seqs \in Seq(Y) /\ s \in Y
    OBVIOUS
  <2> HIDE DEF Y
  <2>2. /\ more \in Seq(Y) /\ Len(seqs) \in Nat /\ Len(more) = Len(seqs) + 1
        /\ \A i \in 1 .. Len(seqs) : more[i] = seqs[i]
        /\ more[Len(seqs) + 1] = s /\ more # << >>
    BY <2>1, AppendProperties
  <2> QED
    BY <2>2 DEF Y
<1> HIDE DEF more
<1>2. PICK g : Flattens(g, more) /\ FlattenSeq(more) = g[Len(more)]
  BY <1>1, FlattenSolution
<1>3. g[Len(more)] = OneFurther(more, g, Len(more))
  <2>1. Len(more) \in 1 .. Len(more)
    BY <1>1
  <2> QED
    BY <1>2, <2>1 DEF Flattens
<1>4. CASE seqs = << >>
  <2>1. Len(more) = 1 /\ more[Len(more)] = s
    BY <1>1, <1>4
  <2>2. FlattenSeq(more) = s
    BY <1>2, <1>3, <2>1 DEF OneFurther
  <2>3. << >> \o s = s
    BY ConcatEmptySeq
  <2> QED
    BY <1>4, <2>2, <2>3, FlattenEmpty DEF more
<1>5. CASE seqs # << >>
  <2>1. PICK f : Flattens(f, seqs) /\ FlattenSeq(seqs) = f[Len(seqs)]
    BY <1>5, FlattenSolution
  <2>2. Len(seqs) \in 1 .. Len(seqs) /\ Len(more) # 1 /\ Len(more) - 1 = Len(seqs)
        /\ Len(seqs) <= Len(more)
    BY <1>1, <1>5
  <2>3. f[Len(seqs)] = g[Len(seqs)]
    <3> DEFINE Y == Seq(X)
    <3>1. seqs \in Seq(Y) /\ more \in Seq(Y)
      BY <1>1
    <3>2. /\ Flattens(f, seqs) /\ Flattens(g, more) /\ Begins(more, seqs)
          /\ Len(seqs) \in 1 .. Len(seqs)
      BY <1>1, <1>2, <2>1, <2>2 DEF Begins
    <3> HIDE DEF Y
    <3> QED
      BY <3>1, <3>2, FlattenUnique
  <2>4. FlattenSeq(more) = g[Len(seqs)] \o s
    BY <1>1, <1>2, <1>3, <2>2 DEF OneFurther
  <2> QED
    BY <2>1, <2>3, <2>4 DEF more
<1> QED
  BY <1>4, <1>5

\* The parts of a flattened sequence are of its type.
LEMMA SolutionType ==
  ASSUME NEW X, NEW seqs \in Seq(Seq(X)), NEW f, Flattens(f, seqs), NEW k \in 1 .. Len(seqs)
  PROVE  f[k] \in Seq(X)
<1> DEFINE T == {n \in Nat : n \in 1 .. Len(seqs) /\ f[n] \notin Seq(X)}
<1> SUFFICES ASSUME f[k] \notin Seq(X) PROVE FALSE
  OBVIOUS
<1>1. T \in SUBSET Nat /\ k \in T
  OBVIOUS
<1> HIDE DEF T
<1>2. PICK m \in T : m \in Nat /\ \A n \in Nat : n < m => n \notin T
  BY <1>1, LeastNatural
<1>3. m \in 1 .. Len(seqs) /\ f[m] \notin Seq(X) /\ seqs[m] \in Seq(X)
  BY <1>2 DEF T
<1>4. f[m] = OneFurther(seqs, f, m)
  BY <1>3 DEF Flattens
<1>5. m # 1
  BY <1>3, <1>4 DEF OneFurther
<1>6. m - 1 \in Nat /\ m - 1 < m /\ m - 1 \in 1 .. Len(seqs)
  BY <1>3, <1>5
<1>7. f[m - 1] \in Seq(X)
  <2>1. m - 1 \notin T
    BY <1>2, <1>6
  <2> QED
    BY <1>6, <2>1 DEF T
<1> QED
  BY <1>3, <1>4, <1>5, <1>7 DEF OneFurther

\* What sequences of a type leave is of that type.
LEMMA FlattenType ==
  ASSUME NEW X, NEW seqs \in Seq(Seq(X))
  PROVE  FlattenSeq(seqs) \in Seq(X)
<1>1. CASE seqs = << >>
  BY <1>1, FlattenEmpty, EmptySeq
<1>2. CASE seqs # << >>
  <2>1. PICK f : Flattens(f, seqs) /\ FlattenSeq(seqs) = f[Len(seqs)]
    BY <1>2, FlattenSolution
  <2>2. Len(seqs) \in 1 .. Len(seqs)
    BY <1>2
  <2> QED
    BY <2>1, <2>2, SolutionType
<1> QED
  BY <1>1, <1>2

\* A sequence that is not empty leaves something.
LEMMA FlattenNonEmpty ==
  ASSUME NEW X, NEW seqs \in Seq(Seq(X)), NEW k \in 1 .. Len(seqs), seqs[k] # << >>
  PROVE  FlattenSeq(seqs) # << >>
<1>1. PICK f : Flattens(f, seqs) /\ FlattenSeq(seqs) = f[Len(seqs)]
  BY FlattenSolution
<1> DEFINE T == {n \in Nat : n \in k .. Len(seqs) /\ f[n] = << >>}
<1> SUFFICES ASSUME FlattenSeq(seqs) = << >> PROVE FALSE
  OBVIOUS
<1>2. T \in SUBSET Nat /\ Len(seqs) \in T
  BY <1>1
<1> HIDE DEF T
<1>3. PICK m \in T : m \in Nat /\ \A n \in Nat : n < m => n \notin T
  BY <1>2, LeastNatural
<1>4. m \in k .. Len(seqs) /\ m \in 1 .. Len(seqs) /\ f[m] = << >> /\ seqs[m] \in Seq(X) /\ k \in Nat
  BY <1>3 DEF T
<1>5. f[m] = OneFurther(seqs, f, m)
  BY <1>1, <1>4 DEF Flattens
<1>6. m # 1 => m - 1 \in 1 .. Len(seqs)
  BY <1>4
<1>7. m # 1 => f[m - 1] \in Seq(X)
  BY <1>1, <1>6, SolutionType
<1>8. seqs[m] = << >>
  <2>1. m # 1 => (f[m - 1] \o seqs[m] = << >> => seqs[m] = << >>)
    BY <1>4, <1>7, ConcatEqualIffEmpty
  <2> QED
    BY <1>4, <1>5, <2>1 DEF OneFurther
<1>9. m # k /\ m - 1 \in k .. Len(seqs)
  BY <1>4, <1>8
<1>10. m # 1 /\ m - 1 \in Nat /\ m - 1 < m
  BY <1>4, <1>9
<1>11. f[m - 1] # << >>
  <2>1. m - 1 \notin T
    BY <1>3, <1>10
  <2> QED
    BY <1>9, <1>10, <2>1 DEF T
<1>12. f[m - 1] \o seqs[m] # << >>
  BY <1>4, <1>7, <1>10, <1>11, ConcatEqualIffEmpty
<1> QED
  BY <1>4, <1>5, <1>10, <1>12 DEF OneFurther

-----------------------------------------------------------------------------
(* The text of bytes *)

\* What is kept of a byte is of its type, and so is the text of bytes.
LEMMA PrintedType ==
  ASSUME NEW X, NEW b \in X
  PROVE  Printed(b) \in Seq(X)
BY EmptySeq DEF Printed

LEMMA TextType ==
  ASSUME NEW X, NEW bytes \in Seq(X)
  PROVE  Text(bytes) \in Seq(X)
<1>1. \A i \in 1 .. Len(bytes) : Printed(bytes[i]) \in Seq(X)
  BY PrintedType, ElementOfSeq
<1>2. [i \in DOMAIN bytes |-> Printed(bytes[i])] \in Seq(Seq(X))
  BY <1>1
<1> QED
  BY <1>2, FlattenType DEF Text

\* The text of no bytes.
LEMMA TextEmpty == Text(<< >>) = << >>
<1> DEFINE none == [i \in DOMAIN << >> |-> Printed(<< >>[i])]
<1>1. none = << >>
  OBVIOUS
<1> QED
  BY <1>1, FlattenEmpty DEF Text

\* One byte more.
LEMMA TextAppend ==
  ASSUME NEW X, NEW bytes \in Seq(X), NEW b \in X
  PROVE  Text(Append(bytes, b)) = Text(bytes) \o Printed(b)
<1> DEFINE Y == Seq(X)
           more == Append(bytes, b)
           old == [i \in DOMAIN bytes |-> Printed(bytes[i])]
           new == [i \in DOMAIN more |-> Printed(more[i])]
<1>1. /\ more \in Seq(X) /\ Len(more) = Len(bytes) + 1 /\ Len(bytes) \in Nat
      /\ \A i \in 1 .. Len(bytes) : more[i] = bytes[i]
      /\ more[Len(bytes) + 1] = b
      /\ DOMAIN more = 1 .. Len(bytes) + 1 /\ DOMAIN bytes = 1 .. Len(bytes)
  BY AppendProperties, LenProperties
<1>2. \A i \in 1 .. Len(bytes) : Printed(bytes[i]) \in Y
  BY PrintedType, ElementOfSeq
<1>3. Printed(b) \in Y
  BY PrintedType
<1> HIDE DEF Y, more
<1>4. old \in Seq(Y) /\ Len(old) = Len(bytes) /\ \A i \in 1 .. Len(bytes) : old[i] = Printed(bytes[i])
  BY <1>1, <1>2
<1>5. \A i \in 1 .. Len(bytes) + 1 : Printed(more[i]) \in Y
  <2>1. ASSUME NEW i \in 1 .. Len(bytes) + 1 PROVE i \in 1 .. Len(bytes) \/ i = Len(bytes) + 1
    BY <1>1
  <2> QED
    BY <1>1, <1>2, <1>3, <2>1
<1>6. /\ new \in Seq(Y) /\ Len(new) = Len(bytes) + 1
      /\ \A i \in 1 .. Len(bytes) + 1 : new[i] = Printed(more[i])
  BY <1>1, <1>5
<1> HIDE DEF old, new
<1>7. /\ Append(old, Printed(b)) \in Seq(Y) /\ Len(Append(old, Printed(b))) = Len(bytes) + 1
      /\ \A i \in 1 .. Len(bytes) : Append(old, Printed(b))[i] = old[i]
      /\ Append(old, Printed(b))[Len(bytes) + 1] = Printed(b)
  BY <1>3, <1>4, AppendProperties
<1>8. \A i \in 1 .. Len(new) : new[i] = Append(old, Printed(b))[i]
  <2> SUFFICES ASSUME NEW i \in 1 .. Len(new) PROVE new[i] = Append(old, Printed(b))[i]
    OBVIOUS
  <2>1. i \in 1 .. Len(bytes) \/ i = Len(bytes) + 1
    BY <1>1, <1>6
  <2> QED
    BY <1>1, <1>4, <1>6, <1>7, <2>1
<1>9. new = Append(old, Printed(b))
  BY <1>6, <1>7, <1>8, SeqEqual
<1>10. FlattenSeq(Append(old, Printed(b))) = FlattenSeq(old) \o Printed(b)
  BY <1>3, <1>4, FlattenAppend DEF Y
<1> QED
  BY <1>9, <1>10 DEF Text, old, new, more

\* The text of two pieces is that of the one and that of the other.
LEMMA TextConcat ==
  ASSUME NEW X, NEW s \in Seq(X), NEW t \in Seq(X)
  PROVE  Text(s \o t) = Text(s) \o Text(t)
<1> DEFINE Piece(n) == SubSeq(t, 1, n)
           T == {n \in Nat : n <= Len(t) /\ Text(s \o Piece(n)) # Text(s) \o Text(Piece(n))}
<1> SUFFICES ASSUME Text(s \o t) # Text(s) \o Text(t) PROVE FALSE
  OBVIOUS
<1>1. Piece(Len(t)) = t /\ Len(t) \in Nat
  BY SubSeqFull
<1>2. Len(t) \in T /\ T \in SUBSET Nat
  <2>1. Text(s \o Piece(Len(t))) # Text(s) \o Text(Piece(Len(t)))
    BY <1>1
  <2> HIDE DEF Piece
  <2> QED
    BY <1>1, <2>1
<1>3. \A n \in 0 .. Len(t) : Piece(n) \in Seq(X)
  OBVIOUS
<1>4. PICK m \in T : m \in Nat /\ \A n \in Nat : n < m => n \notin T
  <2> HIDE DEF T
  <2> QED
    BY <1>2, LeastNatural
<1>5. Text(s) \in Seq(X)
  BY TextType
<1>6. m # 0
  <2>1. Piece(0) = << >>
    OBVIOUS
  <2>2. s \o << >> = s /\ Text(s) \o << >> = Text(s)
    BY <1>5, ConcatEmptySeq
  <2> QED
    BY <1>4, <2>1, <2>2, TextEmpty
<1>7. m \in 1 .. Len(t) /\ m - 1 \in Nat /\ m - 1 < m /\ m - 1 \in 0 .. Len(t) /\ t[m] \in X
  BY <1>4, <1>6
<1>8. Text(s \o Piece(m - 1)) = Text(s) \o Text(Piece(m - 1))
  <2>1. m - 1 \notin T
    BY <1>4, <1>7
  <2> QED
    BY <1>7, <2>1
<1> DEFINE p == Piece(m - 1)
<1>9. p \in Seq(X)
  BY <1>3, <1>7
<1>10. Piece(m) = p \o <<t[m]>>
  BY <1>7, SubSeqRecursiveSecond
<1> DEFINE b == t[m]
<1>11. b \in X /\ <<b>> \in Seq(X)
  BY <1>7
<1>12. Text(s \o Piece(m)) # Text(s) \o Text(Piece(m))
  BY <1>4
<1> HIDE DEF Piece, p, b, T
<1>13. Append(p, b) = p \o <<b>>
  BY <1>9, <1>11, AppendIsConcat
<1>14. s \o p \in Seq(X)
  BY <1>9, ConcatProperties
<1>15. Append(s \o p, b) = (s \o p) \o <<b>>
  BY <1>11, <1>14, AppendIsConcat
<1>17. (s \o p) \o <<b>> = s \o (p \o <<b>>)
  BY <1>9, <1>11, ConcatAssociative
<1>18. Text(Append(s \o p, b)) = Text(s \o p) \o Printed(b)
  BY <1>11, <1>14, TextAppend
<1>19. Text(Append(p, b)) = Text(p) \o Printed(b)
  BY <1>9, <1>11, TextAppend
<1>16. (Text(s) \o Text(p)) \o Printed(b) = Text(s) \o (Text(p) \o Printed(b))
  <2> DEFINE x == Text(s)
             y == Text(p)
             z == Printed(b)
  <2>1. x \in Seq(X) /\ y \in Seq(X) /\ z \in Seq(X)
    BY <1>5, <1>9, <1>11, TextType, PrintedType
  <2> HIDE DEF x, y, z
  <2>2. (x \o y) \o z = x \o (y \o z)
    BY <2>1, ConcatAssociative
  <2> QED
    BY <2>2 DEF x, y, z
<1>20. Text(s \o p) = Text(s) \o Text(p)
  BY <1>8 DEF p
<1> QED
  BY <1>10, <1>12, <1>13, <1>15, <1>16, <1>17, <1>18, <1>19, <1>20 DEF b

-----------------------------------------------------------------------------
(* Pages *)

\* The smaller of two numbers.
LEMMA LesserOfTwo ==
  ASSUME NEW a \in Nat, NEW b \in Nat
  PROVE  Min({a, b}) = IF a <= b THEN a ELSE b
BY DEF Min

\* n rows take that many pages.
LEMMA Quotient ==
  ASSUME NEW a \in Nat, NEW p \in Nat, p > 0
  PROVE  /\ a \div p \in Nat
         /\ (a \div p) * p <= a
         /\ a < (a \div p) * p + p
OBVIOUS

\* The last page is the one that reaches the number of rows, and it is not empty.
LEMMA PageCount ==
  ASSUME NEW n \in Nat, n # 0
  PROVE  /\ TotalPages(n) \in Nat /\ TotalPages(n) >= 1
         /\ (TotalPages(n) - 1) * PageSize \in Nat /\ (TotalPages(n) - 1) * PageSize < n
         /\ TotalPages(n) * PageSize \in Nat /\ n <= TotalPages(n) * PageSize
<1>1. PageSize \in Nat /\ PageSize > 0 /\ n + PageSize - 1 \in Nat
  BY PagesAssumption
<1> DEFINE t == (n + PageSize - 1) \div PageSize
<1>2. /\ t \in Nat
      /\ t * PageSize <= n + PageSize - 1
      /\ n + PageSize - 1 < t * PageSize + PageSize
  BY <1>1, Quotient
<1>3. TotalPages(n) = t
  BY DEF TotalPages
<1> HIDE DEF t
<1>4. t * PageSize \in Nat /\ (t - 1) * PageSize = t * PageSize - PageSize
  BY <1>1, <1>2
<1>5. t # 0
  <2>1. 0 * PageSize = 0
    BY <1>1
  <2> QED
    BY <1>1, <1>2, <2>1
<1>6. (t - 1) * PageSize \in Nat
  BY <1>1, <1>2, <1>5
<1> QED
  BY <1>1, <1>2, <1>3, <1>4, <1>5, <1>6

\* Earlier pages are full.
LEMMA EarlierPage ==
  ASSUME NEW n \in Nat, n # 0, NEW k \in 1 .. TotalPages(n) - 1
  PROVE  k * PageSize \in Nat /\ k * PageSize < n /\ (k + 1) * PageSize = k * PageSize + PageSize
<1>1. PageSize \in Nat /\ PageSize > 0
  BY PagesAssumption
<1> DEFINE t == TotalPages(n) - 1
<1>2. t \in Nat /\ t * PageSize < n /\ t * PageSize \in Nat /\ k \in Nat /\ k <= t
  BY PageCount
<1> HIDE DEF t
<1>3. k * PageSize \in Nat /\ (k + 1) * PageSize = k * PageSize + PageSize
  BY <1>1, <1>2
<1>4. k * PageSize <= t * PageSize
  BY <1>1, <1>2
<1> QED
  BY <1>2, <1>3, <1>4

\* Where the first k pages end.
UpTo(n, k) == Min({n, k * PageSize})

\* A page begins where the one before it ends, and the last one ends with the rows.
LEMMA PageEnds ==
  ASSUME NEW n \in Nat, n # 0, NEW k \in 1 .. TotalPages(n)
  PROVE  /\ UpTo(n, k) \in Nat /\ UpTo(n, k) <= n
         /\ UpTo(n, TotalPages(n)) = n
         /\ (k - 1) * PageSize \in Nat /\ (k - 1) * PageSize < UpTo(n, k)
         /\ k # 1 => UpTo(n, k - 1) = (k - 1) * PageSize
<1>1. PageSize \in Nat /\ PageSize > 0 /\ TotalPages(n) \in Nat
  BY PagesAssumption, PageCount
<1>2. k * PageSize \in Nat /\ (k - 1) * PageSize \in Nat
      /\ k * PageSize = (k - 1) * PageSize + PageSize
  <2>1. k - 1 \in Nat
    OBVIOUS
  <2> QED
    BY <1>1, <2>1
<1>3. (k - 1) * PageSize < n
  <2>1. CASE k = 1
    <3>1. (k - 1) * PageSize = 0
      BY <1>1, <2>1
    <3> QED
      BY <3>1
  <2>2. CASE k # 1
    <3>1. k - 1 \in 1 .. TotalPages(n) - 1
      BY <1>1, <2>2
    <3> QED
      BY <3>1, EarlierPage
  <2> QED
    BY <2>1, <2>2
<1>4. UpTo(n, k) = IF n <= k * PageSize THEN n ELSE k * PageSize
  BY <1>2, LesserOfTwo DEF UpTo
<1>5. UpTo(n, TotalPages(n)) = n
  <2>1. TotalPages(n) * PageSize \in Nat /\ n <= TotalPages(n) * PageSize
    BY PageCount
  <2> QED
    BY <2>1, LesserOfTwo DEF UpTo
<1>6. UpTo(n, k - 1) = (k - 1) * PageSize
  BY <1>2, <1>3, LesserOfTwo DEF UpTo
<1> QED
  BY <1>1, <1>2, <1>3, <1>4, <1>5, <1>6

\* The rows of a page, and that there are some.
LEMMA PageIs ==
  ASSUME NEW X, NEW rows \in Seq(X), rows # << >>, NEW k \in 1 .. TotalPages(Len(rows))
  PROVE  /\ PageRows(rows, k - 1) = SubSeq(rows, (k - 1) * PageSize + 1, UpTo(Len(rows), k))
         /\ PageRows(rows, k - 1) \in Seq(X)
         /\ PageRows(rows, k - 1) # << >>
<1>1. Len(rows) \in Nat /\ Len(rows) # 0
  OBVIOUS
<1>2. /\ UpTo(Len(rows), k) \in Nat /\ UpTo(Len(rows), k) <= Len(rows)
      /\ (k - 1) * PageSize \in Nat /\ (k - 1) * PageSize < UpTo(Len(rows), k)
  BY <1>1, PageEnds
<1>3. PageRows(rows, k - 1) = SubSeq(rows, (k - 1) * PageSize + 1, UpTo(Len(rows), k))
  <2>1. TotalPages(Len(rows)) \in Nat
    BY <1>1, PageCount
  <2>2. (k - 1) + 1 = k
    BY <2>1
  <2> QED
    BY <2>2 DEF PageRows, UpTo
<1> DEFINE from == (k - 1) * PageSize + 1
           end == UpTo(Len(rows), k)
<1>4. from \in 1 .. end /\ end \in 1 .. Len(rows)
  BY <1>1, <1>2
<1> HIDE DEF from, end
<1>5. SubSeq(rows, from, end) \in Seq(X) /\ SubSeq(rows, from, end) # << >>
  <2>1. \A i \in from .. end : i \in 1 .. Len(rows)
    BY <1>1, <1>4
  <2>2. SubSeq(rows, from, end) \in Seq(X) /\ Len(SubSeq(rows, from, end)) = end - from + 1
    BY <1>1, <1>4
  <2>3. end - from + 1 # 0
    BY <1>1, <1>4
  <2> QED
    BY <2>2, <2>3
<1> QED
  BY <1>3, <1>5 DEF from, end

\* The pages put one after the other are the rows.
LEMMA PagesCover ==
  ASSUME NEW X, NEW rows \in Seq(X), rows # << >>
  PROVE  FlattenSeq([p \in 1 .. TotalPages(Len(rows)) |-> PageRows(rows, p - 1)]) = rows
<1> DEFINE n == Len(rows)
           total == TotalPages(n)
           pages == [p \in 1 .. total |-> PageRows(rows, p - 1)]
<1>1. n \in Nat /\ n # 0 /\ total \in Nat /\ total >= 1
  BY PageCount
<1>2. pages \in Seq(Seq(X)) /\ Len(pages) = total /\ pages # << >>
  <2> DEFINE Y == Seq(X)
  <2>1. \A p \in 1 .. total : PageRows(rows, p - 1) \in Y
    BY PageIs
  <2> HIDE DEF Y, total
  <2>2. pages \in Seq(Y) /\ Len(pages) = total
    BY <1>1, <2>1
  <2> QED
    BY <1>1, <2>2 DEF Y
<1>3. PICK f : Flattens(f, pages) /\ FlattenSeq(pages) = f[total]
  <2> DEFINE Y == Seq(X)
  <2>1. pages \in Seq(Y)
    BY <1>2
  <2> HIDE DEF pages, total, Y
  <2> QED
    BY <1>2, <2>1, FlattenSolution
<1>4. ASSUME NEW k \in 1 .. total
      PROVE  f[k] = IF k = 1 THEN PageRows(rows, 0) ELSE f[k - 1] \o PageRows(rows, k - 1)
  <2>1. f[k] = OneFurther(pages, f, k)
    <3> HIDE DEF pages, total
    <3> QED
      BY <1>2, <1>3 DEF Flattens
  <2>2. pages[k] = PageRows(rows, k - 1)
    OBVIOUS
  <2> HIDE DEF pages, total
  <2> QED
    BY <2>1, <2>2 DEF OneFurther
<1> DEFINE T == {k \in Nat : k \in 1 .. total /\ f[k] # SubSeq(rows, 1, UpTo(n, k))}
<1>5. ASSUME T # {} PROVE FALSE
  <2>1. T \in SUBSET Nat
    OBVIOUS
  <2>2. PICK m \in T : m \in Nat /\ \A k \in Nat : k < m => k \notin T
    <3> HIDE DEF T
    <3> QED
      BY <1>5, <2>1, LeastNatural
  <2>3. m \in 1 .. total /\ f[m] # SubSeq(rows, 1, UpTo(n, m))
    BY <2>2
  <2>4. PageRows(rows, m - 1) = SubSeq(rows, (m - 1) * PageSize + 1, UpTo(n, m))
    BY <2>3, PageIs
  <2>5. m # 1
    <3> SUFFICES ASSUME m = 1 PROVE FALSE
      OBVIOUS
    <3>1. (m - 1) * PageSize + 1 = 1
      BY PagesAssumption
    <3> QED
      BY <1>4, <2>3, <2>4, <3>1
  <2>6. m - 1 \in Nat /\ m - 1 < m /\ m - 1 \in 1 .. total
    BY <1>1, <2>3, <2>5
  <2>7. f[m - 1] = SubSeq(rows, 1, UpTo(n, m - 1))
    <3>1. m - 1 \notin T
      BY <2>2, <2>6
    <3> QED
      BY <2>6, <3>1
  <2>8. /\ UpTo(n, m - 1) = (m - 1) * PageSize
        /\ (m - 1) * PageSize \in Nat /\ (m - 1) * PageSize < UpTo(n, m)
        /\ UpTo(n, m) \in Nat /\ UpTo(n, m) <= n
    BY <1>1, <2>3, <2>5, PageEnds
  <2> DEFINE a == (m - 1) * PageSize
             b == UpTo(n, m)
  <2>9. f[m] = SubSeq(rows, 1, a) \o SubSeq(rows, a + 1, b)
    BY <1>4, <2>3, <2>4, <2>5, <2>7, <2>8
  <2>10. a \in Nat /\ b \in Nat /\ a < b /\ b <= n
    BY <2>8
  <2>11. f[m] # SubSeq(rows, 1, b)
    BY <2>3
  <2> HIDE DEF a, b, T
  <2>12. SubSeq(rows, 1, a) \o SubSeq(rows, a + 1, b) = SubSeq(rows, 1, b)
    BY <2>10, ConcatAdjacentSubSeq
  <2> QED
    BY <2>9, <2>11, <2>12
<1>6. f[total] = SubSeq(rows, 1, UpTo(n, total))
  BY <1>1, <1>5
<1>7. UpTo(n, total) = n
  BY <1>1, PageEnds
<1> QED
  BY <1>3, <1>6, <1>7, SubSeqFull

-----------------------------------------------------------------------------
(* The rows the client pages through *)

\* A category that is offered as a filter is that of some row.
Offered(listing) ==
  \A category \in listing.categories : \E i \in 1 .. Len(listing.rows) : listing.rows[i] = category

Shown(rows, page) ==
  /\ rows \in Seq(RowOf) /\ rows # << >>
  /\ page \in 0 .. TotalPages(Len(rows)) - 1

PagingInv ==
  /\ Offered(client.listing)
  /\ client.at = "paging" => Shown(client.rows, client.page)

\* A row is kept together with its category.
LEMMA StoreOffered ==
  ASSUME NEW listing, listing.rows \in Seq(RowOf), Offered(listing), NEW category \in RowOf
  PROVE  Offered(Store(listing, category))
<1>1. CASE Len(listing.rows) >= MaxShown
  BY <1>1 DEF Store
<1>2. CASE ~(Len(listing.rows) >= MaxShown)
  <2> DEFINE rows == Append(listing.rows, category)
             new == Store(listing, category)
  <2>1. /\ new.rows = rows
        /\ new.categories \subseteq listing.categories \cup {category}
    BY <1>2 DEF Store
  <2>2. /\ Len(rows) = Len(listing.rows) + 1 /\ Len(listing.rows) \in Nat
        /\ \A i \in 1 .. Len(listing.rows) : rows[i] = listing.rows[i]
        /\ rows[Len(listing.rows) + 1] = category
    BY AppendProperties
  <2> HIDE DEF rows, new
  <2>3. ASSUME NEW c \in new.categories
        PROVE  \E i \in 1 .. Len(new.rows) : new.rows[i] = c
    <3>1. CASE c \in listing.categories
      <4>1. PICK i \in 1 .. Len(listing.rows) : listing.rows[i] = c
        BY <3>1 DEF Offered
      <4>2. i \in 1 .. Len(rows) /\ rows[i] = c
        BY <2>2, <4>1
      <4> QED
        BY <2>1, <4>2
    <3>2. CASE c = category
      <4>1. Len(listing.rows) + 1 \in 1 .. Len(rows) /\ rows[Len(listing.rows) + 1] = c
        BY <2>2, <3>2
      <4> QED
        BY <2>1, <4>1
    <3> QED
      BY <2>1, <3>1, <3>2
  <2> QED
    BY <2>3 DEF Offered, new
<1> QED
  BY <1>1, <1>2

\* Whatever can be entered as a filter leaves a row.
LEMMA FilterLeaves ==
  ASSUME NEW listing, listing.rows \in Seq(RowOf), listing.rows # << >>, Offered(listing),
         NEW filter \in Filters(listing)
  PROVE  /\ Filtered(listing, filter) \in Seq(RowOf)
         /\ Filtered(listing, filter) # << >>
<1> DEFINE Y == Seq(RowOf)
           kept(i) == IF filter \in {"all", listing.rows[i]} THEN <<listing.rows[i]>> ELSE << >>
           seqs == [i \in 1 .. Len(listing.rows) |-> kept(i)]
<1>1. DOMAIN listing.rows = 1 .. Len(listing.rows) /\ Len(listing.rows) \in Nat
      /\ 1 \in 1 .. Len(listing.rows)
  OBVIOUS
<1>2. ASSUME NEW i \in 1 .. Len(listing.rows) PROVE kept(i) \in Y
  <2>1. listing.rows[i] \in RowOf
    BY ElementOfSeq
  <2> HIDE DEF RowOf
  <2> QED
    BY <2>1
<1>3. \E k \in 1 .. Len(listing.rows) : kept(k) # << >>
  <2>1. CASE filter = "all"
    BY <1>1, <2>1
  <2>2. CASE filter # "all"
    <3>1. PICK k \in 1 .. Len(listing.rows) : listing.rows[k] = filter
      BY <2>2 DEF Filters, Offered
    <3> QED
      BY <3>1
  <2> QED
    BY <2>1, <2>2
<1>4. Filtered(listing, filter) = FlattenSeq(seqs)
  BY <1>1 DEF Filtered
<1> HIDE DEF Y, kept
<1>5. seqs \in Seq(Y) /\ Len(seqs) = Len(listing.rows)
  BY <1>1, <1>2
<1>6. PICK k \in 1 .. Len(seqs) : seqs[k] # << >>
  BY <1>3, <1>5
<1> HIDE DEF seqs
<1>7. seqs \in Seq(Seq(RowOf))
  BY <1>5 DEF Y
<1> QED
  BY <1>4, <1>6, <1>7, FlattenType, FlattenNonEmpty

\* Turning pages stays within them.
LEMMA PageTurned ==
  ASSUME NEW rows, NEW page, Shown(rows, page), NEW to \in Turned(rows, page)
  PROVE  Shown(rows, to)
<1>1. Len(rows) \in Nat /\ Len(rows) # 0
  BY DEF Shown
<1>2. TotalPages(Len(rows)) \in Nat
  BY <1>1, PageCount
<1> QED
  BY <1>2 DEF Shown, Turned

\* Every step keeps the client on a page.
LEMMA PagingNext == ShapeInv /\ ListingInv /\ PagingInv /\ Next => PagingInv'
<1> SUFFICES ASSUME ShapeInv, ListingInv, PagingInv, Next PROVE PagingInv'
  OBVIOUS
<1>1. ClientTyped
  BY DEF ShapeInv
<1>2. client.listing.rows \in Seq(RowOf)
  BY DEF ListingInv, Fits, RowOf
<1>3. Offered(client'.listing)
  <2>1. Offered(NoListing)
    BY DEF Offered, NoListing
  <2>2. ASSUME NEW category \in RowOf PROVE Offered(Store(client.listing, category))
    BY <1>2, StoreOffered DEF PagingInv
  <2> QED
    BY <2>1, <2>2, ListingSteps DEF PagingInv
<1>4. ASSUME client'.at = "paging" PROVE Shown(client'.rows, client'.page)
  <2>1. CASE client' = client
    BY <1>4, <2>1 DEF PagingInv
  <2>2. CASE EndOfRows
    <3>1. client.listing.rows # << >>
      BY <1>1, <1>4, <2>2 DEF EndOfRows, Settle, ClientTyped, Clients
    <3>2. PICK filter \in Filters(client.listing) :
            client' = [client EXCEPT !.at = "paging", !.page = 0,
                                     !.rows = Filtered(client.listing, filter)]
      BY <2>2, <3>1 DEF EndOfRows
    <3>3. client'.rows = Filtered(client.listing, filter) /\ client'.page = 0
      BY <1>1, <3>2 DEF ClientTyped, Clients
    <3>4. client'.rows \in Seq(RowOf) /\ client'.rows # << >>
      BY <1>2, <3>1, <3>3, FilterLeaves DEF PagingInv
    <3>5. Len(client'.rows) \in Nat /\ Len(client'.rows) # 0
      BY <3>4
    <3>6. TotalPages(Len(client'.rows)) \in Nat /\ TotalPages(Len(client'.rows)) >= 1
      BY <3>5, PageCount
    <3> QED
      BY <3>3, <3>4, <3>6 DEF Shown
  <2>3. CASE TurnPage
    <3>1. PICK page \in Turned(client.rows, client.page) : client' = [client EXCEPT !.page = page]
      BY <1>1, <1>4, <2>3 DEF TurnPage, ClientTyped, Clients
    <3>2. client'.rows = client.rows /\ client'.page = page
      BY <1>1, <3>1 DEF ClientTyped, Clients
    <3> QED
      BY <2>3, <3>1, <3>2, PageTurned DEF PagingInv, TurnPage
  <2>4. CASE Choose
    <3>1. PICK command \in MenuChoices : Ask(command) \/ AskInVain(command)
      BY <2>4 DEF Choose
    <3>2. client'.at # "paging"
      BY <1>1, <3>1 DEF Ask, AskInVain, Expecting, ClientTyped, Clients
    <3> QED
      BY <1>4, <3>2
  <2>5. CASE Connect \/ ClientEnds
    <3>1. client'.at # "paging"
      BY <1>1, <2>5 DEF Connect, ClientEnds, ClientTyped, Clients
    <3> QED
      BY <1>4, <3>1
  <2>6. CASE Read /\ ~EndOfRows
    <3>1. client' = client \/ client'.at # "paging"
      <4>1. CASE Row
        <5>1. client'.at = client.at
          BY <1>1, <4>1 DEF Row, ClientTyped, Clients
        <5> QED
          BY <4>1, <5>1 DEF Row
      <4>2. CASE Greeted \/ Reply \/ ReplyLost \/ HeadOfListing
        BY <1>1, <4>2 DEF Greeted, Reply, ReplyLost, HeadOfListing, Settle, ClientTyped, Clients
      <4> QED
        BY <2>6, <4>1, <4>2 DEF Read
    <3> QED
      BY <1>4, <2>1, <3>1
  <2>7. CASE SendByte \/ Discard \/ Work \/ ServerStops
    BY <2>1, <2>7, WorkerSteps DEF SendByte, Discard
  <2> QED
    BY <2>2, <2>3, <2>4, <2>5, <2>6, <2>7 DEF Next, User
<1> QED
  BY <1>3, <1>4 DEF PagingInv

\* PagesShowAll: the pages of a listing hold all rows the client kept, in their order,
\* whatever the number of rows and the size of a page, and the page that is shown is
\* never empty, whatever filter was entered (client_tables.c:135-256).
THEOREM PagesAlwaysShowAll == Spec => []PagesShowAll
<1>1. Init => ShapeInv /\ SessionInv /\ BoundsInv /\ PagingInv
  <2>1. Init => PagingInv
    BY DEF Init, PagingInv, Offered, NoListing
  <2> QED
    BY <2>1, ShapeInit, SessionInit, BoundsInit
<1>2. ShapeInv /\ SessionInv /\ BoundsInv /\ PagingInv /\ [Next]_vars
        => (ShapeInv /\ SessionInv /\ BoundsInv /\ PagingInv)'
  <2>1. PagingInv /\ UNCHANGED vars => PagingInv'
    BY DEF PagingInv, vars
  <2>2. ShapeInv /\ BoundsInv /\ PagingInv /\ Next => PagingInv'
    BY PagingNext DEF BoundsInv
  <2> QED
    BY <2>1, <2>2, ShapeNext, SessionNext, BoundsNext
<1>3. PagingInv => PagesShowAll
  <2> SUFFICES ASSUME PagingInv, client.at = "paging" PROVE PagesShowAll
    BY DEF PagesShowAll
  <2>1. client.rows \in Seq(RowOf) /\ client.rows # << >>
        /\ client.page \in 0 .. TotalPages(Len(client.rows)) - 1
    BY DEF PagingInv, Shown
  <2>2. Len(client.rows) \in Nat /\ Len(client.rows) # 0
    BY <2>1
  <2>3. client.page + 1 \in 1 .. TotalPages(Len(client.rows)) /\ (client.page + 1) - 1 = client.page
    <3>1. TotalPages(Len(client.rows)) \in Nat
      BY <2>2, PageCount
    <3> HIDE DEF PagingInv
    <3> QED
      BY <2>1, <3>1
  <2>4. PageRows(client.rows, client.page) # << >>
    BY <2>1, <2>3, PageIs
  <2> QED
    BY <2>1, <2>4, PagesCover DEF PagesShowAll
<1> QED
  BY <1>1, <1>2, <1>3, PTL DEF Spec

-----------------------------------------------------------------------------
(* The lines of a stream that grows *)

\* A line ends at e, and the one before it at s; none in between.
Between(bytes, s, e) ==
  /\ s \in {0} \cup Newlines(bytes) /\ e \in Newlines(bytes) /\ s < e
  /\ \A n \in Newlines(bytes) : ~(s < n /\ n < e)

\* The last line of bytes ends at e.
LastAt(bytes, e) == e \in {0} \cup Newlines(bytes) /\ \A n \in Newlines(bytes) : n <= e

\* Newlines are positions of the bytes.
LEMMA NewlinesType ==
  ASSUME NEW X, NEW bytes \in Seq(X)
  PROVE  Newlines(bytes) \in SUBSET Nat /\ Newlines(bytes) \subseteq 1 .. Len(bytes)
BY DEF Newlines

\* What is between two ends that follow each other is a line ...
LEMMA LineBetween ==
  ASSUME NEW bytes, NEW s \in Nat, NEW e \in Nat, Between(bytes, s, e)
  PROVE  Text(SubSeq(bytes, s + 1, e)) \in Lines(bytes)
<1> DEFINE both == <<s, e>>
<1>1. both \in ({0} \cup Newlines(bytes)) \X Newlines(bytes) /\ both[1] = s /\ both[2] = e
  BY DEF Between
<1> HIDE DEF both
<1> QED
  BY <1>1 DEF Lines, Between

\* ... and there are no other lines.
LEMMA LineIsBetween ==
  ASSUME NEW X, NEW bytes \in Seq(X), NEW line \in Lines(bytes)
  PROVE  \E s, e \in Nat : Between(bytes, s, e) /\ line = Text(SubSeq(bytes, s + 1, e))
<1>1. PICK both \in ({0} \cup Newlines(bytes)) \X Newlines(bytes) :
        /\ both[1] < both[2] /\ \A n \in Newlines(bytes) : ~(both[1] < n /\ n < both[2])
        /\ line = Text(SubSeq(bytes, both[1] + 1, both[2]))
  BY DEF Lines
<1>2. Between(bytes, both[1], both[2])
  BY <1>1 DEF Between
<1>3. both[1] \in Nat /\ both[2] \in Nat
  BY NewlinesType
<1> QED
  BY <1>1, <1>2, <1>3

\* The last line ends somewhere, or nowhere yet.
LEMMA LastExists ==
  ASSUME NEW X, NEW bytes \in Seq(X)
  PROVE  \E e \in 0 .. Len(bytes) : LastAt(bytes, e)
<1> DEFINE N == Newlines(bytes)
           T == {m \in Nat : \A n \in N : n <= m}
<1>1. N \in SUBSET Nat /\ N \subseteq 1 .. Len(bytes) /\ Len(bytes) \in Nat
  BY NewlinesType
<1> HIDE DEF N
<1>2. T \in SUBSET Nat /\ Len(bytes) \in T
  BY <1>1
<1>3. PICK m \in T : m \in Nat /\ \A n \in Nat : n < m => n \notin T
  <2> HIDE DEF T
  <2> QED
    BY <1>2, LeastNatural
<1>4. m <= Len(bytes)
  BY <1>2, <1>3
<1>5. m # 0 => m \in N
  <2> SUFFICES ASSUME m # 0 PROVE m \in N
    OBVIOUS
  <2>1. m - 1 \in Nat /\ m - 1 \notin T
    BY <1>3
  <2>2. PICK n \in N : ~(n <= m - 1)
    BY <2>1
  <2>3. n \in Nat /\ n <= m /\ m \in Nat
    BY <1>1, <1>3, <2>2
  <2>4. n = m
    BY <2>2, <2>3
  <2> QED
    BY <2>4
<1>6. m \in 0 .. Len(bytes)
  BY <1>1, <1>3, <1>4
<1> QED
  BY <1>3, <1>5, <1>6 DEF LastAt, N

\* Unended is what follows it.
LEMMA UnendedAfter ==
  ASSUME NEW X, NEW bytes \in Seq(X), NEW e, LastAt(bytes, e)
  PROVE  Unended(bytes) = Text(SubSeq(bytes, e + 1, Len(bytes)))
<1> DEFINE S == {0} \cup Newlines(bytes)
<1>1. S \in SUBSET Nat
  BY NewlinesType
<1>2. e \in S /\ \A n \in S : e >= n
  BY <1>1 DEF LastAt
<1> HIDE DEF S
<1>3. Max(S) \in S /\ \A n \in S : Max(S) >= n
  BY <1>2 DEF Max
<1>4. Max(S) = e
  <2>1. Max(S) \in Nat /\ e \in Nat /\ Max(S) >= e /\ e >= Max(S)
    BY <1>1, <1>2, <1>3
  <2> QED
    BY <2>1
<1> QED
  BY <1>4 DEF Unended, S

\* What was there stays there.
LEMMA StreamGrows ==
  ASSUME NEW X, NEW c \in Seq(X), NEW d \in Seq(X)
  PROVE  /\ c \o d \in Seq(X) /\ Len(c \o d) = Len(c) + Len(d)
         /\ \A n \in 1 .. Len(c) : n \in Newlines(c) <=> n \in Newlines(c \o d)
<1>1. /\ c \o d \in Seq(X) /\ Len(c \o d) = Len(c) + Len(d)
      /\ Len(c) \in Nat /\ Len(d) \in Nat
      /\ \A i \in 1 .. Len(c) + Len(d) : i <= Len(c) => (c \o d)[i] = c[i]
      /\ DOMAIN c = 1 .. Len(c) /\ DOMAIN (c \o d) = 1 .. Len(c \o d)
  BY ConcatProperties, LenProperties
<1>2. ASSUME NEW n \in 1 .. Len(c) PROVE n \in Newlines(c) <=> n \in Newlines(c \o d)
  <2>1. n \in DOMAIN c /\ n \in DOMAIN (c \o d) /\ (c \o d)[n] = c[n]
    BY <1>1
  <2> QED
    BY <2>1 DEF Newlines
<1> QED
  BY <1>1, <1>2

\* Lines of the older part are lines of the whole.
LEMMA BetweenGrows ==
  ASSUME NEW X, NEW c \in Seq(X), NEW d \in Seq(X), NEW s \in Nat, NEW e \in Nat, Between(c, s, e)
  PROVE  /\ Between(c \o d, s, e)
         /\ SubSeq(c \o d, s + 1, e) = SubSeq(c, s + 1, e)
<1>1. /\ s \in Nat /\ e \in 1 .. Len(c) /\ s < e /\ s \in 0 .. Len(c) /\ Len(c) \in Nat
      /\ s = 0 \/ s \in Newlines(c)
  BY NewlinesType DEF Between
<1>2. s \in {0} \cup Newlines(c \o d) /\ e \in Newlines(c \o d)
  <2>1. s # 0 => s \in 1 .. Len(c)
    BY <1>1
  <2> QED
    BY <1>1, <2>1, StreamGrows DEF Between
<1>3. ASSUME NEW n \in Newlines(c \o d), s < n, n < e PROVE FALSE
  <2>1. n \in Nat /\ n \in 1 .. Len(c)
    <3>1. c \o d \in Seq(X)
      BY StreamGrows
    <3>2. n \in Nat
      BY <3>1, NewlinesType
    <3> QED
      BY <1>1, <1>3, <3>2
  <2>2. n \in Newlines(c)
    BY <2>1, StreamGrows
  <2> QED
    BY <1>3, <2>2 DEF Between
<1>4. s + 1 \in 1 .. Len(c)
  BY <1>1
<1> QED
  BY <1>1, <1>2, <1>3, <1>4, SubSeqOfConcat1 DEF Between

LEMMA LinesGrow ==
  ASSUME NEW X, NEW c \in Seq(X), NEW d \in Seq(X)
  PROVE  Lines(c) \subseteq Lines(c \o d)
<1> SUFFICES ASSUME NEW line \in Lines(c) PROVE line \in Lines(c \o d)
  OBVIOUS
<1>1. PICK s, e \in Nat : Between(c, s, e) /\ line = Text(SubSeq(c, s + 1, e))
  BY LineIsBetween
<1>2. Between(c \o d, s, e) /\ SubSeq(c \o d, s + 1, e) = SubSeq(c, s + 1, e)
  BY <1>1, BetweenGrows
<1>3. Text(SubSeq(c \o d, s + 1, e)) \in Lines(c \o d)
  BY <1>2, LineBetween
<1> QED
  BY <1>1, <1>2, <1>3

\* What follows the last line of the older part goes on in the newer one.
LEMMA UnendedGoesOn ==
  ASSUME NEW X, NEW c \in Seq(X), NEW d \in Seq(X), NEW e \in 0 .. Len(c), LastAt(c, e),
         NEW m \in Len(c) .. Len(c) + Len(d)
  PROVE  Text(SubSeq(c \o d, e + 1, m)) = Unended(c) \o Text(SubSeq(c \o d, Len(c) + 1, m))
<1> DEFINE cd == c \o d
<1>1. cd \in Seq(X) /\ Len(cd) = Len(c) + Len(d) /\ Len(c) \in Nat /\ Len(d) \in Nat
  BY StreamGrows
<1>2. SubSeq(cd, e + 1, Len(c)) = SubSeq(c, e + 1, Len(c))
  <2>1. CASE e = Len(c)
    BY <1>1, <2>1, SubSeqEmpty
  <2>2. CASE e # Len(c)
    <3>1. e + 1 \in 1 .. Len(c) /\ Len(c) \in 1 .. Len(c)
      BY <1>1, <2>2
    <3> QED
      BY <3>1, SubSeqOfConcat1
  <2> QED
    BY <2>1, <2>2
<1> HIDE DEF cd
<1>3. /\ e + 1 \in 1 .. Len(cd) + 1 /\ Len(c) \in (e + 1) - 1 .. Len(cd)
      /\ m \in Len(c) .. Len(cd)
  BY <1>1
<1>4. SubSeq(cd, e + 1, Len(c)) \o SubSeq(cd, Len(c) + 1, m) = SubSeq(cd, e + 1, m)
  BY <1>1, <1>3, ConcatAdjacentSubSeq
<1>5. SubSeq(c, e + 1, Len(c)) \in Seq(X) /\ SubSeq(cd, Len(c) + 1, m) \in Seq(X)
  BY <1>1
<1>6. Text(SubSeq(cd, e + 1, m)) = Text(SubSeq(c, e + 1, Len(c))) \o Text(SubSeq(cd, Len(c) + 1, m))
  BY <1>2, <1>4, <1>5, TextConcat
<1> QED
  BY <1>6, UnendedAfter DEF cd

\* Further lines end behind the older part.
LEMMA LastStays ==
  ASSUME NEW X, NEW c \in Seq(X), NEW d \in Seq(X), NEW e \in 0 .. Len(c), LastAt(c, e)
  PROVE  /\ e \in {0} \cup Newlines(c \o d)
         /\ \A n \in Newlines(c \o d) : n \in Nat /\ (n <= e \/ n > Len(c))
<1>1. Newlines(c) \subseteq 1 .. Len(c) /\ Len(c) \in Nat
  BY NewlinesType
<1>2. e \in {0} \cup Newlines(c \o d)
  <2>1. e # 0 => e \in 1 .. Len(c)
    BY <1>1
  <2> QED
    BY <1>1, <2>1, StreamGrows DEF LastAt
<1>3. ASSUME NEW n \in Newlines(c \o d) PROVE n \in Nat /\ (n <= e \/ n > Len(c))
  <2>1. n \in 1 .. Len(c \o d) /\ n \in Nat
    BY StreamGrows, NewlinesType
  <2>2. n <= Len(c) => n \in Newlines(c)
    BY <1>1, <2>1, StreamGrows
  <2>3. n \in Newlines(c) => n <= e
    BY DEF LastAt
  <2> QED
    BY <1>1, <2>1, <2>2, <2>3
<1> QED
  BY <1>2, <1>3

\* Some line, or what follows the last one, fills the buffer.
TooLong(bytes) == \E line \in Lines(bytes) \cup {Unended(bytes)} : Len(line) >= MaxLine - 1

\* A line that fills the buffer does not become shorter.
LEMMA TooLongGrows ==
  ASSUME NEW X, NEW c \in Seq(X), NEW d \in Seq(X), TooLong(c)
  PROVE  TooLong(c \o d)
<1> DEFINE cd == c \o d
<1>1. cd \in Seq(X) /\ Len(cd) = Len(c) + Len(d) /\ Len(c) \in Nat /\ Len(d) \in Nat
  BY StreamGrows
<1>2. PICK line \in Lines(c) \cup {Unended(c)} : Len(line) >= MaxLine - 1
  BY DEF TooLong
<1>3. CASE line \in Lines(c)
  <2>1. line \in Lines(cd)
    BY <1>3, LinesGrow
  <2> QED
    BY <1>2, <2>1 DEF TooLong
<1>4. CASE line = Unended(c)
  <2>1. PICK e \in 0 .. Len(c) : LastAt(c, e)
    BY LastExists
  <2>2. /\ e \in {0} \cup Newlines(cd) /\ e \in Nat /\ e <= Len(c)
        /\ \A n \in Newlines(cd) : n \in Nat /\ (n <= e \/ n > Len(c))
    BY <2>1, LastStays
  <2>3. ASSUME NEW m \in Len(c) .. Len(cd)
        PROVE  Len(Text(SubSeq(cd, e + 1, m))) >= MaxLine - 1
    <3>1. Text(SubSeq(cd, e + 1, m)) = Unended(c) \o Text(SubSeq(cd, Len(c) + 1, m))
      BY <1>1, <2>1, UnendedGoesOn
    <3>2. Unended(c) \in Seq(X)
      <4>1. SubSeq(c, e + 1, Len(c)) \in Seq(X)
        BY <1>1
      <4> QED
        BY <2>1, <4>1, UnendedAfter, TextType
    <3>3. Text(SubSeq(cd, Len(c) + 1, m)) \in Seq(X)
      <4>1. SubSeq(cd, Len(c) + 1, m) \in Seq(X)
        BY <1>1
      <4> QED
        BY <4>1, TextType
    <3>4. /\ Len(Text(SubSeq(cd, e + 1, m))) = Len(Unended(c)) + Len(Text(SubSeq(cd, Len(c) + 1, m)))
          /\ Len(Unended(c)) \in Nat /\ Len(Text(SubSeq(cd, Len(c) + 1, m))) \in Nat
      BY <3>1, <3>2, <3>3, ConcatProperties, LenProperties
    <3> QED
      BY <1>2, <1>4, <3>4, MaxLineAssumption
  <2> DEFINE T == {n \in Nat : n \in Newlines(cd) /\ n > Len(c)}
  <2> HIDE DEF cd
  <2>4. CASE T = {}
    <3>1. LastAt(cd, e)
      BY <2>2, <2>4 DEF LastAt
    <3>2. Unended(cd) = Text(SubSeq(cd, e + 1, Len(cd)))
      BY <1>1, <3>1, UnendedAfter
    <3>3. Len(cd) \in Len(c) .. Len(cd)
      BY <1>1
    <3> QED
      BY <2>3, <3>2, <3>3 DEF TooLong, cd
  <2>5. CASE T # {}
    <3>1. PICK m \in T : m \in Nat /\ \A n \in Nat : n < m => n \notin T
      <4>1. T \in SUBSET Nat
        OBVIOUS
      <4> HIDE DEF T
      <4> QED
        BY <2>5, <4>1, LeastNatural
    <3>2. m \in Newlines(cd) /\ m > Len(c) /\ m \in 1 .. Len(cd)
      BY <1>1, <3>1, NewlinesType
    <3>3. Between(cd, e, m)
      <4>1. ASSUME NEW n \in Newlines(cd), e < n, n < m PROVE FALSE
        <5>1. n \in Nat /\ n > Len(c)
          BY <2>2, <4>1
        <5>2. n \in T
          BY <5>1
        <5> HIDE DEF T
        <5> QED
          BY <3>1, <4>1, <5>1, <5>2
      <4> QED
        BY <1>1, <2>2, <3>2, <4>1 DEF Between
    <3>4. Text(SubSeq(cd, e + 1, m)) \in Lines(cd)
      BY <2>2, <3>1, <3>3, LineBetween
    <3>5. m \in Len(c) .. Len(cd)
      BY <1>1, <3>2
    <3> QED
      BY <2>3, <3>4, <3>5 DEF TooLong, cd
  <2> QED
    BY <2>4, <2>5
<1> QED
  BY <1>2, <1>3, <1>4

-----------------------------------------------------------------------------
(* One byte more of a stream *)

\* The text of one byte.
LEMMA TextOfOne ==
  ASSUME NEW X, NEW b \in X
  PROVE  Text(<<b>>) = Printed(b)
<1>1. Append(<< >>, b) = <<b>> /\ << >> \in Seq(X) /\ Printed(b) \in Seq(X)
  BY PrintedType
<1>2. Text(Append(<< >>, b)) = Text(<< >>) \o Printed(b)
  BY <1>1, TextAppend
<1>3. << >> \o Printed(b) = Printed(b)
  BY <1>1, ConcatEmptySeq
<1> QED
  BY <1>1, <1>2, <1>3, TextEmpty

\* A newline makes a line of what was unended; any other byte goes on with it.
LEMMA OneByteMore ==
  ASSUME NEW X, NEW c \in Seq(X), NEW b \in X
  PROVE  /\ b = NL => /\ Unended(c) \in Lines(c \o <<b>>)
                      /\ Unended(c \o <<b>>) = << >>
         /\ b # NL => Unended(c \o <<b>>) = Unended(c) \o Printed(b)
         /\ Unended(c) \in Seq(X)
<1> DEFINE d == <<b>>
           cd == c \o d
           last == Len(c) + 1
<1>0. d \in Seq(X) /\ Len(d) = 1 /\ d[1] = b
  OBVIOUS
<1>1. /\ cd \in Seq(X) /\ Len(cd) = last /\ last \in Nat /\ Len(c) \in Nat
      /\ cd[last] = b /\ DOMAIN cd = 1 .. last
  <2>1. Len(c) \in Nat
    OBVIOUS
  <2>2. /\ cd \in Seq(X) /\ Len(cd) = Len(c) + 1
        /\ \A i \in 1 .. Len(c) + 1 : cd[i] = IF i <= Len(c) THEN c[i] ELSE d[i - Len(c)]
    BY <1>0, ConcatProperties
  <2>3. DOMAIN cd = 1 .. Len(cd)
    BY <2>2
  <2> HIDE DEF cd
  <2>4. cd[last] = b
    BY <1>0, <2>1, <2>2
  <2> QED
    BY <2>1, <2>2, <2>3, <2>4
<1> HIDE DEF d
<1>2. PICK e \in 0 .. Len(c) : LastAt(c, e)
  BY LastExists
<1>3. Unended(c) \in Seq(X)
  <2>1. SubSeq(c, e + 1, Len(c)) \in Seq(X)
    BY <1>1
  <2> QED
    BY <1>2, <2>1, UnendedAfter, TextType
<1>4. Text(SubSeq(cd, e + 1, last)) = Unended(c) \o Printed(b)
  <2>2. last \in Len(c) .. Len(c) + Len(d)
    BY <1>0, <1>1
  <2>3. Text(SubSeq(cd, e + 1, last)) = Unended(c) \o Text(SubSeq(cd, last, last))
    <3>1. d \in Seq(X) /\ LastAt(c, e)
      BY <1>0, <1>2
    <3>2. ASSUME NEW m \in Len(c) .. Len(c) + Len(d)
          PROVE  Text(SubSeq(c \o d, e + 1, m)) = Unended(c) \o Text(SubSeq(c \o d, Len(c) + 1, m))
      BY <3>1, UnendedGoesOn
    <3> QED
      BY <2>2, <3>2
  <2>4. SubSeq(cd, last, last) = <<cd[last]>>
    <3> HIDE DEF cd
    <3>1. last \in 1 .. Len(cd) /\ last \in last .. Len(cd)
      BY <1>1
    <3> HIDE DEF last
    <3>2. SubSeq(cd, last, last) = <<cd[last]>> \o SubSeq(cd, last + 1, last)
      BY <1>1, <3>1, SubSeqRecursiveFirst
    <3>3. SubSeq(cd, last + 1, last) = << >>
      BY <1>1, SubSeqEmpty
    <3>4. <<cd[last]>> \o << >> = <<cd[last]>>
      <4>1. <<cd[last]>> \in Seq(X)
        BY <1>1
      <4> QED
        BY <4>1, ConcatEmptySeq
    <3> QED
      BY <3>2, <3>3, <3>4
  <2> QED
    BY <1>1, <2>3, <2>4, TextOfOne
<1>5. /\ e \in {0} \cup Newlines(cd) /\ e \in Nat /\ e <= Len(c)
      /\ \A n \in Newlines(cd) : n \in Nat /\ n <= last /\ (n <= e \/ n = last)
  <2>2. /\ e \in {0} \cup Newlines(cd) /\ e \in Nat /\ e <= Len(c)
        /\ \A n \in Newlines(cd) : n \in Nat /\ (n <= e \/ n > Len(c))
    BY <1>0, <1>2, LastStays
  <2>3. Newlines(cd) \subseteq 1 .. last
    BY <1>1, NewlinesType
  <2> HIDE DEF cd
  <2> QED
    BY <1>1, <2>2, <2>3
<1>6. last \in Newlines(cd) <=> b = NL
  BY <1>1 DEF Newlines
<1> HIDE DEF cd
<1>7. ASSUME b = NL PROVE Unended(c) \in Lines(cd) /\ Unended(cd) = << >>
  <2>1. Between(cd, e, last)
    BY <1>1, <1>5, <1>6, <1>7 DEF Between
  <2>2. Text(SubSeq(cd, e + 1, last)) \in Lines(cd)
    BY <1>1, <1>5, <2>1, LineBetween
  <2>3. Unended(c) \o Printed(b) = Unended(c)
    BY <1>3, <1>7, ConcatEmptySeq DEF Printed
  <2>4. LastAt(cd, last)
    BY <1>5, <1>6, <1>7 DEF LastAt
  <2>5. Unended(cd) = Text(SubSeq(cd, last + 1, last))
    BY <1>1, <2>4, UnendedAfter
  <2>6. SubSeq(cd, last + 1, last) = << >>
    BY <1>1, SubSeqEmpty
  <2> QED
    BY <1>4, <2>2, <2>3, <2>5, <2>6, TextEmpty
<1>8. ASSUME b # NL PROVE Unended(cd) = Unended(c) \o Printed(b)
  <2>1. LastAt(cd, e)
    BY <1>5, <1>6, <1>8 DEF LastAt
  <2>2. Unended(cd) = Text(SubSeq(cd, e + 1, last))
    BY <1>1, <2>1, UnendedAfter
  <2> QED
    BY <1>4, <2>2
<1> QED
  BY <1>3, <1>7, <1>8 DEF cd, d

-----------------------------------------------------------------------------
(* What the worker makes of the bytes of another peer *)

\* The stream has ended and its last line was handled.
StreamEnded == upEnd = "closed" /\ up = << >> /\ worker.reader = Nothing

\* c is what the worker has taken off the socket.
ReaderAt(c) ==
  worker.at # "closed" =>
    /\ worker.reader.complete => worker.reader.part \in Lines(c) /\ Unended(c) = << >>
    /\ ~worker.reader.complete => worker.reader.part = Unended(c) \/ StreamEnded
HeardFrom(c) ==
  \A i \in 1 .. Len(heard) :
    heard[i] \in Lines(c) \/ (i = Len(heard) /\ StreamEnded /\ heard[i] = Unended(c))
TakenOff(c) ==
  /\ sent = c \o up
  /\ worker.at # "closed" => Text(c) = FlattenSeq(heard) \o worker.reader.part
  /\ TooLong(c) \/ (ReaderAt(c) /\ HeardFrom(c))

StreamInv ==
  peer = "foreign" =>
    /\ heard \in Seq(Seq(Bytes))
    /\ client.at # "exited" => upEnd = "open"
    /\ \E c \in Seq(Bytes) : TakenOff(c)

\* Taking a byte puts its text behind what is in the buffer, and ends a line at a
\* newline or when the buffer is full.
LEMMA TakeByte ==
  ASSUME NEW reader \in Readers, NEW b \in Bytes, ~reader.complete
  PROVE  /\ Take(reader, b).part = reader.part \o Printed(b)
         /\ b = NL => Take(reader, b).complete /\ Printed(b) = << >>
         /\ b # NL => (Take(reader, b).complete =>
                         Len(Take(reader, b).part) >= MaxLine - 1)
<1>1. reader.part \in Seq(Bytes) /\ reader = [part |-> reader.part, complete |-> FALSE]
  BY DEF Readers
<1>2. CASE b = CR
  <2>1. Take(reader, b) = reader /\ b # NL /\ Printed(b) = << >>
    BY <1>2 DEF Take, NL, CR, Printed
  <2>2. reader.part \o << >> = reader.part
    BY <1>1, ConcatEmptySeq
  <2> QED
    BY <2>1, <2>2
<1>3. CASE b = NL
  <2>1. b # CR
    BY <1>3 DEF NL, CR
  <2>2. Take(reader, b) = [reader EXCEPT !.complete = TRUE] /\ Printed(b) = << >>
    BY <1>3, <2>1 DEF Take, Printed
  <2>3. Take(reader, b).part = reader.part /\ Take(reader, b).complete
    BY <1>1, <2>2
  <2>4. reader.part \o << >> = reader.part
    BY <1>1, ConcatEmptySeq
  <2> QED
    BY <1>3, <2>2, <2>3, <2>4
<1>4. CASE b # CR /\ b # NL
  <2>1. Printed(b) = <<b>>
    BY <1>4 DEF Printed
  <2>2. /\ Take(reader, b).part = Append(reader.part, b)
        /\ Take(reader, b).complete <=> Len(reader.part) + 1 = MaxLine - 1
    BY <1>4 DEF Take
  <2>3. Append(reader.part, b) = reader.part \o <<b>>
        /\ Len(Append(reader.part, b)) = Len(reader.part) + 1
    BY <1>1, AppendIsConcat, AppendProperties
  <2>4. MaxLine - 1 >= MaxLine - 1
    BY MaxLineAssumption
  <2> QED
    BY <1>4, <2>1, <2>2, <2>3, <2>4
<1> QED
  BY <1>2, <1>3, <1>4

\* A byte is taken off the socket.
LEMMA StreamTaken ==
  ASSUME ShapeInv, heard \in Seq(Seq(Bytes)), NEW c \in Seq(Bytes), TakenOff(c), Receive
  PROVE  \E d \in Seq(Bytes) : TakenOff(d)'
<1> DEFINE reader == worker.reader
           new == worker'.reader
<1>1. /\ reader \in Readers /\ up \in Seq(Bytes) /\ up # << >> /\ up' = Tail(up)
      /\ worker.at = "recv" /\ ~reader.complete /\ sent' = sent /\ heard' = heard /\ upEnd' = upEnd
  BY DEF ShapeInv, WorkersTyped, Receive
<1>a. PICK b \in Bytes : b = Head(up)
  BY <1>1, HeadTailProperties
<1>2. Tail(up) \in Seq(Bytes) /\ <<b>> \in Seq(Bytes) /\ up = <<b>> \o Tail(up)
  <2>1. Tail(up) \in Seq(Bytes) /\ <<b>> \in Seq(Bytes)
    BY <1>1, HeadTailProperties
  <2>2. <<b>> \o Tail(up) = up
    BY <1>1, <1>a
  <2> QED
    BY <2>1, <2>2
<1>b. PICK d \in Seq(Bytes) : d = c \o <<b>>
  BY <1>2, ConcatProperties
<1>3. worker'.at = "recv" /\ new = Take(reader, b)
  BY <1>a DEF Receive, ShapeInv, WorkersTyped
<1> HIDE DEF reader, new
<1>4. sent' = d \o up'
  <2>2. sent = c \o (<<b>> \o Tail(up))
    BY <1>2 DEF TakenOff
  <2> DEFINE one == <<b>>
             rest == Tail(up)
  <2>3. one \in Seq(Bytes) /\ rest \in Seq(Bytes)
    BY <1>2
  <2> HIDE DEF one, rest
  <2>4. (c \o one) \o rest = c \o (one \o rest)
    BY <2>3, ConcatAssociative
  <2> QED
    BY <1>1, <1>b, <2>2, <2>4 DEF one, rest
<1>5. /\ new.part = reader.part \o Printed(b)
      /\ b = NL => new.complete /\ Printed(b) = << >>
      /\ b # NL => (new.complete => Len(new.part) >= MaxLine - 1)
  BY <1>1, <1>2, <1>3, TakeByte
<1>6. /\ b = NL => /\ Unended(c) \in Lines(d) /\ Unended(d) = << >>
      /\ b # NL => Unended(d) = Unended(c) \o Printed(b)
      /\ Unended(c) \in Seq(Bytes)
  BY <1>b, OneByteMore
<1>7. Lines(c) \subseteq Lines(d) /\ (TooLong(c) => TooLong(d))
  BY <1>2, <1>b, LinesGrow, TooLongGrows
<1>8. Text(d) = FlattenSeq(heard) \o new.part
  <2>1. Text(c) = FlattenSeq(heard) \o reader.part
    BY <1>1 DEF TakenOff, reader
  <2>2. Text(d) = Text(c) \o Printed(b)
    <3>1. Text(d) = Text(c) \o Text(<<b>>)
      <4> DEFINE one == <<b>>
      <4>1. one \in Seq(Bytes)
        BY <1>2
      <4> HIDE DEF one
      <4>2. Text(c \o one) = Text(c) \o Text(one)
        BY <4>1, TextConcat
      <4> QED
        BY <1>b, <4>2 DEF one
    <3> QED
      BY <3>1, TextOfOne
  <2>3. FlattenSeq(heard) \in Seq(Bytes) /\ reader.part \in Seq(Bytes) /\ Printed(b) \in Seq(Bytes)
    BY <1>1, <1>2, FlattenType, PrintedType DEF Readers
  <2>4. (FlattenSeq(heard) \o reader.part) \o Printed(b) = FlattenSeq(heard) \o (reader.part \o Printed(b))
    <3> DEFINE before == FlattenSeq(heard)
               part == reader.part
               more == Printed(b)
    <3>1. before \in Seq(Bytes) /\ part \in Seq(Bytes) /\ more \in Seq(Bytes)
      BY <2>3
    <3> HIDE DEF before, part, more
    <3>2. (before \o part) \o more = before \o (part \o more)
      BY <3>1, ConcatAssociative
    <3> QED
      BY <3>2 DEF before, part, more
  <2> QED
    BY <1>5, <2>1, <2>2, <2>4
<1>9. ASSUME ReaderAt(c), HeardFrom(c)
      PROVE  TooLong(d) \/ (ReaderAt(d)' /\ HeardFrom(d)')
  <2>1. reader.part = Unended(c)
    BY <1>1, <1>9 DEF ReaderAt, StreamEnded, reader
  <2>2. HeardFrom(d)'
    <3>1. \A i \in 1 .. Len(heard) : heard[i] \in Lines(c)
      BY <1>1, <1>9 DEF HeardFrom, StreamEnded
    <3> QED
      BY <1>1, <1>7, <3>1 DEF HeardFrom
  <2>3. CASE b = NL
    <3>1. reader.part \o << >> = reader.part
      BY <1>6, <2>1, ConcatEmptySeq
    <3>2. new.part \in Lines(d) /\ Unended(d) = << >> /\ new.complete
      BY <1>5, <1>6, <2>1, <2>3, <3>1
    <3> QED
      BY <2>2, <3>2 DEF ReaderAt, new
  <2>4. CASE b # NL
    <3>1. new.part = Unended(d)
      BY <1>5, <1>6, <2>1, <2>4
    <3>2. new.complete => TooLong(d)
      BY <1>5, <2>4, <3>1 DEF TooLong
    <3> QED
      BY <2>2, <3>1, <3>2 DEF ReaderAt, new
  <2> QED
    BY <2>3, <2>4
<1>10. TooLong(d) \/ (ReaderAt(d)' /\ HeardFrom(d)')
  BY <1>7, <1>9 DEF TakenOff
<1>11. TakenOff(d)'
  BY <1>1, <1>4, <1>8, <1>10 DEF TakenOff, new
<1> QED
  BY <1>11

\* A line is handled: it is what was in the buffer.
LEMMA StreamHandled ==
  ASSUME ShapeInv, peer = "foreign", heard \in Seq(Seq(Bytes)), NEW c \in Seq(Bytes), TakenOff(c), Obey
  PROVE  TakenOff(c)' /\ heard' \in Seq(Seq(Bytes)) /\ upEnd' = upEnd /\ client' = client
<1> DEFINE reader == worker.reader
           line == worker.reader.part
           new == worker'.reader
<1>1. /\ reader \in Readers /\ line \in Seq(Bytes) /\ line = reader.part
      /\ worker.at # "closed" /\ AtLine /\ UNCHANGED <<sent, up, upEnd, client>>
  BY DEF ShapeInv, WorkersTyped, Readers, Obey
<1>2. new = Nothing /\ new.part = << >> /\ ~new.complete
  <2>1. new = Nothing
    <3>1. CASE line = << >>
      BY <3>1 DEF Obey, ShapeInv, WorkersTyped
    <3>2. CASE line # << >>
      BY <3>2, HandleShape DEF Obey
    <3> QED
      BY <3>1, <3>2
  <2> QED
    BY <2>1 DEF Nothing
<1>3. ~StreamEnded
  BY <1>1, NothingParts DEF StreamEnded, AtLine
<1>4. Text(c) = FlattenSeq(heard) \o line
  BY <1>1 DEF TakenOff
<1>5. ReaderAt(c) => /\ reader.complete => line \in Lines(c) /\ Unended(c) = << >>
                     /\ ~reader.complete => line = Unended(c) /\ upEnd = "closed" /\ up = << >>
  BY <1>1, <1>3 DEF ReaderAt, AtLine
<1>6. HeardFrom(c) => \A i \in 1 .. Len(heard) : heard[i] \in Lines(c)
  BY <1>3 DEF HeardFrom
<1>7. StreamEnded' <=> upEnd = "closed" /\ up = << >>
  BY <1>1, <1>2 DEF StreamEnded
<1> HIDE DEF reader, line, new
<1>8. ASSUME ReaderAt(c) PROVE ReaderAt(c)'
  <2>1. reader.complete => new.part = Unended(c)
    BY <1>2, <1>5, <1>8
  <2>2. ~reader.complete => StreamEnded'
    BY <1>5, <1>7, <1>8
  <2> QED
    BY <1>2, <2>1, <2>2 DEF ReaderAt, new
<1>9. CASE line = << >>
  <2>1. heard' = heard
    BY <1>9 DEF Obey, line
  <2>2. Text(c) = FlattenSeq(heard') \o new.part
    BY <1>2, <1>4, <1>9, <2>1
  <2>3. HeardFrom(c) => HeardFrom(c)'
    BY <1>6, <2>1 DEF HeardFrom
  <2> QED
    BY <1>1, <1>8, <2>1, <2>2, <2>3 DEF TakenOff, new
<1>10. CASE line # << >>
  <2> DEFINE Y == Seq(Bytes)
  <2>1. heard \in Seq(Y) /\ line \in Y
    BY <1>1
  <2>2. heard' = Append(heard, line)
    BY <1>10 DEF Obey, line
  <2> HIDE DEF Y
  <2>3. /\ heard' \in Seq(Y) /\ Len(heard) \in Nat /\ Len(heard') = Len(heard) + 1
        /\ \A i \in 1 .. Len(heard) : heard'[i] = heard[i]
        /\ heard'[Len(heard) + 1] = line
    BY <2>1, <2>2, AppendProperties
  <2>4. Text(c) = FlattenSeq(heard') \o new.part
    <3>1. FlattenSeq(heard') = FlattenSeq(heard) \o line
      BY <2>1, <2>2, FlattenAppend DEF Y
    <3>2. FlattenSeq(heard') \in Seq(Bytes)
      BY <2>3, FlattenType DEF Y
    <3>3. FlattenSeq(heard') \o << >> = FlattenSeq(heard')
      BY <3>2, ConcatEmptySeq
    <3> QED
      BY <1>2, <1>4, <3>1, <3>3
  <2>5. ASSUME ReaderAt(c), HeardFrom(c) PROVE HeardFrom(c)'
    <3> SUFFICES ASSUME NEW i \in 1 .. Len(heard')
                 PROVE  heard'[i] \in Lines(c)
                          \/ (i = Len(heard') /\ StreamEnded' /\ heard'[i] = Unended(c))
      BY DEF HeardFrom
    <3>1. CASE i \in 1 .. Len(heard)
      BY <1>6, <2>3, <2>5, <3>1
    <3>2. CASE i = Len(heard) + 1
      <4>1. heard'[i] = line /\ i = Len(heard')
        BY <2>3, <3>2
      <4> QED
        BY <1>5, <1>7, <2>5, <4>1
    <3> QED
      BY <2>3, <3>1, <3>2
  <2>6. TakenOff(c)'
    BY <1>1, <1>8, <2>4, <2>5 DEF TakenOff, new
  <2> QED
    BY <1>1, <2>3, <2>6 DEF Y
<1> QED
  BY <1>9, <1>10

\* The other steps of the worker leave its buffer, or drop it as it ends.
LEMMA StreamKept ==
  ASSUME ShapeInv, NEW c \in Seq(Bytes), TakenOff(c),
         Welcome \/ HangUp \/ SendRow \/ SendEnd \/ ServerStops
  PROVE  TakenOff(c)' /\ UNCHANGED <<heard, upEnd, client>>
<1>1. /\ worker.at # "closed" /\ UNCHANGED <<sent, up, upEnd, heard, client>>
      /\ \/ worker'.reader = worker.reader
         \/ worker'.reader = Nothing /\ worker'.at = "closed"
  BY DEF Welcome, HangUp, SendRow, SendEnd, ServerStops, ShapeInv, WorkersTyped
<1>2. StreamEnded => StreamEnded'
  BY <1>1 DEF StreamEnded
<1>3. ReaderAt(c) => ReaderAt(c)'
  BY <1>1, <1>2 DEF ReaderAt
<1>4. HeardFrom(c) => HeardFrom(c)'
  BY <1>1, <1>2 DEF HeardFrom
<1> QED
  BY <1>1, <1>3, <1>4 DEF TakenOff

\* Cutting the later part leaves the older one.
LEMMA CutConcat ==
  ASSUME NEW X, NEW c \in Seq(X), NEW u \in Seq(X), NEW k \in 0 .. Len(u)
  PROVE  SubSeq(c \o u, 1, Len(c) + k) = c \o SubSeq(u, 1, k)
<1> DEFINE cu == c \o u
           uk == SubSeq(u, 1, k)
           s == SubSeq(cu, 1, Len(c) + k)
           t == c \o uk
<1>1. /\ cu \in Seq(X) /\ Len(cu) = Len(c) + Len(u) /\ Len(c) \in Nat /\ Len(u) \in Nat /\ k \in Nat
      /\ \A i \in 1 .. Len(c) + Len(u) : cu[i] = IF i <= Len(c) THEN c[i] ELSE u[i - Len(c)]
  BY ConcatProperties, LenProperties
<1>2. uk \in Seq(X) /\ Len(uk) = k /\ \A i \in 1 .. k : uk[i] = u[i]
  BY <1>1
<1> HIDE DEF cu, uk
<1>3. s \in Seq(X) /\ Len(s) = Len(c) + k /\ \A i \in 1 .. Len(c) + k : s[i] = cu[i]
  BY <1>1
<1>4. /\ t \in Seq(X) /\ Len(t) = Len(c) + k
      /\ \A i \in 1 .. Len(c) + k : t[i] = IF i <= Len(c) THEN c[i] ELSE uk[i - Len(c)]
  BY <1>2, ConcatProperties
<1> HIDE DEF s, t
<1>5. ASSUME NEW i \in 1 .. Len(s) PROVE s[i] = t[i]
  <2>1. i \in 1 .. Len(c) + k /\ i \in 1 .. Len(c) + Len(u)
    BY <1>1, <1>3
  <2>2. s[i] = cu[i] /\ cu[i] = IF i <= Len(c) THEN c[i] ELSE u[i - Len(c)]
    BY <1>1, <1>3, <2>1
  <2>3. t[i] = IF i <= Len(c) THEN c[i] ELSE uk[i - Len(c)]
    BY <1>4, <2>1
  <2>4. ~(i <= Len(c)) => i - Len(c) \in 1 .. k
    BY <1>1, <2>1
  <2> QED
    BY <1>2, <2>2, <2>3, <2>4
<1>6. s = t
  BY <1>3, <1>4, <1>5, SeqEqual
<1> QED
  BY <1>6 DEF s, t, cu, uk

\* The peer sends a byte, or ends and what it was sending is cut.
LEMMA StreamSent ==
  ASSUME ShapeInv, sent \in Seq(ForeignBytes), peer = "foreign", upEnd = "open",
         NEW c \in Seq(Bytes), TakenOff(c), SendByte \/ ClientEnds
  PROVE  TakenOff(c)' /\ heard' = heard
<1>1. worker' = worker /\ heard' = heard
  BY DEF SendByte, ClientEnds
<1>2. ~StreamEnded
  BY DEF StreamEnded
<1>3. up \in Seq(Bytes) /\ sent = c \o up
  BY DEF ShapeInv, TakenOff
<1>4. sent' = c \o up'
  <2>1. CASE SendByte
    <3>1. PICK b \in ForeignBytes : up' = Append(up, b) /\ sent' = Append(sent, b)
      BY <2>1 DEF SendByte
    <3>2. b \in Bytes
      BY DEF Bytes
    <3>3. PICK one \in Seq(Bytes) : one = <<b>>
      <4>1. <<b>> \in Seq(Bytes)
        BY <3>2
      <4> QED
        BY <4>1
    <3>4. c \o up \in Seq(Bytes)
      BY <1>3, ConcatProperties
    <3>5. up' = up \o one /\ sent' = (c \o up) \o one
      BY <1>3, <3>1, <3>2, <3>3, <3>4, AppendIsConcat
    <3>6. (c \o up) \o one = c \o (up \o one)
      BY <1>3, ConcatAssociative
    <3> QED
      BY <3>5, <3>6
  <2>2. CASE ClientEnds
    <3>1. PICK cut \in 0 .. Len(up) : /\ up' = SubSeq(up, 1, Len(up) - cut)
                                     /\ sent' = SubSeq(sent, 1, Len(sent) - cut)
      BY <2>2 DEF ClientEnds
    <3>2. Len(sent) = Len(c) + Len(up) /\ Len(c) \in Nat /\ Len(up) \in Nat
      BY <1>3, ConcatProperties, LenProperties
    <3>3. PICK k \in 0 .. Len(up) : k = Len(up) - cut
      <4>1. Len(up) - cut \in 0 .. Len(up)
        BY <3>2
      <4> QED
        BY <4>1
    <3>4. Len(sent) - cut = Len(c) + k
      BY <3>2, <3>3
    <3>5. SubSeq(c \o up, 1, Len(c) + k) = c \o SubSeq(up, 1, k)
      BY <1>3, CutConcat
    <3> QED
      BY <1>3, <3>1, <3>3, <3>4, <3>5
  <2> QED
    BY <2>1, <2>2
<1>5. ReaderAt(c) => ReaderAt(c)'
  BY <1>1, <1>2 DEF ReaderAt
<1>6. HeardFrom(c) => HeardFrom(c)'
  BY <1>1, <1>2 DEF HeardFrom
<1> QED
  BY <1>1, <1>4, <1>5, <1>6 DEF TakenOff

\* Every step keeps what the worker made of the stream.
LEMMA StreamNext ==
  ShapeInv /\ PeerInv /\ sent \in Seq(ForeignBytes) /\ StreamInv /\ [Next]_vars => StreamInv'
<1> SUFFICES ASSUME ShapeInv, PeerInv, sent \in Seq(ForeignBytes), StreamInv, [Next]_vars
             PROVE  StreamInv'
  OBVIOUS
<1>1. peer' = peer
  BY PeerNext DEF vars
<1>2. CASE peer # "foreign"
  BY <1>1, <1>2 DEF StreamInv
<1>3. CASE peer = "foreign"
  <2>1. heard \in Seq(Seq(Bytes)) /\ (client.at # "exited" => upEnd = "open")
    BY <1>3 DEF StreamInv
  <2>2. PICK c \in Seq(Bytes) : TakenOff(c)
    BY <1>3 DEF StreamInv
  <2>3. CASE Receive
    <3>1. \E d \in Seq(Bytes) : TakenOff(d)'
      BY <2>1, <2>2, <2>3, StreamTaken
    <3>2. UNCHANGED <<heard, client, upEnd>>
      BY <2>3 DEF Receive
    <3> QED
      BY <2>1, <3>1, <3>2 DEF StreamInv
  <2>4. CASE Obey
    BY <1>3, <2>1, <2>2, <2>4, StreamHandled DEF StreamInv
  <2>5. CASE Welcome \/ HangUp \/ SendRow \/ SendEnd \/ ServerStops
    BY <2>1, <2>2, <2>5, StreamKept DEF StreamInv
  <2>6. CASE SendByte \/ ClientEnds
    <3>1. client.at # "exited" /\ upEnd = "open"
      BY <2>1, <2>6 DEF SendByte, ClientEnds
    <3>2. TakenOff(c)' /\ heard' = heard
      BY <1>3, <2>2, <2>6, <3>1, StreamSent
    <3>3. client'.at # "exited" => upEnd' = "open"
      BY <2>6, <3>1 DEF SendByte, ClientEnds, ShapeInv, ClientTyped, Clients
    <3> QED
      BY <2>1, <3>2, <3>3 DEF StreamInv
  <2>7. CASE Connect \/ Discard \/ UNCHANGED vars
    <3>1. UNCHANGED <<worker, up, upEnd, sent, heard>> /\ (client'.at = "exited" <=> client.at = "exited")
      BY <1>3, <2>7 DEF Connect, Discard, vars, ShapeInv, ClientTyped, Clients
    <3>2. TakenOff(c)'
      BY <2>2, <3>1 DEF TakenOff, ReaderAt, HeardFrom, StreamEnded
    <3> QED
      BY <2>1, <3>1, <3>2 DEF StreamInv
  <2>8. ~Choose /\ ~TurnPage /\ ~Read
    BY <1>3 DEF PeerInv, Choose, TurnPage, Read, Greeted, Reply, ReplyLost, HeadOfListing, Row, EndOfRows
  <2> QED
    BY <2>3, <2>4, <2>5, <2>6, <2>7, <2>8 DEF Next, User, Work
<1> QED
  BY <1>2, <1>3

\* CommandsAreLines: whatever bytes another peer sends, and wherever its stream ends, no
\* text of them is lost while the connection lasts, and a command the worker obeys is a
\* line of the peer's unless a line did not fit the buffer or the stream ended within
\* it (server_net.c:56-88, retail_server.c:1540-1575).
THEOREM CommandsAlwaysLines == Spec => []CommandsAreLines
<1>1. Init => ShapeInv /\ SessionInv /\ BoundsInv /\ StreamInv
  <2>1. Init => StreamInv
    <3> SUFFICES ASSUME Init PROVE StreamInv
      OBVIOUS
    <3>1. << >> \in Seq(Bytes) /\ << >> \in Seq(Seq(Bytes)) /\ << >> \o << >> = << >>
      OBVIOUS
    <3>2. /\ sent = << >> /\ up = << >> /\ heard = << >> /\ worker.reader = Nothing
          /\ client.at = "start" /\ upEnd = "open"
      BY DEF Init
    <3>3. Unended(<< >>) = << >>
      <4>1. LastAt(<< >>, 0)
        BY DEF LastAt, Newlines
      <4>2. PICK none \in Seq(Bytes) : none = << >>
        BY <3>1
      <4>3. Unended(none) = Text(SubSeq(none, 0 + 1, Len(none)))
        BY <4>1, <4>2, UnendedAfter
      <4>4. SubSeq(none, 0 + 1, Len(none)) = << >>
        <5>1. Len(none) = 0
          BY <4>2
        <5> QED
          BY <5>1, SubSeqEmpty
      <4> QED
        BY <4>2, <4>3, <4>4, TextEmpty
    <3>4. TakenOff(<< >>)
      BY <3>1, <3>2, <3>3, NothingParts, TextEmpty, FlattenEmpty
         DEF TakenOff, ReaderAt, HeardFrom
    <3> QED
      BY <3>1, <3>2, <3>4 DEF StreamInv
  <2> QED
    BY <2>1, ShapeInit, SessionInit, BoundsInit
<1>2. ShapeInv /\ SessionInv /\ BoundsInv /\ StreamInv /\ [Next]_vars
        => (ShapeInv /\ SessionInv /\ BoundsInv /\ StreamInv)'
  <2>1. SessionInv => PeerInv
    BY DEF SessionInv
  <2>2. BoundsInv => sent \in Seq(ForeignBytes)
    BY DEF BoundsInv
  <2> QED
    BY <2>1, <2>2, ShapeNext, SessionNext, BoundsNext, StreamNext
<1>3. ShapeInv /\ StreamInv => CommandsAreLines
  <2> SUFFICES ASSUME ShapeInv, StreamInv, peer = "foreign" PROVE CommandsAreLines
    BY DEF CommandsAreLines
  <2>1. PICK c \in Seq(Bytes) : TakenOff(c)
    BY DEF StreamInv
  <2>2. up \in Seq(Bytes) /\ sent = c \o up /\ heard \in Seq(Seq(Bytes))
    BY <2>1 DEF ShapeInv, StreamInv, TakenOff
  <2>3. ASSUME worker.at = "recv"
        PROVE  Text(sent) = FlattenSeq(heard) \o worker.reader.part \o Text(up)
    <3>1. Text(c) = FlattenSeq(heard) \o worker.reader.part
      BY <2>1, <2>3 DEF TakenOff
    <3>2. Text(c \o up) = Text(c) \o Text(up)
      BY <2>2, TextConcat
    <3> QED
      BY <2>2, <3>1, <3>2
  <2>4. ASSUME NEW i \in DOMAIN heard
        PROVE  \/ heard[i] \in Lines(sent)
               \/ \E line \in Lines(sent) \cup {Unended(sent)} : Len(line) >= MaxLine - 1
               \/ i = Len(heard) /\ upEnd = "closed" /\ IsPrefix(heard[i], Unended(sent))
    <3>1. i \in 1 .. Len(heard) /\ heard[i] \in Seq(Bytes)
      BY <2>2
    <3>2. Lines(c) \subseteq Lines(sent) /\ (TooLong(c) => TooLong(sent))
      BY <2>2, LinesGrow, TooLongGrows
    <3>3. CASE TooLong(c)
      BY <3>2, <3>3 DEF TooLong
    <3>4. CASE heard[i] \in Lines(c)
      BY <3>2, <3>4
    <3>5. CASE i = Len(heard) /\ StreamEnded /\ heard[i] = Unended(c)
      <4>1. up = << >> /\ upEnd = "closed"
        BY <3>5 DEF StreamEnded
      <4>2. sent = c
        BY <2>2, <4>1, ConcatEmptySeq
      <4>3. IsPrefix(heard[i], heard[i])
        BY <3>1 DEF IsPrefix
      <4> QED
        BY <3>5, <4>1, <4>2, <4>3
    <3> QED
      BY <2>1, <3>1, <3>3, <3>4, <3>5 DEF TakenOff, HeardFrom
  <2> QED
    BY <2>3, <2>4 DEF CommandsAreLines
<1> QED
  BY <1>1, <1>2, <1>3, PTL DEF Spec
===============================================================================
