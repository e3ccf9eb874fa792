------------------------ MODULE ClientSession_proofs ------------------------
(***************************************************************************)
(* Proofs about one connection: requests and replies stay in step and the  *)
(* client's role is the one the server has given it, for sessions of any   *)
(* length, listings of any length, and ends of either process at any time. *)
(* The invariant says, for each place the client can be at, what is on its *)
(* way between the two processes.                                          *)
(***************************************************************************)
EXTENDS ClientSession, SequenceTheorems, TLAPS

-----------------------------------------------------------------------------
(* Types *)

ClientPlaces == {"start", "menu", "paging", "exited", "foreign"} \cup Waiting
WorkerPlaces == {"welcome", "recv", "rows", "closed"}
Roles == {"none", "ADMIN", "CUSTOMER"}
Bytes == Commands \cup {"args", NL} \cup ForeignBytes
Readers == [part : Seq(Bytes), complete : BOOLEAN]
ReplyLine == [re : Nat, kind : AllKinds, category : Categories \cup {"none"}]

\* The two processes are records with the fields they are given at the start; what
\* the client shows of a listing is left open.
Clients(listing, rows, page) ==
  [at : ClientPlaces, authenticated : BOOLEAN, role : Roles, asked : Commands \cup {"none"},
   n : Nat, listing : {listing}, rows : {rows}, page : {page}]
ClientTyped == client \in Clients(client.listing, client.rows, client.page)
WorkersTyped ==
  [at : WorkerPlaces, reader : Readers, authenticated : BOOLEAN, role : Roles,
   n : Nat, left : Nat]

ShapeInv ==
  /\ peer \in {"retail", "foreign"}
  /\ ClientTyped
  /\ worker \in WorkersTyped
  /\ down \in Seq(ReplyLine)
  /\ up \in Seq(Bytes)

\* Short sequences.
LEMMA Tuples ==
  ASSUME NEW S, NEW a \in S, NEW b \in S, NEW c \in S
  PROVE  << >> \in Seq(S) /\ <<a>> \in Seq(S) /\ <<a, b>> \in Seq(S) /\ <<a, b, c>> \in Seq(S)
OBVIOUS

LEMMA Appended ==
  ASSUME NEW a, NEW b, NEW c
  PROVE  Append(<<a>>, b) = <<a, b>> /\ Append(<<a, b>>, c) = <<a, b, c>>
<1> DEFINE S == {a, b, c}
<1>1. /\ Append(<<a>>, b) \in Seq(S) /\ Append(<<a, b>>, c) \in Seq(S)
      /\ <<a, b>> \in Seq(S) /\ <<a, b, c>> \in Seq(S)
  BY Tuples
<1>2. /\ Len(Append(<<a>>, b)) = 2 /\ Len(<<a, b>>) = 2
      /\ Append(<<a>>, b)[1] = a /\ Append(<<a>>, b)[2] = b
      /\ <<a, b>>[1] = a /\ <<a, b>>[2] = b
  OBVIOUS
<1>3. /\ Len(Append(<<a, b>>, c)) = 3 /\ Len(<<a, b, c>>) = 3
      /\ Append(<<a, b>>, c)[1] = a /\ Append(<<a, b>>, c)[2] = b /\ Append(<<a, b>>, c)[3] = c
      /\ <<a, b, c>>[1] = a /\ <<a, b, c>>[2] = b /\ <<a, b, c>>[3] = c
  OBVIOUS
<1>4. \A i \in 1 .. 2 : Append(<<a>>, b)[i] = <<a, b>>[i]
  BY <1>2
<1>5. \A i \in 1 .. 3 : Append(<<a, b>>, c)[i] = <<a, b, c>>[i]
  BY <1>3
<1> HIDE DEF S
<1>6. Append(<<a>>, b) = <<a, b>>
  BY <1>1, <1>2, <1>4, SeqEqual
<1>7. Append(<<a, b>>, c) = <<a, b, c>>
  BY <1>1, <1>3, <1>5, SeqEqual
<1> QED
  BY <1>6, <1>7

LEMMA NothingType == Nothing \in Readers
<1>1. << >> \in Seq(Bytes)
  OBVIOUS
<1> QED
  BY <1>1 DEF Nothing, Readers

\* The text of a request and a newline fit the buffer: send_linef sends all of it.
LEMMA RequestLine ==
  ASSUME NEW command \in Commands
  PROVE  /\ LineOf(Request(command)) = IF command \in Bare THEN <<command, NL>>
                                                           ELSE <<command, "args", NL>>
         /\ LineOf(Request(command)) \in Seq(Bytes)
<1> DEFINE text == Request(command)
<1>1. command # NL /\ "args" # NL
  BY DEF NL, Commands, AdminCommands, CustomerCommands, Logins, Bare, Listings
<1>2. command \in Bytes /\ "args" \in Bytes /\ NL \in Bytes
  BY DEF Bytes
<1>3. /\ text \in Seq(Bytes) /\ Len(text) > 0 /\ Len(text) <= 2
      /\ text[Len(text)] # NL
      /\ Append(text, NL) = IF command \in Bare THEN <<command, NL>> ELSE <<command, "args", NL>>
  <2>1. CASE command \in Bare
    <3>1. text = <<command>>
      BY <2>1 DEF Request
    <3>2. <<command>> \in Seq(Bytes)
      BY <1>2, Tuples
    <3>3. Len(<<command>>) = 1 /\ <<command>>[1] = command
      OBVIOUS
    <3>4. Append(<<command>>, NL) = <<command, NL>>
      BY Appended
    <3> HIDE DEF text
    <3> QED
      BY <1>1, <2>1, <3>1, <3>2, <3>3, <3>4
  <2>2. CASE command \notin Bare
    <3>1. text = <<command, "args">>
      BY <2>2 DEF Request
    <3>2. <<command, "args">> \in Seq(Bytes)
      BY <1>2, Tuples
    <3>3. Len(<<command, "args">>) = 2 /\ <<command, "args">>[2] = "args"
      OBVIOUS
    <3>4. Append(<<command, "args">>, NL) = <<command, "args", NL>>
      BY Appended
    <3> HIDE DEF text
    <3> QED
      BY <1>1, <2>2, <3>1, <3>2, <3>3, <3>4
  <2> QED
    BY <2>1, <2>2
<1> HIDE DEF text
<1>4. Len(text) \in Nat /\ Len(text) <= MaxLine - 1 /\ MaxLine - 1 \in Int
      /\ ~(Len(text) + 1 >= MaxLine)
  BY <1>3, RequestsFit, MaxLineAssumption
<1>5. Min({Len(text), MaxLine - 1}) = Len(text)
  BY <1>4 DEF Min
<1>6. Formatted(text) = text
  BY <1>3, <1>5, SubSeqFull DEF Formatted
<1>7. Last(text) # NL
  BY <1>3 DEF Last
<1>8. LineOf(text) = Append(text, NL)
  BY <1>4, <1>6, <1>7 DEF LineOf
<1>9. Append(text, NL) \in Seq(Bytes)
  BY <1>2, <1>3
<1> QED
  BY <1>3, <1>8, <1>9 DEF text

\* A line about the worker's current command, or about the next one, is a reply.
LEMMA LineType ==
  ASSUME ShapeInv, NEW kind \in AllKinds, NEW category \in Categories \cup {"none"}
  PROVE  /\ [re |-> worker.n, kind |-> kind, category |-> category] \in ReplyLine
         /\ [re |-> worker.n + 1, kind |-> kind, category |-> category] \in ReplyLine
  BY DEF ShapeInv, ReplyLine, WorkersTyped

\* What is said to a peer is a sequence of replies.
LEMMA SayType ==
  ASSUME ShapeInv, NEW line \in ReplyLine, Say(<<line>>)
  PROVE  down' \in Seq(ReplyLine)
  BY DEF ShapeInv, Say

LEMMA LeftType == 0 .. MaxRows \subseteq Nat
BY SessionAssumption

LEMMA ClearedType ==
  ASSUME ShapeInv
  PROVE  Cleared \in WorkersTyped /\ Cleared.n = worker.n + 1 /\ Cleared.reader = Nothing
<1>1. worker \in WorkersTyped
  BY DEF ShapeInv
<1>2. worker.n \in Nat
  BY <1>1 DEF WorkersTyped
<1>3. worker.n + 1 \in Nat
  BY <1>2
<1> QED
  BY <1>1, <1>2, <1>3, NothingType DEF WorkersTyped, Cleared

\* What a handler does to the worker and says.
LEMMA HandleShape ==
  ASSUME ShapeInv, NEW line, Handle(line)
  PROVE  /\ worker' \in WorkersTyped /\ down' \in Seq(ReplyLine)
         /\ worker'.n = worker.n + 1 /\ worker'.reader = Nothing
<1>1. PICK kind \in {"OK", "OK LOGIN", "ERR"} : Answer(kind)
  BY DEF Handle, LogIn, LogOut, BeginListing, Succeed, Quit, Refuse
<1>2. kind \in AllKinds
  BY DEF AllKinds
<1>3. down' \in Seq(ReplyLine)
  <2> DEFINE reply == [re |-> worker.n + 1, kind |-> kind, category |-> "none"]
  <2>1. reply \in ReplyLine
    BY <1>2, LineType
  <2>2. Say(<<reply>>)
    BY <1>1 DEF Answer
  <2> HIDE DEF reply
  <2> QED
    BY <2>1, <2>2, SayType
<1>4. \A login : RoleOf(login) \in Roles
  BY DEF RoleOf, Roles
<1>5. \/ worker' = Cleared
      \/ \E role \in Roles : worker' = [Cleared EXCEPT !.authenticated = TRUE, !.role = role]
      \/ worker' = [Cleared EXCEPT !.authenticated = FALSE, !.role = "none"]
      \/ \E left \in 0 .. MaxRows : worker' = [Cleared EXCEPT !.at = "rows", !.left = left]
      \/ worker' = [Cleared EXCEPT !.at = "closed"]
  <2>1. CASE LogIn(line)
    BY <1>4, <2>1 DEF LogIn
  <2>2. CASE LogOut(line)
    BY <2>2 DEF LogOut
  <2>3. CASE BeginListing(line)
    BY <2>3 DEF BeginListing
  <2>4. CASE Succeed(line) \/ Refuse
    BY <2>4 DEF Succeed, Refuse
  <2>5. CASE Quit(line)
    BY <2>5 DEF Quit
  <2>6. LogIn(line) \/ LogOut(line) \/ BeginListing(line) \/ Succeed(line) \/ Refuse \/ Quit(line)
    BY DEF Handle
  <2> QED
    BY <2>1, <2>2, <2>3, <2>4, <2>5, <2>6
<1>6. worker' \in WorkersTyped /\ worker'.n = worker.n + 1 /\ worker'.reader = Nothing
  BY <1>5, ClearedType, LeftType DEF WorkersTyped, WorkerPlaces, Roles
<1> QED
  BY <1>3, <1>6

-----------------------------------------------------------------------------
(* Every step keeps the types *)

LEMMA ShapeInit == Init => ShapeInv
<1> SUFFICES ASSUME Init PROVE ShapeInv
  OBVIOUS
<1>1. peer \in {"retail", "foreign"}
  BY SessionAssumption DEF Init
<1>2. ClientTyped
  BY DEF Init, ClientTyped, Clients, ClientPlaces, Roles
<1>3. worker \in WorkersTyped
  BY NothingType DEF Init, WorkersTyped, WorkerPlaces, Roles
<1>4. down \in Seq(ReplyLine) /\ up \in Seq(Bytes)
  BY DEF Init
<1> QED
  BY <1>1, <1>2, <1>3, <1>4 DEF ShapeInv

LEMMA RequestTypes ==
  ASSUME ShapeInv, NEW command \in MenuChoices
  PROVE  command \in Commands
BY DEF MenuChoices, SessionMenu, MainMenu, Commands, AdminCommands, CustomerCommands, Logins,
       Bare, Listings

\* The steps of the client that ask, as far as the types go.
LEMMA ChooseShape ==
  ASSUME ShapeInv, Choose
  PROVE  ShapeInv'
<1>1. PICK command \in MenuChoices : Ask(command) \/ AskInVain(command)
  BY DEF Choose
<1>2. command \in Commands /\ command \in Commands \cup {"none"}
  BY RequestTypes
<1>3. client.n \in Nat /\ ClientTyped
  BY DEF ShapeInv, ClientTyped, Clients
<1>4. client.n + 1 \in Nat
  BY <1>3
<1>5. CASE Ask(command)
  <2>1. Expecting(command) \in ClientPlaces
    BY DEF Expecting, ClientPlaces, Waiting
  <2>2. ClientTyped'
    BY <1>2, <1>3, <1>4, <1>5, <2>1 DEF Ask, ClientTyped, Clients
  <2>3. up' \in Seq(Bytes)
    <3>1. LineOf(Request(command)) \in Seq(Bytes)
      BY <1>2, RequestLine
    <3> QED
      BY <1>5, <3>1 DEF Ask, ShapeInv
  <2> QED
    BY <1>5, <2>2, <2>3 DEF Ask, ShapeInv
<1>6. CASE AskInVain(command)
  <2>1. ClientTyped'
    BY <1>2, <1>3, <1>4, <1>6 DEF AskInVain, ClientTyped, Clients, ClientPlaces, Waiting
  <2> QED
    BY <1>6, <2>1 DEF AskInVain, ShapeInv
<1> QED
  BY <1>1, <1>5, <1>6

\* Reading, turning pages, connecting and ending.
LEMMA TailType ==
  ASSUME ShapeInv, down # << >>
  PROVE  Tail(down) \in Seq(ReplyLine) /\ Head(down) \in ReplyLine
BY DEF ShapeInv

LEMMA ReadShape ==
  ASSUME ShapeInv, Read
  PROVE  ShapeInv'
<1>1. ClientTyped
  BY DEF ShapeInv
<1>2. down' \in Seq(ReplyLine)
  <2>1. (\E kinds : Heard(kinds)) \/ Lost
    BY DEF Read, Greeted, Reply, ReplyLost, HeadOfListing, Row, EndOfRows
  <2>2. down' = down \/ (down # << >> /\ down' = Tail(down))
    BY <2>1 DEF Heard, Lost
  <2> QED
    BY <2>2, TailType DEF ShapeInv
<1>3. \A login : RoleOf(login) \in Roles
  BY DEF RoleOf, Roles
<1>4. ClientTyped'
  <2>1. CASE Greeted
    BY <1>1, <2>1 DEF Greeted, Settle, ClientTyped, Clients, ClientPlaces
  <2>2. CASE Reply
    <3>1. \/ \E role \in Roles : client' = [client EXCEPT !.at = "menu", !.authenticated = TRUE, !.role = role]
          \/ client' = [client EXCEPT !.at = "menu", !.authenticated = FALSE, !.role = "none"]
          \/ client' = [client EXCEPT !.at = "exited"]
          \/ client' = [client EXCEPT !.at = "menu"]
      BY <1>3, <2>2 DEF Reply, Settle
    <3> QED
      BY <1>1, <3>1 DEF ClientTyped, Clients, ClientPlaces, Roles
  <2>3. CASE ReplyLost
    BY <1>1, <2>3 DEF ReplyLost, Settle, ClientTyped, Clients, ClientPlaces
  <2>4. CASE HeadOfListing
    BY <1>1, <2>4 DEF HeadOfListing, Settle, ClientTyped, Clients, ClientPlaces, Waiting
  <2>5. CASE Row
    BY <1>1, <2>5 DEF Row, ClientTyped, Clients
  <2>6. CASE EndOfRows
    BY <1>1, <2>6 DEF EndOfRows, Settle, ClientTyped, Clients, ClientPlaces
  <2> QED
    BY <2>1, <2>2, <2>3, <2>4, <2>5, <2>6 DEF Read
<1> QED
  BY <1>2, <1>4 DEF Read, ShapeInv

LEMMA ClientShape ==
  ASSUME ShapeInv,
         Connect \/ ClientEnds \/ SendByte \/ Discard
           \/ (TurnPage /\ UNCHANGED <<peer, worker, up, downEnd, sent, heard>>)
  PROVE  ShapeInv'
<1>1. ClientTyped
  BY DEF ShapeInv
<1>2. CASE Connect
  <2>1. ClientTyped'
    BY <1>1, <1>2 DEF Connect, ClientTyped, Clients, ClientPlaces, Waiting
  <2> QED
    BY <1>2, <2>1 DEF Connect, ShapeInv
<1>3. CASE ClientEnds
  <2>1. ClientTyped'
    BY <1>1, <1>3 DEF ClientEnds, ClientTyped, Clients, ClientPlaces
  <2>2. PICK cut \in 0 .. Len(up) : up' = SubSeq(up, 1, Len(up) - cut)
    BY <1>3 DEF ClientEnds
  <2>3. up' \in Seq(Bytes)
    BY <2>2 DEF ShapeInv
  <2> QED
    BY <1>3, <2>1, <2>3 DEF ClientEnds, ShapeInv
<1>4. CASE SendByte
  <2>1. up' \in Seq(Bytes)
    <3>1. PICK b \in ForeignBytes : up' = Append(up, b)
      BY <1>4 DEF SendByte
    <3>2. b \in Bytes
      BY DEF Bytes
    <3> QED
      BY <3>1, <3>2 DEF ShapeInv
  <2> QED
    BY <1>1, <1>4, <2>1 DEF SendByte, ShapeInv, ClientTyped
<1>5. CASE Discard
  BY <1>1, <1>5, TailType DEF Discard, ShapeInv, ClientTyped
<1>6. CASE TurnPage /\ UNCHANGED <<peer, worker, up, downEnd, sent, heard>>
  <2>1. ClientTyped'
    BY <1>1, <1>6 DEF TurnPage, ClientTyped, Clients, ClientPlaces
  <2> QED
    BY <1>6, <2>1 DEF TurnPage, ShapeInv
<1> QED
  BY <1>2, <1>3, <1>4, <1>5, <1>6

\* A byte more of a line.
LEMMA TakeType ==
  ASSUME NEW reader \in Readers, NEW b \in Bytes
  PROVE  Take(reader, b) \in Readers
<1>1. CASE b = CR
  <2>1. CR # NL
    BY DEF CR, NL
  <2> QED
    BY <1>1, <2>1 DEF Take
<1>2. CASE b # CR /\ b = NL
  BY <1>2 DEF Take, Readers
<1>3. CASE b # CR /\ b # NL
  <2>1. reader.part \in Seq(Bytes)
    BY DEF Readers
  <2>2. Append(reader.part, b) \in Seq(Bytes)
    BY <2>1
  <2>3. Take(reader, b) = [part |-> Append(reader.part, b),
                           complete |-> Len(reader.part) + 1 = MaxLine - 1]
    BY <1>3 DEF Take
  <2> QED
    BY <2>2, <2>3 DEF Readers
<1> QED
  BY <1>1, <1>2, <1>3

\* What a server that ends leaves on the way: the lines up to one of them, of which
\* the last one may be cut.
LEMMA CutShort ==
  ASSUME NEW lines \in Seq(ReplyLine), NEW rest, rest \in WithCut(lines) \/ rest \in Prefixes(lines)
  PROVE  /\ rest \in Seq(ReplyLine) /\ Len(rest) <= Len(lines)
         /\ \A i \in 1 .. Len(rest) :
              /\ rest[i].re = lines[i].re
              /\ rest[i].kind = lines[i].kind \/ (i = Len(rest) /\ rest[i].kind = "CUT")
<1>1. CASE rest \in Prefixes(lines)
  <2>1. PICK n \in 0 .. Len(lines) : rest = SubSeq(lines, 1, n)
    BY <1>1 DEF Prefixes
  <2>2. Len(lines) \in Nat /\ n \in Nat /\ n <= Len(lines)
    BY <2>1
  <2>3. rest \in Seq(ReplyLine) /\ Len(rest) = n
    BY <2>1, <2>2
  <2>4. \A i \in 1 .. n : rest[i] = lines[i]
    BY <2>1, <2>2
  <2>5. ASSUME NEW i \in 1 .. Len(rest)
        PROVE  rest[i].re = lines[i].re /\ rest[i].kind = lines[i].kind
    BY <2>3, <2>4
  <2> QED
    BY <2>2, <2>3, <2>5
<1>2. CASE rest \in WithCut(lines)
  <2>1. CASE rest = lines
    <3>1. rest \in Seq(ReplyLine) /\ Len(rest) <= Len(lines)
      BY <2>1
    <3>2. \A i \in 1 .. Len(rest) : rest[i].re = lines[i].re /\ rest[i].kind = lines[i].kind
      BY <2>1
    <3> QED
      BY <3>1, <3>2
  <2>2. CASE rest # lines
    <3> DEFINE n == Len(lines)
               line == [lines[n] EXCEPT !.kind = "CUT"]
    <3>1. lines # << >> /\ rest = [lines EXCEPT ![n] = line]
      BY <1>2, <2>2 DEF WithCut
    <3>2. n \in 1 .. Len(lines) /\ lines[n] \in ReplyLine
      BY <3>1
    <3>3. line \in ReplyLine /\ line.re = lines[n].re /\ line.kind = "CUT"
      BY <3>2 DEF ReplyLine, AllKinds
    <3> HIDE DEF line
    <3>4. rest \in Seq(ReplyLine) /\ Len(rest) = n
      BY <3>1, <3>2, <3>3
    <3>5. \A i \in 1 .. n : rest[i] = IF i = n THEN line ELSE lines[i]
      BY <3>1
    <3>6. Len(rest) <= Len(lines)
      BY <3>2, <3>4
    <3>7. ASSUME NEW i \in 1 .. Len(rest), i # n
          PROVE  rest[i].re = lines[i].re /\ rest[i].kind = lines[i].kind
      BY <3>4, <3>5, <3>7
    <3>8. rest[n].re = lines[n].re /\ rest[n].kind = "CUT"
      BY <3>2, <3>3, <3>5
    <3> QED
      BY <3>2, <3>4, <3>6, <3>7, <3>8
  <2> QED
    BY <2>1, <2>2
<1> QED
  BY <1>1, <1>2

\* The worker.
LEMMA WorkShape ==
  ASSUME ShapeInv, Work \/ ServerStops
  PROVE  ShapeInv'
<1>1. worker \in WorkersTyped
  BY DEF ShapeInv
<1>2. peer' = peer /\ client' = client
  BY DEF Work, Welcome, Receive, Obey, HangUp, SendRow, SendEnd, ServerStops
<1>3. peer' \in {"retail", "foreign"} /\ ClientTyped'
  BY <1>2 DEF ShapeInv, ClientTyped
<1>4. ASSUME worker' \in WorkersTyped, down' \in Seq(ReplyLine), up' \in Seq(Bytes)
      PROVE  ShapeInv'
  BY <1>3, <1>4 DEF ShapeInv
<1>5. up' = up => up' \in Seq(Bytes)
  BY DEF ShapeInv
<1>6. CASE Welcome
  <2>1. worker' \in WorkersTyped
    BY <1>1, <1>6 DEF Welcome, WorkersTyped, WorkerPlaces
  <2>2. Line("OK") \in ReplyLine
    BY LineType DEF Line, AllKinds
  <2>3. down' \in Seq(ReplyLine)
    BY <1>6, <2>2, SayType DEF Welcome
  <2> QED
    BY <1>4, <1>5, <1>6, <2>1, <2>3 DEF Welcome
<1>7. CASE Receive
  <2>1. Head(up) \in Bytes /\ Tail(up) \in Seq(Bytes)
    BY <1>7 DEF Receive, ShapeInv
  <2>2. Take(worker.reader, Head(up)) \in Readers
    BY <1>1, <2>1, TakeType DEF WorkersTyped
  <2>3. worker' \in WorkersTyped
    BY <1>1, <1>7, <2>2 DEF Receive, WorkersTyped
  <2> QED
    BY <1>4, <1>7, <2>1, <2>3 DEF Receive, ShapeInv
<1>8. CASE Obey
  <2>1. CASE worker.reader.part = << >>
    <3>1. worker' \in WorkersTyped
      BY <1>1, <1>8, <2>1, NothingType DEF Obey, WorkersTyped
    <3> QED
      BY <1>4, <1>5, <1>8, <2>1, <3>1 DEF Obey, ShapeInv
  <2>2. CASE worker.reader.part # << >>
    <3>1. Handle(worker.reader.part)
      BY <1>8, <2>2 DEF Obey
    <3> QED
      BY <1>4, <1>5, <1>8, <3>1, HandleShape DEF Obey
  <2> QED
    BY <2>1, <2>2
<1>9. CASE HangUp
  <2>1. worker' \in WorkersTyped
    BY <1>1, <1>9, NothingType DEF HangUp, WorkersTyped, WorkerPlaces
  <2> QED
    BY <1>4, <1>5, <1>9, <2>1 DEF HangUp, ShapeInv
<1>10. CASE SendRow
  <2>1. worker.left \in Nat /\ worker.left > 0
    BY <1>1, <1>10 DEF SendRow, WorkersTyped
  <2>2. worker.left - 1 \in Nat
    BY <2>1
  <2>3. worker' \in WorkersTyped
    BY <1>1, <1>10, <2>1, <2>2 DEF SendRow, WorkersTyped
  <2>4. PICK category \in Categories : Say(<<[re |-> worker.n, kind |-> "DATA", category |-> category]>>)
    BY <1>10 DEF SendRow
  <2>5. [re |-> worker.n, kind |-> "DATA", category |-> category] \in ReplyLine
    BY LineType DEF AllKinds
  <2>6. down' \in Seq(ReplyLine)
    BY <2>4, <2>5, SayType
  <2> QED
    BY <1>4, <1>5, <1>10, <2>3, <2>6 DEF SendRow
<1>11. CASE SendEnd
  <2>1. worker' \in WorkersTyped
    BY <1>1, <1>11 DEF SendEnd, WorkersTyped, WorkerPlaces
  <2>2. Line("END") \in ReplyLine
    BY LineType DEF Line, AllKinds
  <2>3. down' \in Seq(ReplyLine)
    BY <1>11, <2>2, SayType DEF SendEnd
  <2> QED
    BY <1>4, <1>5, <1>11, <2>1, <2>3 DEF SendEnd
<1>12. CASE ServerStops
  <2>1. worker' \in WorkersTyped
    BY <1>1, <1>12, NothingType DEF ServerStops, WorkersTyped, WorkerPlaces
  <2>2. down' \in WithCut(down) \/ down' \in Prefixes(down)
    BY <1>12 DEF ServerStops
  <2>3. down' \in Seq(ReplyLine)
    BY <2>2, CutShort DEF ShapeInv
  <2> QED
    BY <1>4, <1>5, <1>12, <2>1, <2>3 DEF ServerStops
<1> QED
  BY <1>6, <1>7, <1>8, <1>9, <1>10, <1>11, <1>12 DEF Work

LEMMA ShapeNext == ShapeInv /\ [Next]_vars => ShapeInv'
<1> SUFFICES ASSUME ShapeInv, [Next]_vars PROVE ShapeInv'
  OBVIOUS
<1>1. CASE UNCHANGED vars
  BY <1>1 DEF vars, ShapeInv, ClientTyped
<1>2. CASE Choose
  BY <1>2, ChooseShape
<1>3. CASE Read
  BY <1>3, ReadShape
<1>4. CASE \/ Connect \/ ClientEnds \/ SendByte \/ Discard
           \/ (TurnPage /\ UNCHANGED <<peer, worker, up, downEnd, sent, heard>>)
  BY <1>4, ClientShape
<1>5. CASE Work \/ ServerStops
  BY <1>5, WorkShape
<1> QED
  BY <1>1, <1>2, <1>3, <1>4, <1>5 DEF Next, User

-----------------------------------------------------------------------------
(* Steps of the sequences *)

LEMMA OneMore ==
  ASSUME NEW s \in Seq(ReplyLine), NEW e \in ReplyLine
  PROVE  /\ Len(s \o <<e>>) = Len(s) + 1 /\ Len(s) \in Nat
         /\ \A i \in 1 .. Len(s) : (s \o <<e>>)[i] = s[i]
         /\ (s \o <<e>>)[Len(s) + 1] = e
<1>1. <<e>> \in Seq(ReplyLine) /\ Len(<<e>>) = 1 /\ <<e>>[1] = e
  BY Tuples
<1>2. Len(s) \in Nat /\ Len(s \o <<e>>) = Len(s) + 1
  BY <1>1
<1>3. \A i \in 1 .. Len(s) : (s \o <<e>>)[i] = s[i]
  BY <1>1, <1>2
<1>4. (s \o <<e>>)[Len(s) + 1] = e
  BY <1>1, <1>2
<1> QED
  BY <1>2, <1>3, <1>4

LEMMA OneLess ==
  ASSUME NEW S, NEW s \in Seq(S), s # << >>
  PROVE  /\ Len(s) \in Nat /\ Len(s) > 0 /\ Len(Tail(s)) = Len(s) - 1 /\ Head(s) = s[1]
         /\ \A i \in 1 .. Len(s) - 1 : Tail(s)[i] = s[i + 1]
         /\ Tail(s) \in Seq(S) /\ Head(s) \in S
<1>1. Len(s) \in Nat /\ Len(s) > 0 /\ Head(s) = s[1] /\ Head(s) \in S
  OBVIOUS
<1>2. Len(Tail(s)) = Len(s) - 1 /\ Tail(s) \in Seq(S)
  OBVIOUS
<1>3. \A i \in 1 .. Len(s) - 1 : Tail(s)[i] = s[i + 1]
  BY <1>1
<1> QED
  BY <1>1, <1>2, <1>3

LEMMA BeforeLast ==
  ASSUME NEW n \in Nat, n > 0, n # 1
  PROVE  1 \in 1 .. n - 1
OBVIOUS

LEMMA NoneLeft ==
  ASSUME NEW S, NEW s \in Seq(S)
  PROVE  (s = << >>) <=> (Len(s) = 0)
OBVIOUS

\* Short sequences after a step.
LEMMA ShortSteps ==
  ASSUME NEW a, NEW b, NEW c
  PROVE  /\ Append(<< >>, a) = <<a>> /\ Append(<<a>>, b) = <<a, b>>
         /\ Head(<<a>>) = a /\ Tail(<<a>>) = << >>
         /\ Head(<<a, b>>) = a /\ Tail(<<a, b>>) = <<b>>
         /\ Head(<<a, b, c>>) = a /\ Tail(<<a, b, c>>) = <<b, c>>
<1> DEFINE S == {a, b, c}
<1>1. /\ << >> \in Seq(S) /\ <<a>> \in Seq(S) /\ <<b>> \in Seq(S)
      /\ <<a, b>> \in Seq(S) /\ <<b, c>> \in Seq(S) /\ <<a, b, c>> \in Seq(S)
  BY Tuples
<1>2. Append(<< >>, a) = <<a>>
  <2>1. Append(<< >>, a) \in Seq(S) /\ Len(Append(<< >>, a)) = 1 /\ Append(<< >>, a)[1] = a
    BY <1>1
  <2>2. Len(<<a>>) = 1 /\ <<a>>[1] = a
    OBVIOUS
  <2>3. \A i \in 1 .. 1 : Append(<< >>, a)[i] = <<a>>[i]
    BY <2>1, <2>2
  <2> QED
    BY <1>1, <2>1, <2>2, <2>3, SeqEqual
<1>3. Append(<<a>>, b) = <<a, b>>
  BY Appended
<1>4. Head(<<a>>) = a /\ Head(<<a, b>>) = a /\ Head(<<a, b, c>>) = a
  OBVIOUS
<1>5. Tail(<<a>>) = << >>
  <2>1. Tail(<<a>>) \in Seq(S) /\ Len(Tail(<<a>>)) = 0
    BY <1>1
  <2> QED
    BY <2>1
<1>6. Tail(<<a, b>>) = <<b>>
  <2>1. Tail(<<a, b>>) \in Seq(S) /\ Len(Tail(<<a, b>>)) = 1 /\ Tail(<<a, b>>)[1] = b
    BY <1>1
  <2>2. Len(<<b>>) = 1 /\ <<b>>[1] = b
    OBVIOUS
  <2>3. \A i \in 1 .. 1 : Tail(<<a, b>>)[i] = <<b>>[i]
    BY <2>1, <2>2
  <2> QED
    BY <1>1, <2>1, <2>2, <2>3, SeqEqual
<1>7. Tail(<<a, b, c>>) = <<b, c>>
  <2>1. /\ Tail(<<a, b, c>>) \in Seq(S) /\ Len(Tail(<<a, b, c>>)) = 2
        /\ Tail(<<a, b, c>>)[1] = b /\ Tail(<<a, b, c>>)[2] = c
    BY <1>1
  <2>2. Len(<<b, c>>) = 2 /\ <<b, c>>[1] = b /\ <<b, c>>[2] = c
    OBVIOUS
  <2>3. \A i \in 1 .. 2 : Tail(<<a, b, c>>)[i] = <<b, c>>[i]
    BY <2>1, <2>2
  <2> QED
    BY <1>1, <2>1, <2>2, <2>3, SeqEqual
<1> QED
  BY <1>2, <1>3, <1>4, <1>5, <1>6, <1>7

-----------------------------------------------------------------------------
(* What is on its way, for each place retail_client can be at *)

Gone == worker.at = "closed"

SameRoles ==
  /\ client.authenticated = worker.authenticated
  /\ client.authenticated => client.role = worker.role

\* No byte of a request is on its way, or in the buffer of the worker.
Idle == up = << >> /\ worker.reader = Nothing

\* The last request is on its way to the worker, byte by byte, or is there.
Travelling(rest, part, complete) ==
  up = rest /\ worker.reader = [part |-> part, complete |-> complete]
BareOnWay ==
  /\ client.asked \in Bare
  /\ \/ Travelling(<<client.asked, NL>>, << >>, FALSE)
     \/ Travelling(<<NL>>, <<client.asked>>, FALSE)
     \/ Travelling(<< >>, <<client.asked>>, TRUE)
OtherOnWay ==
  /\ client.asked \notin Bare
  /\ \/ Travelling(<<client.asked, "args", NL>>, << >>, FALSE)
     \/ Travelling(<<"args", NL>>, <<client.asked>>, FALSE)
     \/ Travelling(<<NL>>, <<client.asked, "args">>, FALSE)
     \/ Travelling(<< >>, <<client.asked, "args">>, TRUE)
InTransit ==
  /\ worker.at = "recv" /\ worker.n + 1 = client.n /\ down = << >>
  /\ BareOnWay \/ OtherOnWay

\* The roles once a request other than a listing has been answered.
Outcome(kind) ==
  /\ (client.asked \in Logins /\ kind = "OK LOGIN") =>
        worker.authenticated = TRUE /\ worker.role = RoleOf(client.asked)
  /\ client.asked = "LOGOUT" => worker.authenticated = FALSE
  /\ (client.asked # "LOGOUT" /\ ~(client.asked \in Logins /\ kind = "OK LOGIN")) => SameRoles

\* The one line on its way is the reply to the last request.
OneLine(kind) == Len(down) = 1 /\ down[1].re = client.n /\ down[1].kind = kind

Answering(lines) == \A i \in 1 .. Len(lines) : lines[i].re = client.n

\* Rows of a listing without its END, and with it as the last line.
RowsOnly(lines) == \A i \in 1 .. Len(lines) : lines[i].kind \in {"OK", "DATA"}
Ended(lines) ==
  /\ Len(lines) > 0 /\ lines[Len(lines)].kind = "END"
  /\ \A i \in 1 .. Len(lines) - 1 : lines[i].kind \in {"OK", "DATA"}

\* Nothing follows an END or a refusal: what holds of a listing cut short.
Tidy(lines) == \A i \in 1 .. Len(lines) - 1 : lines[i].kind \notin {"END", "ERR"}

\* While the worker serves the connection.
AtStart == /\ worker.at = "welcome" /\ worker.n = 0 /\ client.n = 0
           /\ down = << >> /\ Idle /\ SameRoles
AtGreeting ==
  /\ worker.n = 0 /\ client.n = 0 /\ Idle /\ SameRoles
  /\ \/ worker.at = "welcome" /\ down = << >>
     \/ worker.at = "recv" /\ OneLine("OK")
AtMenu == worker.at = "recv" /\ worker.n = client.n /\ down = << >> /\ Idle /\ SameRoles
Answered1(kind) == worker.at = "recv" /\ worker.n = client.n /\ Idle /\ OneLine(kind)
AtReply ==
  /\ client.asked \in Commands \ Listings
  /\ \/ InTransit /\ SameRoles
     \/ \E kind \in {"OK", "OK LOGIN", "ERR"} : Answered1(kind) /\ Outcome(kind)
AtHead ==
  /\ client.asked \in Listings /\ SameRoles
  /\ \/ InTransit
     \/ Answered1("ERR")
     \/ /\ worker.n = client.n /\ Idle /\ Answering(down)
        /\ \/ worker.at = "rows" /\ Len(down) > 0 /\ RowsOnly(down)
           \/ worker.at = "recv" /\ Len(down) > 1 /\ Ended(down)
AtRows ==
  /\ SameRoles /\ worker.n = client.n /\ Idle /\ Answering(down)
  /\ \/ worker.at = "rows" /\ RowsOnly(down)
     \/ worker.at = "recv" /\ Ended(down)

ServedInv ==
  /\ client.at = "start" => AtStart
  /\ client.at = "greeting" => AtGreeting
  /\ client.at \in {"menu", "paging"} => AtMenu
  /\ client.at = "reply" => AtReply
  /\ client.at = "head" => AtHead
  /\ client.at = "rows" => AtRows

\* When the worker has gone: what is left on its way to the client.
GoneInv ==
  /\ worker.reader = Nothing /\ client.at # "start"
  /\ client.at \in {"greeting", "reply"} => Len(down) <= 1 /\ Answering(down)
  /\ client.at \in {"menu", "paging"} => down = << >>
  /\ client.at \in {"head", "rows"} => Answering(down) /\ Tidy(down)

Playing == peer = "retail" /\ client.at # "exited"

\* Another peer is never where retail_client can be; the client finds the connection
\* closed when the worker has gone, and then only; and both ends agree on what is on
\* its way as long as retail_client runs.
PeerInv ==
  /\ peer = "foreign" => client.at \in {"start", "foreign", "exited"}
  /\ peer = "retail" => client.at # "foreign"
  /\ Gone <=> downEnd # "open"
SessionInv ==
  /\ PeerInv
  /\ Playing => /\ upEnd = "open"
                /\ ~Gone => ServedInv
                /\ Gone => GoneInv

-----------------------------------------------------------------------------
(* Every step keeps the invariant *)

LEMMA SessionInit == Init => SessionInv
BY DEF Init, SessionInv, PeerInv, Playing, Gone, ServedInv, AtStart, Idle, SameRoles

LEMMA PeerNext == ShapeInv /\ PeerInv /\ Next => PeerInv' /\ peer' = peer
<1> SUFFICES ASSUME ShapeInv, PeerInv, Next PROVE PeerInv' /\ peer' = peer
  OBVIOUS
<1>1. CASE Connect
  BY <1>1 DEF Connect, PeerInv, Gone, ShapeInv, ClientTyped, Clients
<1>2. CASE Choose
  <2>1. PICK command \in MenuChoices : Ask(command) \/ AskInVain(command)
    BY <1>2 DEF Choose
  <2>2. Expecting(command) # "foreign" /\ client.at = "menu"
    BY <1>2 DEF Expecting, Choose
  <2>3. client'.at # "foreign" /\ client.at # "foreign"
    BY <2>1, <2>2 DEF Ask, AskInVain, ShapeInv, ClientTyped, Clients
  <2> QED
    BY <2>1, <2>2, <2>3 DEF Ask, AskInVain, PeerInv, Gone
<1>3. CASE Read
  <2>1. client.at \in Waiting /\ client'.at # "foreign"
    BY <1>3 DEF Read, Greeted, Reply, ReplyLost, HeadOfListing, Row, EndOfRows, Settle, Waiting,
                ShapeInv, ClientTyped, Clients
  <2> QED
    BY <1>3, <2>1 DEF Read, PeerInv, Gone, Waiting
<1>4. CASE TurnPage /\ UNCHANGED <<peer, worker, up, downEnd, sent, heard>>
  BY <1>4 DEF TurnPage, PeerInv, Gone, ShapeInv, ClientTyped, Clients
<1>5. CASE SendByte \/ Discard
  BY <1>5 DEF SendByte, Discard, PeerInv, Gone
<1>6. CASE ClientEnds
  BY <1>6 DEF ClientEnds, PeerInv, Gone, ShapeInv, ClientTyped, Clients
<1>7. CASE Welcome \/ Receive \/ SendRow \/ SendEnd
  BY <1>7 DEF Welcome, Receive, SendRow, SendEnd, PeerInv, Gone, ShapeInv, WorkersTyped
<1>8. CASE HangUp \/ ServerStops
  BY <1>8 DEF HangUp, ServerStops, PeerInv, Gone, ShapeInv, WorkersTyped
<1>9. CASE Obey
  <2>1. Cleared.at = worker.at
    BY DEF Cleared, ShapeInv, WorkersTyped
  <2>2. Cleared \in WorkersTyped /\ worker \in WorkersTyped
    BY ClearedType DEF ShapeInv
  <2>3. /\ worker.at = "recv" /\ peer' = peer /\ client' = client
        /\ \/ worker' = [worker EXCEPT !.reader = Nothing] /\ downEnd' = downEnd
           \/ \E line : Handle(line)
    BY <1>9 DEF Obey
  <2>4. downEnd = "open"
    BY <2>3 DEF PeerInv, Gone
  <2>5. ASSUME NEW line, Handle(line)
        PROVE  worker'.at = "closed" <=> downEnd' # "open"
    <3>1. CASE LogIn(line) \/ LogOut(line) \/ Succeed(line) \/ Refuse
      BY <2>1, <2>2, <2>3, <2>4, <3>1 DEF LogIn, LogOut, Succeed, Refuse, WorkersTyped
    <3>2. CASE BeginListing(line)
      BY <2>2, <2>4, <3>2 DEF BeginListing, WorkersTyped
    <3>3. CASE Quit(line)
      BY <2>2, <3>3 DEF Quit, WorkersTyped
    <3>4. LogIn(line) \/ LogOut(line) \/ BeginListing(line) \/ Succeed(line) \/ Refuse \/ Quit(line)
      BY <2>5 DEF Handle
    <3> QED
      BY <3>1, <3>2, <3>3, <3>4
  <2>6. worker'.at = "closed" <=> downEnd' # "open"
    BY <2>2, <2>3, <2>4, <2>5 DEF WorkersTyped
  <2> QED
    BY <2>3, <2>6 DEF PeerInv, Gone
<1> QED
  BY <1>1, <1>2, <1>3, <1>4, <1>5, <1>6, <1>7, <1>8, <1>9 DEF Next, User, Work

\* A session of retail_client, from its start to its end.
Session == /\ ShapeInv /\ SessionInv /\ Playing

LEMMA SessionFacts ==
  ASSUME Session
  PROVE  /\ peer = "retail" /\ client.at # "exited" /\ client.at # "foreign" /\ upEnd = "open"
         /\ worker.at # "closed" => ServedInv /\ downEnd = "open"
         /\ worker.at = "closed" => GoneInv /\ downEnd # "open"
         /\ client \in Clients(client.listing, client.rows, client.page)
         /\ worker \in WorkersTyped
         /\ down \in Seq(ReplyLine) /\ up \in Seq(Bytes)
BY DEF Session, SessionInv, Playing, PeerInv, Gone, ShapeInv, ClientTyped

\* What has to be shown of a step of a session that does not end it.
LEMMA SessionStep ==
  ASSUME Session, PeerInv', peer' = peer, upEnd' = "open",
         worker'.at # "closed" => ServedInv',
         worker'.at = "closed" => GoneInv'
  PROVE  SessionInv'
BY DEF SessionInv, Playing, Gone

LEMMA ConnectKeeps ==
  ASSUME Session, Connect
  PROVE  /\ upEnd' = "open"
         /\ worker'.at # "closed" => ServedInv'
         /\ worker'.at = "closed" => GoneInv'
<1>1. worker.at = "welcome" /\ AtStart
  BY SessionFacts DEF Connect, ServedInv, AtStart, GoneInv
<1>2. client' = [client EXCEPT !.at = "greeting"]
  BY SessionFacts DEF Connect
<1>3. AtGreeting' /\ client'.at = "greeting"
  BY <1>1, <1>2, SessionFacts DEF Connect, AtStart, AtGreeting, Idle, SameRoles, Clients
<1> QED
  BY <1>1, <1>3, SessionFacts DEF Connect, ServedInv

LEMMA AskKeeps ==
  ASSUME Session, Choose, client'.at # "exited"
  PROVE  /\ upEnd' = "open"
         /\ worker'.at # "closed" => ServedInv'
         /\ worker'.at = "closed" => GoneInv'
<1>1. PICK command \in MenuChoices : Ask(command) \/ AskInVain(command)
  BY DEF Choose
<1>2. command \in Commands /\ client.at = "menu" /\ client.n \in Nat
  BY RequestTypes, SessionFacts DEF Choose, Session, Clients
<1>3. upEnd' = "open"
  BY <1>1, SessionFacts DEF Ask, AskInVain
<1>4. CASE worker.at = "closed"
  <2>1. down' = << >> /\ worker' = worker /\ worker.reader = Nothing
    BY <1>1, <1>2, <1>4, SessionFacts DEF GoneInv, Ask, AskInVain
  <2>2. client'.at \in {"menu", "reply", "head"}
    BY <1>1, SessionFacts DEF Ask, AskInVain, Expecting, Clients
  <2>3. Len(down') = 0
    BY <2>1
  <2>4. Answering(down)' /\ Tidy(down)'
    BY <2>3 DEF Answering, Tidy
  <2> QED
    BY <1>3, <1>4, <2>1, <2>2, <2>3, <2>4 DEF GoneInv
<1>5. CASE worker.at # "closed"
  <2>1. Ask(command) /\ downEnd = "open" /\ AtMenu
    BY <1>1, <1>2, <1>5, SessionFacts DEF AskInVain, ServedInv
  <2>2. /\ client'.at = Expecting(command) /\ client'.asked = command /\ client'.n = client.n + 1
        /\ client'.authenticated = client.authenticated /\ client'.role = client.role
        /\ worker' = worker /\ down' = << >>
        /\ up' = << >> \o LineOf(Request(command))
    BY <2>1, SessionFacts DEF Ask, AtMenu, Idle, Clients
  <2>3. up' = IF command \in Bare THEN <<command, NL>> ELSE <<command, "args", NL>>
    BY <1>2, <2>2, RequestLine
  <2>4. InTransit' /\ SameRoles'
    <3>1. Travelling(IF command \in Bare THEN <<command, NL>> ELSE <<command, "args", NL>>,
                     << >>, FALSE)'
      BY <2>1, <2>2, <2>3 DEF AtMenu, Idle, Nothing, Travelling
    <3>2. (BareOnWay \/ OtherOnWay)'
      BY <2>2, <3>1 DEF BareOnWay, OtherOnWay
    <3> QED
      BY <2>1, <2>2, <3>2 DEF AtMenu, SameRoles, InTransit
  <2>5. CASE command \in Listings
    BY <1>3, <1>5, <2>2, <2>4, <2>5 DEF Expecting, ServedInv, AtHead
  <2>6. CASE command \notin Listings
    BY <1>2, <1>3, <1>5, <2>2, <2>4, <2>6 DEF Expecting, ServedInv, AtReply
  <2> QED
    BY <2>5, <2>6
<1> QED
  BY <1>4, <1>5

LEMMA TurnKeeps ==
  ASSUME Session, TurnPage, UNCHANGED <<peer, worker, up, downEnd, sent, heard>>
  PROVE  /\ upEnd' = "open"
         /\ worker'.at # "closed" => ServedInv'
         /\ worker'.at = "closed" => GoneInv'
<1>1. /\ client.at = "paging" /\ client'.at \in {"menu", "paging"} /\ client'.n = client.n
      /\ client'.authenticated = client.authenticated /\ client'.role = client.role
      /\ down' = down /\ upEnd' = upEnd /\ up' = up /\ worker' = worker
  BY SessionFacts DEF TurnPage, Clients
<1>2. worker.at # "closed" => AtMenu'
  BY <1>1, SessionFacts DEF ServedInv, AtMenu, Idle, SameRoles
<1> QED
  BY <1>1, <1>2, SessionFacts DEF ServedInv, GoneInv

\* What reading a line does to the lines on their way.
LEMMA HeardFacts ==
  ASSUME Session, NEW kinds, Heard(kinds)
  PROVE  /\ down' \in Seq(ReplyLine) /\ down[1] = Head(down) /\ Head(down).kind \in kinds
         /\ Len(down) \in Nat /\ Len(down) > 0 /\ Len(down') = Len(down) - 1
         /\ \A i \in 1 .. Len(down') : down'[i] = down[i + 1] /\ i + 1 \in 1 .. Len(down)
         /\ Len(down) = 1 => down' = << >>
<1>1. down \in Seq(ReplyLine) /\ down # << >> /\ down' = Tail(down)
  BY SessionFacts DEF Heard
<1>2. /\ Len(down) \in Nat /\ Len(down) > 0 /\ Len(down') = Len(down) - 1
      /\ down' \in Seq(ReplyLine) /\ down[1] = Head(down)
      /\ \A i \in 1 .. Len(down) - 1 : down'[i] = down[i + 1]
  BY <1>1, OneLess
<1>3. \A i \in 1 .. Len(down') : down'[i] = down[i + 1] /\ i + 1 \in 1 .. Len(down)
  BY <1>2
<1>4. Len(down) = 1 => down' = << >>
  BY <1>2, NoneLeft
<1> QED
  BY <1>2, <1>3, <1>4 DEF Heard

LEMMA LostFacts ==
  ASSUME Session, Lost
  PROVE  worker.at = "closed" /\ GoneInv /\ down' = << >> /\ down = << >>
BY SessionFacts DEF Lost

\* A menu is reached with nothing left on the way.
LEMMA BackToMenu ==
  ASSUME Session, UNCHANGED <<peer, worker, up, downEnd, sent, heard>>, upEnd' = "open",
         client'.at \in {"menu", "paging"}, client'.n = client.n, down' = << >>,
         worker.at # "closed" =>
           worker.at = "recv" /\ worker.n = client.n /\ Idle /\ SameRoles'
  PROVE  /\ upEnd' = "open"
         /\ worker'.at # "closed" => ServedInv'
         /\ worker'.at = "closed" => GoneInv'
<1>1. worker.at # "closed" => AtMenu'
  BY DEF AtMenu, Idle
<1> QED
  BY <1>1, SessionFacts DEF ServedInv, GoneInv

LEMMA GreetedKeeps ==
  ASSUME Session, Greeted, UNCHANGED <<peer, worker, up, downEnd, sent, heard>>
  PROVE  /\ upEnd' = "open"
         /\ worker'.at # "closed" => ServedInv'
         /\ worker'.at = "closed" => GoneInv'
<1>1. /\ client.at = "greeting" /\ client'.at = "menu" /\ client'.n = client.n
      /\ client'.authenticated = client.authenticated /\ client'.role = client.role
      /\ upEnd' = "open"
  BY SessionFacts DEF Greeted, Settle, Clients
<1>2. CASE Heard(AllKinds)
  <2>1. Len(down) \in Nat /\ Len(down) > 0
    BY <1>2, HeardFacts
  <2>2. down # << >>
    BY <1>2 DEF Heard
  <2>3. Len(down) = 1 /\ (worker.at # "closed" => AtGreeting /\ worker.at = "recv")
    <3>1. CASE worker.at = "closed"
      <4>1. GoneInv
        BY <3>1, SessionFacts
      <4>2. Len(down) <= 1
        BY <1>1, <4>1 DEF GoneInv
      <4>3. Len(down) = 1
        BY <2>1, <4>2
      <4> QED
        BY <3>1, <4>3
    <3>2. CASE worker.at # "closed"
      BY <1>1, <2>2, <3>2, SessionFacts DEF ServedInv, AtGreeting, OneLine
    <3> QED
      BY <3>1, <3>2
  <2>4. down' = << >>
    BY <1>2, <2>3, HeardFacts
  <2>5. worker.at # "closed" => worker.at = "recv" /\ worker.n = client.n /\ Idle /\ SameRoles'
    BY <1>1, <2>3 DEF AtGreeting, SameRoles
  <2> QED
    BY <1>1, <2>4, <2>5, BackToMenu
<1>3. CASE Lost
  BY <1>1, <1>3, LostFacts, BackToMenu
<1> QED
  BY <1>2, <1>3 DEF Greeted

LEMMA ReplyKeeps ==
  ASSUME Session, Reply, UNCHANGED <<peer, worker, up, downEnd, sent, heard>>,
         client'.at # "exited"
  PROVE  /\ upEnd' = "open"
         /\ worker'.at # "closed" => ServedInv'
         /\ worker'.at = "closed" => GoneInv'
<1> DEFINE taken == client.asked \in Logins /\ Head(down).kind = "OK LOGIN"
<1>1. client.at = "reply" /\ Heard(AllKinds)
  BY DEF Reply
<1>2. client.asked \in {"QUIT", "LOGOUT"} => client.asked \notin Logins
  BY DEF Logins
<1>3. /\ client'.at = "menu" /\ client'.n = client.n /\ client.asked # "QUIT"
      /\ taken => client'.authenticated = TRUE /\ client'.role = RoleOf(client.asked)
      /\ (~taken /\ client.asked = "LOGOUT") => client'.authenticated = FALSE
      /\ (~taken /\ client.asked # "LOGOUT") =>
           client'.authenticated = client.authenticated /\ client'.role = client.role
  <2>1. CASE taken
    <3>1. client' = [client EXCEPT !.at = "menu", !.authenticated = TRUE,
                                   !.role = RoleOf(client.asked)]
      BY <1>2, <2>1 DEF Reply, LoginAccepted
    <3> QED
      BY <1>2, <2>1, <3>1, SessionFacts DEF Clients
  <2>2. CASE ~taken /\ client.asked = "LOGOUT"
    <3>1. client' = [client EXCEPT !.at = "menu", !.authenticated = FALSE, !.role = "none"]
      BY <2>2 DEF Reply, LoginAccepted
    <3> QED
      BY <2>2, <3>1, SessionFacts DEF Clients
  <2>3. CASE ~taken /\ client.asked # "LOGOUT"
    <3>1. client' = [client EXCEPT !.at = IF client.asked = "QUIT" THEN "exited" ELSE "menu"]
      BY <2>3 DEF Reply, LoginAccepted, Settle
    <3> QED
      BY <2>3, <3>1, SessionFacts DEF Clients
  <2> QED
    BY <2>1, <2>2, <2>3
<1>4. upEnd' = "open"
  BY <1>3, SessionFacts DEF Reply
<1>5. CASE worker.at = "closed"
  <2>1. Len(down) = 1
    <3>1. Len(down) \in Nat /\ Len(down) > 0
      BY <1>1, HeardFacts
    <3>2. GoneInv
      BY <1>5, SessionFacts
    <3>3. Len(down) <= 1
      BY <1>1, <3>2 DEF GoneInv
    <3> QED
      BY <3>1, <3>3
  <2> QED
    BY <1>1, <1>3, <1>4, <1>5, <2>1, HeardFacts, BackToMenu
<1>6. CASE worker.at # "closed"
  <2>1. down # << >>
    BY <1>1 DEF Heard
  <2>2. PICK kind \in {"OK", "OK LOGIN", "ERR"} : Answered1(kind) /\ Outcome(kind)
    BY <1>1, <1>6, <2>1, SessionFacts DEF ServedInv, AtReply, InTransit
  <2>3. Len(down) = 1 /\ Head(down).kind = kind
    BY <1>1, <2>2, HeardFacts DEF Answered1, OneLine
  <2>4. down' = << >>
    BY <1>1, <2>3, HeardFacts
  <2>5. client.asked = "LOGOUT" => client.asked \notin Logins
    BY DEF Logins
  <2>6. SameRoles'
    <3>1. CASE taken
      BY <1>3, <2>2, <2>3, <3>1 DEF Outcome, SameRoles
    <3>2. CASE ~taken /\ client.asked = "LOGOUT"
      BY <1>3, <2>2, <3>2 DEF Outcome, SameRoles
    <3>3. CASE ~taken /\ client.asked # "LOGOUT"
      BY <1>3, <2>2, <2>3, <3>3 DEF Outcome, SameRoles
    <3> QED
      BY <3>1, <3>2, <3>3
  <2>7. worker.at = "recv" /\ worker.n = client.n /\ Idle
    BY <2>2 DEF Answered1
  <2> QED
    BY <1>3, <1>4, <2>4, <2>6, <2>7, BackToMenu
<1> QED
  BY <1>5, <1>6

LEMMA ReplyLostKeeps ==
  ASSUME Session, ReplyLost, UNCHANGED <<peer, worker, up, downEnd, sent, heard>>,
         client'.at # "exited"
  PROVE  /\ upEnd' = "open"
         /\ worker'.at # "closed" => ServedInv'
         /\ worker'.at = "closed" => GoneInv'
<1>1. client'.at = "menu" /\ client'.n = client.n /\ upEnd' = "open"
  BY SessionFacts DEF ReplyLost, Settle, Clients
<1>2. worker.at = "closed" /\ down' = << >>
  BY LostFacts DEF ReplyLost
<1> QED
  BY <1>1, <1>2, BackToMenu

\* Reading one line of a listing leaves the rest of it in order.
LEMMA ShorterListing ==
  ASSUME Session, NEW kinds, Heard(kinds), client'.n = client.n
  PROVE  /\ Answering(down) => Answering(down)'
         /\ RowsOnly(down) => RowsOnly(down)'
         /\ Tidy(down) => Tidy(down)'
         /\ (Ended(down) /\ Head(down).kind # "END") => Ended(down)'
<1>1. /\ down' \in Seq(ReplyLine) /\ down[1] = Head(down)
      /\ Len(down) \in Nat /\ Len(down) > 0 /\ Len(down') = Len(down) - 1
      /\ \A i \in 1 .. Len(down') : down'[i] = down[i + 1] /\ i + 1 \in 1 .. Len(down)
  BY HeardFacts
<1>2. \A i \in 1 .. Len(down') - 1 : i \in 1 .. Len(down') /\ i + 1 \in 1 .. Len(down) - 1
  BY <1>1
<1>3. Answering(down) => Answering(down)'
  BY <1>1 DEF Answering
<1>4. RowsOnly(down) => RowsOnly(down)'
  BY <1>1 DEF RowsOnly
<1>5. Tidy(down) => Tidy(down)'
  <2> SUFFICES ASSUME Tidy(down), NEW i \in 1 .. Len(down') - 1
               PROVE  down'[i].kind \notin {"END", "ERR"}
    BY DEF Tidy
  <2>1. down'[i] = down[i + 1] /\ i + 1 \in 1 .. Len(down) - 1
    BY <1>1, <1>2
  <2> QED
    BY <2>1 DEF Tidy
<1>6. ASSUME Ended(down), Head(down).kind # "END"
      PROVE  Ended(down)'
  <2>1. Len(down) # 1
    BY <1>1, <1>6 DEF Ended
  <2>2. Len(down') > 0 /\ Len(down') \in 1 .. Len(down') /\ Len(down') + 1 = Len(down)
    BY <1>1, <2>1
  <2>3. down'[Len(down')].kind = "END"
    <3>1. down'[Len(down')] = down[Len(down') + 1]
      BY <1>1, <2>2
    <3> QED
      BY <1>6, <2>2, <3>1 DEF Ended
  <2>4. ASSUME NEW i \in 1 .. Len(down') - 1
        PROVE  down'[i].kind \in {"OK", "DATA"}
    <3>1. down'[i] = down[i + 1] /\ i + 1 \in 1 .. Len(down) - 1
      BY <1>1, <1>2
    <3> QED
      BY <1>6, <3>1 DEF Ended
  <2> QED
    BY <2>2, <2>3, <2>4 DEF Ended
<1> QED
  BY <1>3, <1>4, <1>5, <1>6

\* The rest of a listing when the client goes on to its rows, or stays at them.
LEMMA RowsKeep ==
  ASSUME Session, NEW kinds, Heard(kinds), UNCHANGED <<peer, worker, up, downEnd, sent, heard>>,
         upEnd' = "open", client'.at = "rows", client'.n = client.n,
         client'.authenticated = client.authenticated, client'.role = client.role,
         worker.at = "closed" => Answering(down) /\ Tidy(down),
         worker.at # "closed" =>
           /\ SameRoles /\ worker.n = client.n /\ Idle /\ Answering(down)
           /\ \/ worker.at = "rows" /\ RowsOnly(down)
              \/ worker.at = "recv" /\ Ended(down) /\ Head(down).kind # "END"
  PROVE  /\ upEnd' = "open"
         /\ worker'.at # "closed" => ServedInv'
         /\ worker'.at = "closed" => GoneInv'
<1>1. worker.at = "closed" => GoneInv'
  BY ShorterListing, SessionFacts DEF GoneInv
<1>2. worker.at # "closed" => AtRows'
  BY ShorterListing DEF AtRows, SameRoles, Idle
<1> QED
  BY <1>1, <1>2 DEF ServedInv

LEMMA HeadKeeps ==
  ASSUME Session, HeadOfListing, UNCHANGED <<peer, worker, up, downEnd, sent, heard>>
  PROVE  /\ upEnd' = "open"
         /\ worker'.at # "closed" => ServedInv'
         /\ worker'.at = "closed" => GoneInv'
<1>1. /\ client.at = "head" /\ client'.at \in {"menu", "rows"} /\ client'.n = client.n
      /\ client'.authenticated = client.authenticated /\ client'.role = client.role
      /\ upEnd' = "open"
  BY SessionFacts DEF HeadOfListing, Settle, Clients
<1>2. worker.at = "closed" => Answering(down) /\ Tidy(down)
  BY <1>1, SessionFacts DEF GoneInv
<1>3. CASE Lost
  <2>1. client'.at = "menu"
    BY <1>3, SessionFacts DEF HeadOfListing, Heard, Lost, Settle, Clients
  <2> QED
    BY <1>1, <1>3, <2>1, LostFacts, BackToMenu
<1>4. ASSUME Heard(AllKinds), worker.at # "closed"
      PROVE  /\ SameRoles /\ worker.n = client.n /\ Idle /\ Answering(down)
             /\ \/ worker.at = "rows" /\ RowsOnly(down)
                \/ worker.at = "recv" /\ Len(down) > 1 /\ Ended(down)
                \/ worker.at = "recv" /\ OneLine("ERR")
  <2>1. AtHead /\ down # << >>
    BY <1>1, <1>4, SessionFacts DEF ServedInv, Heard
  <2>2. OneLine("ERR") => Answering(down)
    BY DEF OneLine, Answering
  <2> QED
    BY <2>1, <2>2 DEF AtHead, InTransit, Answered1
<1>5. CASE Heard({"ERR"}) /\ Settle("menu")
  <2>1. Heard(AllKinds) /\ client'.at = "menu" /\ Head(down).kind = "ERR"
    BY <1>5, SessionFacts DEF Heard, AllKinds, Settle, Clients
  <2>2. Len(down) \in Nat /\ Len(down) > 0 /\ down[1].kind = "ERR"
    BY <2>1, HeardFacts
  <2>3. Len(down) = 1
    <3>1. CASE worker.at = "closed"
      <4>1. Tidy(down)
        BY <1>2, <3>1
      <4> QED
        BY <2>2, <4>1 DEF Tidy
    <3>2. CASE worker.at # "closed"
      <4>1. ~RowsOnly(down)
        BY <2>2 DEF RowsOnly
      <4>2. Len(down) > 1 => ~Ended(down)
        BY <2>2 DEF Ended
      <4> QED
        BY <1>4, <2>1, <3>2, <4>1, <4>2 DEF OneLine
    <3> QED
      BY <3>1, <3>2
  <2>4. down' = << >>
    BY <1>5, <2>3, HeardFacts
  <2>5. worker.at # "closed" => worker.at = "recv" /\ worker.n = client.n /\ Idle /\ SameRoles'
    <3>1. ~RowsOnly(down)
      BY <2>2 DEF RowsOnly
    <3> QED
      BY <1>1, <1>4, <2>1, <3>1 DEF SameRoles
  <2> QED
    BY <1>1, <2>1, <2>4, <2>5, BackToMenu
<1>6. CASE Heard(AllKinds \ {"ERR"}) /\ Settle("rows")
  <2>1. Heard(AllKinds) /\ client'.at = "rows" /\ Head(down).kind # "ERR"
    BY <1>6, SessionFacts DEF Heard, Settle, Clients
  <2>2. Len(down) \in Nat /\ Len(down) > 0 /\ down[1] = Head(down)
    BY <2>1, HeardFacts
  <2>3. (Ended(down) /\ Len(down) > 1) => Head(down).kind # "END"
    BY <2>2 DEF Ended
  <2>4. OneLine("ERR") => Head(down).kind = "ERR"
    BY <2>2 DEF OneLine
  <2>5. worker.at # "closed" =>
           /\ SameRoles /\ worker.n = client.n /\ Idle /\ Answering(down)
           /\ \/ worker.at = "rows" /\ RowsOnly(down)
              \/ worker.at = "recv" /\ Ended(down) /\ Head(down).kind # "END"
    BY <1>4, <2>1, <2>3, <2>4
  <2> QED
    BY <1>1, <1>2, <2>1, <2>5, RowsKeep
<1> QED
  BY <1>3, <1>5, <1>6 DEF HeadOfListing

LEMMA RowKeeps ==
  ASSUME Session, Row, UNCHANGED <<peer, worker, up, downEnd, sent, heard>>
  PROVE  /\ upEnd' = "open"
         /\ worker'.at # "closed" => ServedInv'
         /\ worker'.at = "closed" => GoneInv'
<1>1. /\ client.at = "rows" /\ client'.at = "rows" /\ client'.n = client.n
      /\ client'.authenticated = client.authenticated /\ client'.role = client.role
      /\ upEnd' = "open"
  BY SessionFacts DEF Row, Clients
<1>2. Heard(AllKinds \ {"END"}) /\ Head(down).kind # "END"
  BY DEF Row, Heard
<1>3. worker.at = "closed" => Answering(down) /\ Tidy(down)
  BY <1>1, SessionFacts DEF GoneInv
<1>4. worker.at # "closed" => AtRows
  BY <1>1, SessionFacts DEF ServedInv
<1> QED
  BY <1>1, <1>2, <1>3, <1>4, RowsKeep DEF AtRows

LEMMA EndKeeps ==
  ASSUME Session, EndOfRows, UNCHANGED <<peer, worker, up, downEnd, sent, heard>>
  PROVE  /\ upEnd' = "open"
         /\ worker'.at # "closed" => ServedInv'
         /\ worker'.at = "closed" => GoneInv'
<1>1. /\ client.at = "rows" /\ client'.at \in {"menu", "paging"} /\ client'.n = client.n
      /\ client'.authenticated = client.authenticated /\ client'.role = client.role
      /\ upEnd' = "open"
  BY SessionFacts DEF EndOfRows, Settle, Clients
<1>2. CASE Lost
  BY <1>1, <1>2, LostFacts, BackToMenu
<1>3. CASE Heard({"END"})
  <2>1. Len(down) \in Nat /\ Len(down) > 0 /\ down[1].kind = "END"
    BY <1>3, HeardFacts
  <2>2. ~RowsOnly(down)
    BY <2>1 DEF RowsOnly
  <2>3. worker.at # "closed" => AtRows
    BY <1>1, SessionFacts DEF ServedInv
  <2>4. Len(down) = 1
    <3> SUFFICES ASSUME Len(down) # 1 PROVE FALSE
      OBVIOUS
    <3>1. Len(down) \in Nat /\ Len(down) > 0
      BY <2>1
    <3>2. 1 \in 1 .. Len(down) - 1
      BY <3>1, BeforeLast
    <3>3. ~Tidy(down) /\ ~Ended(down)
      BY <2>1, <3>2 DEF Tidy, Ended
    <3>4. worker.at = "closed" => Tidy(down)
      BY <1>1, SessionFacts DEF GoneInv
    <3> QED
      BY <2>2, <2>3, <3>3, <3>4 DEF AtRows
  <2>5. down' = << >>
    BY <1>3, <2>4, HeardFacts
  <2>6. worker.at # "closed" => worker.at = "recv" /\ worker.n = client.n /\ Idle /\ SameRoles'
    BY <1>1, <2>2, <2>3 DEF AtRows, SameRoles
  <2> QED
    BY <1>1, <2>5, <2>6, BackToMenu
<1> QED
  BY <1>2, <1>3 DEF EndOfRows

\* A line said while the client is there is on its way.
LEMMA Said ==
  ASSUME Session, NEW line \in ReplyLine, Say(<<line>>), client' = client
  PROVE  /\ down' \in Seq(ReplyLine) /\ Len(down) \in Nat /\ Len(down') = Len(down) + 1
         /\ down'[Len(down')] = line
         /\ \A i \in 1 .. Len(down) : down'[i] = down[i]
         /\ down = << >> => Len(down') = 1 /\ down'[1] = line
         /\ Answering(down) /\ line.re = client.n => Answering(down)'
<1>1. down' = down \o <<line>> /\ down \in Seq(ReplyLine)
  BY SessionFacts DEF Say
<1>2. /\ Len(down) \in Nat /\ Len(down') = Len(down) + 1
      /\ \A i \in 1 .. Len(down) : down'[i] = down[i]
      /\ down'[Len(down) + 1] = line
  BY <1>1, OneMore
<1>3. down = << >> => Len(down) = 0
  OBVIOUS
<1>4. down' \in Seq(ReplyLine)
  BY SayType DEF Session
<1>5. ASSUME Answering(down), line.re = client.n
      PROVE  Answering(down)'
  <2> SUFFICES ASSUME NEW i \in 1 .. Len(down') PROVE down'[i].re = client.n
    BY DEF Answering
  <2>1. i \in 1 .. Len(down) \/ i = Len(down) + 1
    BY <1>2
  <2> QED
    BY <1>2, <1>5, <2>1 DEF Answering
<1> QED
  BY <1>2, <1>3, <1>4, <1>5

LEMMA WelcomeKeeps ==
  ASSUME Session, Welcome
  PROVE  /\ upEnd' = "open"
         /\ worker'.at # "closed" => ServedInv'
         /\ worker'.at = "closed" => GoneInv'
<1>1. client.at = "greeting" /\ AtGreeting /\ down = << >>
  <2>1. ServedInv /\ worker.at = "welcome" /\ client.at # "start"
    BY SessionFacts DEF Welcome
  <2>2. client.at \in {"greeting", "menu", "paging", "reply", "head", "rows"}
    BY <2>1, SessionFacts DEF Clients, ClientPlaces, Waiting
  <2>3. ~AtMenu /\ ~AtReply /\ ~AtHead /\ ~AtRows
    BY <2>1 DEF AtMenu, AtReply, AtHead, AtRows, InTransit, Answered1
  <2>4. client.at = "greeting" /\ AtGreeting
    BY <2>1, <2>2, <2>3 DEF ServedInv
  <2> QED
    BY <2>1, <2>4 DEF AtGreeting
<1>2. /\ worker'.at = "recv" /\ worker'.n = worker.n /\ worker'.reader = worker.reader
      /\ worker'.authenticated = worker.authenticated /\ worker'.role = worker.role
      /\ client' = client /\ up' = up /\ upEnd' = "open"
  BY SessionFacts DEF Welcome, WorkersTyped
<1>3. Line("OK") \in ReplyLine
  BY LineType DEF Line, AllKinds, Session
<1>4. Len(down') = 1 /\ down'[1] = Line("OK")
  BY <1>1, <1>2, <1>3, Said DEF Welcome
<1>5. AtGreeting'
  BY <1>1, <1>2, <1>4 DEF AtGreeting, Idle, SameRoles, OneLine, Line
<1> QED
  BY <1>1, <1>2, <1>5 DEF ServedInv

\* The words of a request fit the buffer, and none of them is an end of line.
LEMMA TakeWord ==
  ASSUME NEW a, NEW b, b # NL, b # CR
  PROVE  /\ Take([part |-> << >>, complete |-> FALSE], b) = [part |-> <<b>>, complete |-> FALSE]
         /\ Take([part |-> <<a>>, complete |-> FALSE], b) = [part |-> <<a, b>>, complete |-> FALSE]
<1>1. Len(<< >>) = 0 /\ Len(<<a>>) = 1
  OBVIOUS
<1>2. 0 + 1 # MaxLine - 1 /\ 1 + 1 # MaxLine - 1
  BY RequestsFit, MaxLineAssumption
<1>3. Take([part |-> << >>, complete |-> FALSE], b) = [part |-> Append(<< >>, b), complete |-> FALSE]
  BY <1>1, <1>2 DEF Take
<1>4. Take([part |-> <<a>>, complete |-> FALSE], b) = [part |-> Append(<<a>>, b), complete |-> FALSE]
  BY <1>1, <1>2 DEF Take
<1> QED
  BY <1>3, <1>4, ShortSteps

LEMMA TakeEnd ==
  ASSUME NEW part
  PROVE  Take([part |-> part, complete |-> FALSE], NL) = [part |-> part, complete |-> TRUE]
<1>1. NL # CR
  BY DEF NL, CR
<1> QED
  BY <1>1 DEF Take

\* A worker that has something of a line is at the client's last request.
LEMMA OnItsWay ==
  ASSUME Session, worker.at = "recv", ~Idle
  PROVE  /\ client.at \in {"reply", "head"} /\ InTransit /\ SameRoles
         /\ (client.at = "reply" => client.asked \in Commands \ Listings)
         /\ (client.at = "head" => client.asked \in Listings)
<1>1. ServedInv
  BY SessionFacts
<1>2. ~AtStart /\ ~AtGreeting /\ ~AtMenu /\ ~AtRows
  BY DEF AtStart, AtGreeting, AtMenu, AtRows
<1>3. client.at \in {"start", "greeting", "menu", "paging", "reply", "head", "rows"}
  BY SessionFacts DEF Clients, ClientPlaces, Waiting
<1>4. client.at \in {"reply", "head"}
  BY <1>1, <1>2, <1>3 DEF ServedInv
<1>5. CASE client.at = "reply"
  <2>1. AtReply
    BY <1>1, <1>5 DEF ServedInv
  <2> QED
    BY <1>5, <2>1 DEF AtReply, Answered1
<1>6. CASE client.at = "head"
  <2>1. AtHead
    BY <1>1, <1>6 DEF ServedInv
  <2> QED
    BY <1>6, <2>1 DEF AtHead, Answered1
<1> QED
  BY <1>4, <1>5, <1>6

LEMMA ReceiveKeeps ==
  ASSUME Session, Receive
  PROVE  /\ upEnd' = "open"
         /\ worker'.at # "closed" => ServedInv'
         /\ worker'.at = "closed" => GoneInv'
<1>1. /\ worker'.at = "recv" /\ worker'.n = worker.n /\ worker'.reader = Take(worker.reader, Head(up))
      /\ worker'.authenticated = worker.authenticated /\ worker'.role = worker.role
      /\ client' = client /\ up' = Tail(up) /\ upEnd' = "open" /\ down' = down
      /\ worker.at = "recv" /\ ~worker.reader.complete /\ up # << >>
  BY SessionFacts DEF Receive, WorkersTyped
<1>2. client.at \in {"reply", "head"} /\ InTransit /\ SameRoles
      /\ (client.at = "reply" => client.asked \in Commands \ Listings)
      /\ (client.at = "head" => client.asked \in Listings)
  <2>1. ~Idle
    BY <1>1 DEF Idle
  <2> QED
    BY <1>1, <2>1, OnItsWay
<1> DEFINE c == client.asked
<1>3. c # NL /\ c # CR /\ "args" # NL /\ "args" # CR
  <2>1. c \in Commands
    BY <1>2 DEF Commands, Bare
  <2> QED
    BY <2>1 DEF NL, CR, Commands, AdminCommands, CustomerCommands, Logins, Bare, Listings
<1>4. ASSUME BareOnWay PROVE BareOnWay'
  <2>1. CASE Travelling(<<c, NL>>, << >>, FALSE)
    <3>1. Take([part |-> << >>, complete |-> FALSE], c) = [part |-> <<c>>, complete |-> FALSE]
      BY <1>3, TakeWord
    <3>2. Head(<<c, NL>>) = c /\ Tail(<<c, NL>>) = <<NL>>
      BY ShortSteps
    <3>3. worker'.reader = [part |-> <<c>>, complete |-> FALSE] /\ up' = <<NL>>
      BY <1>1, <2>1, <3>1, <3>2 DEF Travelling
    <3> QED
      BY <1>1, <1>4, <3>3 DEF BareOnWay, Travelling
  <2>2. CASE Travelling(<<NL>>, <<c>>, FALSE)
    <3>1. worker'.reader = [part |-> <<c>>, complete |-> TRUE] /\ up' = << >>
      BY <1>1, <2>2, TakeEnd, ShortSteps DEF Travelling
    <3> QED
      BY <1>1, <1>4, <3>1 DEF BareOnWay, Travelling
  <2>3. CASE Travelling(<< >>, <<c>>, TRUE)
    BY <1>1, <2>3 DEF Travelling
  <2> QED
    BY <1>4, <2>1, <2>2, <2>3 DEF BareOnWay
<1>5. ASSUME OtherOnWay PROVE OtherOnWay'
  <2>1. CASE Travelling(<<c, "args", NL>>, << >>, FALSE)
    <3>1. Take([part |-> << >>, complete |-> FALSE], c) = [part |-> <<c>>, complete |-> FALSE]
      BY <1>3, TakeWord
    <3>2. Head(<<c, "args", NL>>) = c /\ Tail(<<c, "args", NL>>) = <<"args", NL>>
      BY ShortSteps
    <3>3. worker'.reader = [part |-> <<c>>, complete |-> FALSE] /\ up' = <<"args", NL>>
      BY <1>1, <2>1, <3>1, <3>2 DEF Travelling
    <3> QED
      BY <1>1, <1>5, <3>3 DEF OtherOnWay, Travelling
  <2>2. CASE Travelling(<<"args", NL>>, <<c>>, FALSE)
    <3>1. Take([part |-> <<c>>, complete |-> FALSE], "args") = [part |-> <<c, "args">>, complete |-> FALSE]
      BY <1>3, TakeWord
    <3>2. Head(<<"args", NL>>) = "args" /\ Tail(<<"args", NL>>) = <<NL>>
      BY ShortSteps
    <3>3. worker'.reader = [part |-> <<c, "args">>, complete |-> FALSE] /\ up' = <<NL>>
      BY <1>1, <2>2, <3>1, <3>2 DEF Travelling
    <3> QED
      BY <1>1, <1>5, <3>3 DEF OtherOnWay, Travelling
  <2>3. CASE Travelling(<<NL>>, <<c, "args">>, FALSE)
    <3>1. worker'.reader = [part |-> <<c, "args">>, complete |-> TRUE] /\ up' = << >>
      BY <1>1, <2>3, TakeEnd, ShortSteps DEF Travelling
    <3> QED
      BY <1>1, <1>5, <3>1 DEF OtherOnWay, Travelling
  <2>4. CASE Travelling(<< >>, <<c, "args">>, TRUE)
    BY <1>1, <2>4 DEF Travelling
  <2> QED
    BY <1>5, <2>1, <2>2, <2>3, <2>4 DEF OtherOnWay
<1>6. InTransit' /\ SameRoles'
  BY <1>1, <1>2, <1>4, <1>5 DEF InTransit, SameRoles
<1> QED
  BY <1>1, <1>2, <1>6 DEF ServedInv, AtReply, AtHead

LEMMA ObeyKeeps ==
  ASSUME Session, Obey
  PROVE  /\ upEnd' = "open"
         /\ worker'.at # "closed" => ServedInv'
         /\ worker'.at = "closed" => GoneInv'
<1> DEFINE c == client.asked
           line == worker.reader.part
<1>1. /\ worker.at = "recv" /\ worker.reader.complete /\ client' = client /\ up' = up
      /\ upEnd' = "open"
  BY SessionFacts DEF Obey, AtLine
<1>2. ~Idle
  BY <1>1 DEF Idle, Nothing
<1>3. client.at \in {"reply", "head"} /\ InTransit /\ SameRoles
      /\ (client.at = "reply" => c \in Commands \ Listings)
      /\ (client.at = "head" => c \in Listings)
  BY <1>1, <1>2, OnItsWay
<1>4. up = << >> /\ (line = <<c>> \/ line = <<c, "args">>)
  BY <1>1, <1>3 DEF InTransit, BareOnWay, OtherOnWay, Travelling
<1>5. line # << >> /\ line[1] = c
  BY <1>4
<1>6. Handle(line)
  BY <1>5 DEF Obey
<1>7. worker.n + 1 = client.n /\ down = << >>
  BY <1>3 DEF InTransit
<1> HIDE DEF line
<1>8. Cleared.at = "recv" /\ Cleared.n = client.n /\ Cleared.reader = Nothing
      /\ Cleared.authenticated = worker.authenticated /\ Cleared.role = worker.role
      /\ Cleared \in WorkersTyped
  <2>1. worker \in WorkersTyped
    BY SessionFacts
  <2>2. Cleared.n = worker.n + 1 /\ Cleared.reader = Nothing /\ Cleared \in WorkersTyped
    BY ClearedType DEF Session
  <2>3. Cleared.at = "recv" /\ Cleared.authenticated = worker.authenticated /\ Cleared.role = worker.role
    BY <1>1, <2>1 DEF Cleared, WorkersTyped
  <2> QED
    BY <1>7, <2>2, <2>3
<1>9. ASSUME NEW kind \in AllKinds, Answer(kind)
      PROVE  OneLine(kind)'
  <2> DEFINE reply == [re |-> worker.n + 1, kind |-> kind, category |-> "none"]
  <2>1. reply \in ReplyLine
    BY LineType DEF Session
  <2>2. reply.re = client.n /\ reply.kind = kind
    BY <1>7
  <2>3. Say(<<reply>>)
    BY <1>9 DEF Answer
  <2> HIDE DEF reply
  <2>4. Len(down') = 1 /\ down'[1] = reply
    BY <1>1, <1>7, <2>1, <2>3, Said
  <2> QED
    BY <1>1, <2>2, <2>4 DEF OneLine
<1>10. {"OK", "OK LOGIN", "ERR"} \subseteq AllKinds
  BY DEF AllKinds
<1>11. c \in Logins => (c \notin Listings /\ c # "LOGOUT" /\ c # "QUIT")
  BY DEF Logins, Listings
<1>12. CASE client.at = "reply"
  <2>1. c \in Commands \ Listings
    BY <1>3, <1>12
  <2>2. ASSUME NEW kind \in {"OK", "OK LOGIN", "ERR"}, Answer(kind),
               worker'.at = "recv", worker'.n = client.n, worker'.reader = Nothing, Outcome(kind)'
        PROVE  ServedInv'
    <3>1. Answered1(kind)'
      BY <1>1, <1>4, <1>9, <1>10, <2>2 DEF Answered1, Idle
    <3>2. AtReply'
      BY <1>1, <2>1, <2>2, <3>1 DEF AtReply
    <3> QED
      BY <1>1, <1>12, <3>2 DEF ServedInv
  <2>3. CASE LogIn(line)
    <3>1. worker'.at = "recv" /\ worker'.n = client.n /\ worker'.reader = Nothing
          /\ worker'.authenticated = TRUE /\ worker'.role = RoleOf(c) /\ c \in Logins
      BY <1>5, <1>8, <2>3 DEF LogIn, WorkersTyped
    <3>2. Outcome("OK LOGIN")'
      BY <1>1, <1>11, <3>1 DEF Outcome
    <3> QED
      BY <1>1, <2>2, <2>3, <3>1, <3>2 DEF LogIn
  <2>4. CASE LogOut(line)
    <3>1. worker'.at = "recv" /\ worker'.n = client.n /\ worker'.reader = Nothing
          /\ worker'.authenticated = FALSE /\ c = "LOGOUT"
      BY <1>5, <1>8, <2>4 DEF LogOut, WorkersTyped
    <3>2. Outcome("OK")'
      BY <1>1, <1>11, <3>1 DEF Outcome
    <3> QED
      BY <1>1, <2>2, <2>4, <3>1, <3>2 DEF LogOut
  <2>5. CASE Succeed(line)
    <3>1. worker' = Cleared /\ c \notin Logins /\ c # "LOGOUT"
      BY <1>5, <2>5 DEF Succeed
    <3>2. Outcome("OK")'
      BY <1>1, <1>3, <1>8, <3>1 DEF Outcome, SameRoles
    <3> QED
      BY <1>1, <1>8, <2>2, <2>5, <3>1, <3>2 DEF Succeed
  <2>6. CASE Refuse /\ c # "LOGOUT"
    <3>1. Outcome("ERR")'
      BY <1>1, <1>3, <1>8, <2>6 DEF Refuse, Outcome, SameRoles
    <3> QED
      BY <1>1, <1>8, <2>2, <2>6, <3>1 DEF Refuse
  <2>7. CASE Quit(line)
    <3>1. worker'.at = "closed" /\ worker'.reader = Nothing
      BY <1>8, <2>7 DEF Quit, WorkersTyped
    <3>2. OneLine("OK")'
      BY <1>9, <1>10, <2>7 DEF Quit
    <3>3. (Len(down) <= 1 /\ Answering(down))'
      BY <3>2 DEF OneLine, Answering
    <3> QED
      BY <1>1, <1>12, <3>1, <3>3 DEF GoneInv
  <2>8. ~BeginListing(line)
    BY <1>5, <2>1 DEF BeginListing
  <2>9. Refuse => \/ LogIn(line) \/ LogOut(line) \/ Succeed(line) \/ Quit(line)
                  \/ c # "LOGOUT"
    <3>1. Permitted("LOGOUT")
      BY DEF Permitted, AdminCommands, CustomerCommands
    <3> QED
      BY <1>5, <1>6, <2>8, <3>1 DEF Handle
  <2>10. LogIn(line) \/ LogOut(line) \/ Succeed(line) \/ Refuse \/ Quit(line)
    BY <1>6, <2>8 DEF Handle
  <2> QED
    BY <1>1, <2>3, <2>4, <2>5, <2>6, <2>7, <2>9, <2>10
<1>13. CASE client.at = "head"
  <2>1. c \in Listings
    BY <1>3, <1>13
  <2>2. ~LogIn(line) /\ ~LogOut(line) /\ ~Succeed(line) /\ ~Quit(line)
    BY <1>5, <1>11, <2>1 DEF LogIn, LogOut, Succeed, Quit, Listings
  <2>3. CASE BeginListing(line)
    <3>1. worker'.at = "rows" /\ worker'.n = client.n /\ worker'.reader = Nothing
          /\ worker'.authenticated = worker.authenticated /\ worker'.role = worker.role
      BY <1>8, <2>3 DEF BeginListing, WorkersTyped
    <3>2. OneLine("OK")'
      BY <1>9, <1>10, <2>3 DEF BeginListing
    <3>3. (Answering(down) /\ Len(down) > 0 /\ RowsOnly(down))'
      BY <3>2 DEF OneLine, Answering, RowsOnly
    <3>4. AtHead'
      BY <1>1, <1>3, <1>4, <2>1, <3>1, <3>3 DEF AtHead, SameRoles, Idle
    <3> QED
      BY <1>1, <1>13, <3>1, <3>4 DEF ServedInv
  <2>4. CASE Refuse
    <3>1. worker' = Cleared /\ OneLine("ERR")'
      BY <1>9, <1>10, <2>4 DEF Refuse
    <3>2. Answered1("ERR")' /\ SameRoles'
      BY <1>1, <1>3, <1>4, <1>8, <3>1 DEF Answered1, SameRoles, Idle
    <3>3. AtHead'
      BY <1>1, <2>1, <3>2 DEF AtHead
    <3> QED
      BY <1>1, <1>8, <1>13, <3>1, <3>3 DEF ServedInv
  <2> QED
    BY <1>6, <2>2, <2>3, <2>4 DEF Handle
<1> QED
  BY <1>3, <1>12, <1>13

LEMMA RowSentKeeps ==
  ASSUME Session, SendRow \/ SendEnd
  PROVE  /\ upEnd' = "open"
         /\ worker'.at # "closed" => ServedInv'
         /\ worker'.at = "closed" => GoneInv'
<1>1. /\ worker.at = "rows" /\ client' = client /\ up' = up /\ upEnd' = "open"
      /\ worker'.n = worker.n /\ worker'.reader = worker.reader
      /\ worker'.authenticated = worker.authenticated /\ worker'.role = worker.role
  BY SessionFacts DEF SendRow, SendEnd, WorkersTyped
<1>2. /\ client.at \in {"head", "rows"} /\ SameRoles /\ worker.n = client.n /\ Idle
      /\ Answering(down) /\ RowsOnly(down)
      /\ client.at = "head" => Len(down) > 0 /\ client.asked \in Listings
  <2>1. ServedInv
    BY <1>1, SessionFacts
  <2>2. ~AtStart /\ ~AtGreeting /\ ~AtMenu /\ ~AtReply
    BY <1>1 DEF AtStart, AtGreeting, AtMenu, AtReply, InTransit, Answered1
  <2>3. client.at \in {"start", "greeting", "menu", "paging", "reply", "head", "rows"}
    BY SessionFacts DEF Clients, ClientPlaces, Waiting
  <2>4. client.at \in {"head", "rows"}
    BY <2>1, <2>2, <2>3 DEF ServedInv
  <2>5. CASE client.at = "head"
    <3>1. AtHead
      BY <2>1, <2>5 DEF ServedInv
    <3> QED
      BY <1>1, <2>4, <2>5, <3>1 DEF AtHead, InTransit, Answered1
  <2>6. CASE client.at = "rows"
    <3>1. AtRows
      BY <2>1, <2>6 DEF ServedInv
    <3> QED
      BY <1>1, <2>4, <2>6, <3>1 DEF AtRows
  <2> QED
    BY <2>4, <2>5, <2>6
<1>3. SameRoles' /\ worker'.n = client'.n /\ Idle'
  BY <1>1, <1>2 DEF SameRoles, Idle
<1>4. CASE SendRow
  <2>1. PICK category \in Categories :
          Say(<<[re |-> worker.n, kind |-> "DATA", category |-> category]>>)
    BY <1>4 DEF SendRow
  <2> DEFINE line == [re |-> worker.n, kind |-> "DATA", category |-> category]
  <2>2. line \in ReplyLine
    BY LineType DEF AllKinds, Session
  <2>3. line.re = client.n /\ line.kind = "DATA" /\ Say(<<line>>)
    BY <1>2, <2>1
  <2> HIDE DEF line
  <2>4. /\ Len(down) \in Nat /\ Len(down') = Len(down) + 1 /\ down'[Len(down')] = line
        /\ \A i \in 1 .. Len(down) : down'[i] = down[i]
        /\ Answering(down)'
    BY <1>1, <1>2, <2>2, <2>3, Said
  <2>5. RowsOnly(down)'
    <3> SUFFICES ASSUME NEW i \in 1 .. Len(down') PROVE down'[i].kind \in {"OK", "DATA"}
      BY DEF RowsOnly
    <3>1. i \in 1 .. Len(down) \/ i = Len(down')
      BY <2>4
    <3> QED
      BY <1>2, <2>3, <2>4, <3>1 DEF RowsOnly
  <2>6. worker'.at = "rows" /\ Len(down') > 0
    BY <1>1, <1>4, <2>4, SessionFacts DEF SendRow, WorkersTyped
  <2>7. client.at = "head" => AtHead'
    BY <1>1, <1>2, <1>3, <2>4, <2>5, <2>6 DEF AtHead
  <2>8. AtRows'
    BY <1>3, <2>4, <2>5, <2>6 DEF AtRows
  <2> QED
    BY <1>1, <1>2, <2>6, <2>7, <2>8 DEF ServedInv
<1>5. CASE SendEnd
  <2> DEFINE line == Line("END")
  <2>1. line \in ReplyLine
    BY LineType DEF Line, AllKinds, Session
  <2>2. line.re = client.n /\ line.kind = "END" /\ Say(<<line>>)
    BY <1>2, <1>5 DEF Line, SendEnd
  <2> HIDE DEF line
  <2>3. /\ Len(down) \in Nat /\ Len(down') = Len(down) + 1 /\ down'[Len(down')] = line
        /\ \A i \in 1 .. Len(down) : down'[i] = down[i]
        /\ Answering(down)'
    BY <1>1, <1>2, <2>1, <2>2, Said
  <2>4. Ended(down)'
    <3>1. Len(down') > 0 /\ Len(down') - 1 = Len(down)
      BY <2>3
    <3>2. \A i \in 1 .. Len(down) : down'[i].kind \in {"OK", "DATA"}
      BY <1>2, <2>3 DEF RowsOnly
    <3> QED
      BY <2>2, <2>3, <3>1, <3>2 DEF Ended
  <2>5. worker'.at = "recv"
    BY <1>1, <1>5, SessionFacts DEF SendEnd, WorkersTyped
  <2>6. client.at = "head" => AtHead'
    <3>1. client.at = "head" => Len(down') > 1
      BY <1>2, <2>3
    <3> QED
      BY <1>1, <1>2, <1>3, <2>3, <2>4, <2>5, <3>1 DEF AtHead
  <2>7. AtRows'
    BY <1>3, <2>3, <2>4, <2>5 DEF AtRows
  <2> QED
    BY <1>1, <1>2, <2>5, <2>6, <2>7 DEF ServedInv
<1> QED
  BY <1>4, <1>5

\* A server that stops leaves lines on the way that still answer the last request,
\* and none behind a refusal or an END.
LEMMA StopKeeps ==
  ASSUME Session, ServerStops
  PROVE  /\ upEnd' = "open"
         /\ worker'.at # "closed" => ServedInv'
         /\ worker'.at = "closed" => GoneInv'
<1>1. /\ worker.at # "closed" /\ client.at # "start" /\ client' = client /\ upEnd' = "open"
      /\ worker'.at = "closed" /\ worker'.reader = Nothing /\ ServedInv
  BY SessionFacts DEF ServerStops, WorkersTyped
<1>2. down \in Seq(ReplyLine)
  BY SessionFacts
<1>3. down' \in WithCut(down) \/ down' \in Prefixes(down)
  BY DEF ServerStops
<1>4. /\ down' \in Seq(ReplyLine) /\ Len(down') <= Len(down)
      /\ \A i \in 1 .. Len(down') :
           /\ down'[i].re = down[i].re
           /\ down'[i].kind = down[i].kind \/ (i = Len(down') /\ down'[i].kind = "CUT")
  BY <1>2, <1>3, CutShort
<1>5. Len(down) \in Nat /\ Len(down') \in Nat /\ Len(down') <= Len(down)
  BY <1>2, <1>4
<1>6. Answering(down) => Answering(down)'
  BY <1>1, <1>4, <1>5 DEF Answering
<1>7. Tidy(down) => Tidy(down)'
  <2> SUFFICES ASSUME Tidy(down), NEW i \in 1 .. Len(down') - 1
               PROVE  down'[i].kind \notin {"END", "ERR"}
    BY DEF Tidy
  <2>1. i \in 1 .. Len(down') /\ i # Len(down') /\ i \in 1 .. Len(down) - 1
    BY <1>5
  <2>2. down'[i].kind = down[i].kind
    BY <1>4, <2>1
  <2> QED
    BY <2>1, <2>2 DEF Tidy
<1>8. down = << >> => down' = << >>
  <2>1. down = << >> => Len(down') = 0
    BY <1>5
  <2> QED
    BY <1>4, <2>1, NoneLeft
<1>9. \A kind : OneLine(kind) => Len(down) <= 1 /\ Answering(down) /\ Tidy(down)
  BY DEF OneLine, Answering, Tidy
<1>10. down = << >> => Len(down) <= 1 /\ Answering(down) /\ Tidy(down)
  BY DEF Answering, Tidy
<1>11. client.at \in {"greeting", "reply"} => Len(down) <= 1 /\ Answering(down)
  <2>1. AtGreeting => Len(down) <= 1 /\ Answering(down)
    BY <1>9, <1>10 DEF AtGreeting
  <2>2. AtReply => Len(down) <= 1 /\ Answering(down)
    BY <1>9, <1>10 DEF AtReply, InTransit, Answered1
  <2> QED
    BY <1>1, <2>1, <2>2 DEF ServedInv
<1>12. client.at \in {"menu", "paging"} => down = << >>
  BY <1>1 DEF ServedInv, AtMenu
<1>13. client.at \in {"head", "rows"} => Answering(down) /\ Tidy(down)
  <2>1. RowsOnly(down) \/ Ended(down) => Tidy(down)
    BY <1>5 DEF RowsOnly, Ended, Tidy
  <2>2. AtHead => Answering(down) /\ Tidy(down)
    BY <1>9, <1>10, <2>1 DEF AtHead, InTransit, Answered1
  <2>3. AtRows => Answering(down) /\ Tidy(down)
    BY <2>1 DEF AtRows
  <2> QED
    BY <1>1, <2>2, <2>3 DEF ServedInv
<1>14. client.at \in {"greeting", "reply"} => Len(down') <= 1 /\ Answering(down)'
  BY <1>5, <1>6, <1>11
<1> QED
  BY <1>1, <1>6, <1>7, <1>8, <1>12, <1>13, <1>14 DEF GoneInv

LEMMA SessionNext == ShapeInv /\ SessionInv /\ [Next]_vars => SessionInv'
<1> SUFFICES ASSUME ShapeInv, SessionInv, [Next]_vars PROVE SessionInv'
  OBVIOUS
<1>1. CASE UNCHANGED vars
  BY <1>1 DEF vars, SessionInv, PeerInv, Playing, Gone, ServedInv, GoneInv, AtStart, AtGreeting,
              AtMenu, AtReply, AtHead, AtRows, InTransit, BareOnWay, OtherOnWay, Travelling,
              Outcome, SameRoles, Idle, OneLine, Answered1, Answering, RowsOnly, Ended, Tidy
<1>2. CASE Next
  <2>1. PeerInv' /\ peer' = peer
    BY <1>2, PeerNext DEF SessionInv
  <2>2. CASE ~Playing'
    BY <2>1, <2>2 DEF SessionInv
  <2>3. CASE Playing'
    <3>1. Session /\ client'.at # "exited" /\ client.at # "foreign"
      <4>1. client.at = "exited" => client'.at = "exited"
        BY <1>2 DEF Next, Connect, User, Choose, TurnPage, Read, Greeted, Reply, ReplyLost,
             HeadOfListing, Row, EndOfRows, SendByte, Discard, Work, Welcome, Receive, Obey, HangUp,
             SendRow, SendEnd, ServerStops, ClientEnds
      <4> QED
        BY <2>1, <2>3, <4>1 DEF Playing, Session, SessionInv, PeerInv
    <3>2. ~ClientEnds /\ ~SendByte /\ ~Discard /\ ~HangUp
      BY <3>1, SessionFacts DEF ClientEnds, SendByte, Discard, HangUp, ShapeInv, ClientTyped, Clients
    <3>3. \/ Connect \/ Choose
          \/ (TurnPage /\ UNCHANGED <<peer, worker, up, downEnd, sent, heard>>)
          \/ Read \/ Welcome \/ Receive \/ Obey \/ SendRow \/ SendEnd \/ ServerStops
      BY <1>2, <3>2 DEF Next, User, Work
    <3>4. CASE Read
      BY <2>1, <3>1, <3>4, GreetedKeeps, ReplyKeeps, ReplyLostKeeps, HeadKeeps, RowKeeps, EndKeeps,
         SessionStep DEF Read
    <3> QED
      BY <2>1, <3>1, <3>3, <3>4, ConnectKeeps, AskKeeps, TurnKeeps, WelcomeKeeps, ReceiveKeeps,
         ObeyKeeps, RowSentKeeps, StopKeeps, SessionStep
  <2> QED
    BY <2>2, <2>3
<1> QED
  BY <1>1, <1>2

-----------------------------------------------------------------------------
(* Theorems *)

THEOREM SessionInvariance == Spec => [](ShapeInv /\ SessionInv)
<1>1. Init => ShapeInv /\ SessionInv
  BY ShapeInit, SessionInit
<1>2. ShapeInv /\ SessionInv /\ [Next]_vars => (ShapeInv /\ SessionInv)'
  BY ShapeNext, SessionNext
<1> QED
  BY <1>1, <1>2, PTL DEF Spec

LEMMA SessionInStep == ShapeInv /\ SessionInv => InStep
<1> SUFFICES ASSUME ShapeInv, SessionInv, peer = "retail", client.at \notin {"start", "exited"}
             PROVE  /\ \A i \in DOMAIN down : down[i].re = client.n
                    /\ worker.at = "rows" => worker.n = client.n
                    /\ worker.reader.complete => worker.reader.part = Request(client.asked)
                    /\ (client.at \in {"menu", "paging"} /\ downEnd = "open") =>
                         down = << >> /\ up = << >> /\ worker.at = "recv"
  BY DEF InStep
<1>1. Session
  BY DEF Session, Playing
<1>2. client.at \in {"greeting", "menu", "paging", "reply", "head", "rows"}
  BY <1>1, SessionFacts DEF Clients, ClientPlaces, Waiting
<1>3. \A i \in DOMAIN down : i \in 1 .. Len(down)
  BY <1>1, SessionFacts
<1>4. down = << >> => Answering(down)
  BY DEF Answering
<1>5. \A kind : OneLine(kind) => Answering(down)
  BY DEF OneLine, Answering
<1>6. CASE worker.at = "closed"
  <2>1. GoneInv
    BY <1>1, <1>6, SessionFacts
  <2>2. Answering(down)
    BY <1>2, <1>4, <2>1 DEF GoneInv
  <2>3. ~worker.reader.complete
    BY <2>1 DEF GoneInv, Nothing
  <2>4. client.at \in {"menu", "paging"} => downEnd # "open"
    BY <1>1, <1>6, SessionFacts
  <2> QED
    BY <1>3, <1>6, <2>2, <2>3, <2>4 DEF Answering
<1>7. CASE worker.at # "closed"
  <2>1. ServedInv
    BY <1>1, <1>7, SessionFacts
  <2>2. Answering(down)
    BY <1>2, <1>4, <1>5, <2>1 DEF ServedInv, AtGreeting, AtMenu, AtReply, AtHead, AtRows, InTransit,
                              Answered1
  <2>3. worker.at = "rows" => worker.n = client.n
    BY <1>2, <2>1 DEF ServedInv, AtGreeting, AtMenu, AtReply, AtHead, AtRows, InTransit, Answered1
  <2>4. ASSUME worker.reader.complete
        PROVE  worker.reader.part = Request(client.asked)
    <3>1. ~Idle
      BY <2>4 DEF Idle, Nothing
    <3>2. InTransit
      BY <1>2, <2>1, <3>1 DEF ServedInv, AtGreeting, AtMenu, AtReply, AtHead, AtRows, Answered1
    <3> QED
      BY <2>4, <3>2 DEF InTransit, BareOnWay, OtherOnWay, Travelling, Request
  <2>5. client.at \in {"menu", "paging"} => down = << >> /\ up = << >> /\ worker.at = "recv"
    BY <2>1 DEF ServedInv, AtMenu, Idle
  <2> QED
    BY <1>3, <2>2, <2>3, <2>4, <2>5 DEF Answering
<1> QED
  BY <1>6, <1>7

\* InStep: whatever the client asks and for how long, however many rows a listing has,
\* and whichever process ends at whatever moment, each line on its way to
\* retail_client answers its last request, and none is left when a menu is shown.
THEOREM RequestsInStep == Spec => []InStep
BY SessionInvariance, SessionInStep, PTL

\* RolesAgree: when retail_client shows a menu of a connection that is there, it is
\* that of the role the worker has given the connection.
THEOREM RolesAlwaysAgree == Spec => []RolesAgree
<1>1. ShapeInv /\ SessionInv => RolesAgree
  <2> SUFFICES ASSUME ShapeInv, SessionInv, client.at = "menu", downEnd = "open"
               PROVE  SameRoles
    BY DEF RolesAgree, SameRoles
  <2>1. peer = "retail"
    BY DEF ShapeInv, SessionInv, PeerInv
  <2>2. Session
    BY <2>1 DEF Session, Playing
  <2>3. ServedInv
    BY <2>2, SessionFacts
  <2> QED
    BY <2>3 DEF ServedInv, AtMenu
<1> QED
  BY <1>1, SessionInvariance, PTL
===============================================================================
