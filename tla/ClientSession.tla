---------------------------- MODULE ClientSession ----------------------------
(***************************************************************************)
(* One connection, both ends of it: retail_client.c with its menus and the *)
(* listings of client_tables.c, and the client_worker thread of            *)
(* retail_server.c that serves it.  Requests travel as bytes (see          *)
(* LineProtocol), replies as lines; either process may end at any time,    *)
(* in the middle of a line too.  Another peer than retail_client may have  *)
(* connected: it sends any bytes and reads nothing that matters.           *)
(*                                                                         *)
(* A byte stands for a word of a request: its command, or all of its       *)
(* arguments together.  What the tables hold, and whether a request that   *)
(* is permitted succeeds, is left open; the log and the mutexes are in     *)
(* ServerLocks.                                                            *)
(***************************************************************************)
EXTENDS LineProtocol, ProductPages

CONSTANTS
  Peers,          \* who connects: "retail" or "foreign"
  Categories,     \* categories of the products the server lists
  MaxRows,        \* bound: rows of a listing
  MaxRequests,    \* bound: requests of a session, not counting the last QUIT
  ForeignBytes,   \* what another peer may send ...
  MaxForeign      \* ... and how many of them: a bound

ASSUME SessionAssumption ==
  /\ Peers \subseteq {"retail", "foreign"}
  /\ MaxRows \in Nat /\ MaxRequests \in Nat /\ MaxForeign \in Nat

\* A request of two words, its newline and the final zero fit the buffer.
ASSUME RequestsFit == MaxLine >= 4

-----------------------------------------------------------------------------
(* Commands *)

AdminCommands == {"ADD_PRODUCT", "MODIFY_PRODUCT", "DELETE_PRODUCT", "ALL_ORDERS",
                  "UPDATE_ORDER", "REPORT", "CREATE_ADMIN", "VIEW_LOGS"}
CustomerCommands == {"PLACE_ORDER", "MY_ORDERS", "CANCEL_ORDER"}
Logins == {"LOGIN ADMIN", "LOGIN CUSTOMER"}
Listings == {"LIST_PRODUCTS", "ALL_ORDERS", "MY_ORDERS", "VIEW_LOGS"}
Bare == Listings \cup {"PING", "LOGOUT", "REPORT", "QUIT"}
Commands == AdminCommands \cup CustomerCommands \cup Logins \cup Bare \cup {"REGISTER"}

RoleOf(login) == IF login = "LOGIN ADMIN" THEN "ADMIN" ELSE "CUSTOMER"

\* The text of a request, as a sequence of bytes.
Request(command) == IF command \in Bare THEN <<command>> ELSE <<command, "args">>

\* The choices of the menus.
MainMenu == Logins \cup {"REGISTER"}
SessionMenu(role) ==
  {"LIST_PRODUCTS", "LOGOUT"}
    \cup (IF role = "ADMIN" THEN AdminCommands ELSE CustomerCommands)

VARIABLES
  peer,      \* who has connected
  client,    \* retail_client: at (where it is), authenticated, role, asked (its last
             \* request), n (how many it sent), listing, rows and page it shows
  worker,    \* client_worker: at, reader, authenticated, role, n (commands it
             \* handled), left (rows of the listing it still has to send)
  up, down,        \* bytes and reply lines on their way
  upEnd, downEnd,  \* "open", or how the other end will be found: "closed", "reset"
  sent, heard      \* history of another peer: its bytes (those that arrive), the lines handled

vars == <<peer, client, worker, up, down, upEnd, downEnd, sent, heard>>

Ends == {"open", "closed", "reset"}
Replies == [re : 0 .. MaxRequests + MaxForeign + 1,
            kind : {"OK", "OK LOGIN", "ERR", "DATA", "END", "CUT"},
            category : Categories \cup {"none"}]

Waiting == {"greeting", "reply", "head", "rows"}   \* the client is in recv_line

TypeOK ==
  /\ client.at \in {"start", "menu", "paging", "exited", "foreign"} \cup Waiting
  /\ client.authenticated \in BOOLEAN /\ client.role \in {"none", "ADMIN", "CUSTOMER"}
  /\ client.asked \in Commands \cup {"none"} /\ client.n \in 0 .. MaxRequests + 1
  /\ Len(client.listing.rows) <= MaxShown
  /\ Cardinality(client.listing.categories) <= MaxCategories
  /\ worker.at \in {"welcome", "recv", "rows", "closed"}
  /\ Len(worker.reader.part) < MaxLine
  /\ worker.authenticated \in BOOLEAN /\ worker.role \in {"none", "ADMIN", "CUSTOMER"}
  /\ worker.left \in 0 .. MaxRows
  /\ upEnd \in Ends /\ downEnd \in Ends
  /\ \A i \in DOMAIN down : down[i] \in Replies

Init ==
  /\ peer \in Peers
  /\ client = [at |-> "start", authenticated |-> FALSE, role |-> "none",
               asked |-> "none", n |-> 0, listing |-> NoListing,
               rows |-> << >>, page |-> 0]
  /\ worker = [at |-> "welcome", reader |-> Nothing, authenticated |-> FALSE,
               role |-> "none", n |-> 0, left |-> 0]
  /\ up = << >> /\ down = << >>
  /\ upEnd = "open" /\ downEnd = "open"
  /\ sent = << >> /\ heard = << >>

-----------------------------------------------------------------------------
(* The worker *)

Line(kind) == [re |-> worker.n, kind |-> kind, category |-> "none"]

\* send_linef to a peer that is gone fails, and nobody looks at the result.
Say(lines) == down' = IF upEnd = "open" THEN down \o lines ELSE down

Welcome ==
  /\ worker.at = "welcome" /\ client.at # "start"
  /\ worker' = [worker EXCEPT !.at = "recv"]
  /\ Say(<<Line("OK")>>)
  /\ UNCHANGED <<peer, client, up, upEnd, downEnd, sent, heard>>

\* require_auth, require_admin, require_customer
Permitted(command) ==
  /\ command \in AdminCommands \cup CustomerCommands \cup {"LIST_PRODUCTS"}
       => worker.authenticated
  /\ command \in AdminCommands => worker.role = "ADMIN"
  /\ command \in CustomerCommands => worker.role = "CUSTOMER"

\* The worker as it is when it has taken a line out of the buffer.
Cleared == [worker EXCEPT !.reader = Nothing, !.n = @ + 1]
Answer(kind) == Say(<<[re |-> worker.n + 1, kind |-> kind, category |-> "none"]>>)

\* Mutant: a refusal does not end the handler.
RefuseAndGoOn ==
  /\ worker' = Cleared
  /\ LET err == [re |-> worker.n + 1, kind |-> "ERR", category |-> "none"]
     IN  Say(<<err, err>>)
  /\ UNCHANGED downEnd

\* A request that is refused, for whatever reason, is answered by one line.
Refuse ==
  /\ worker' = Cleared
  /\ Answer("ERR")
  /\ UNCHANGED downEnd

Complete(line) == line[1] \in Bare \/ Len(line) > 1

LogIn(line) ==
  /\ line[1] \in Logins /\ Complete(line)
  /\ worker' = [Cleared EXCEPT !.authenticated = TRUE, !.role = RoleOf(line[1])]
  /\ Answer("OK LOGIN")
  /\ UNCHANGED downEnd

LogOut(line) ==
  /\ line[1] = "LOGOUT"
  /\ worker' = [Cleared EXCEPT !.authenticated = FALSE, !.role = "none"]
  /\ Answer("OK")
  /\ UNCHANGED downEnd

\* The head of a listing; its rows follow under the mutex.
BeginListing(line) ==
  /\ line[1] \in Listings /\ Permitted(line[1])
  /\ \E left \in 0 .. MaxRows :
       worker' = [Cleared EXCEPT !.at = "rows", !.left = left]
  /\ Answer("OK")
  /\ UNCHANGED downEnd

\* The other handlers that do what they were asked for.
Succeed(line) ==
  /\ line[1] \in Commands \ (Logins \cup Listings \cup {"LOGOUT", "QUIT"})
  /\ Permitted(line[1]) /\ Complete(line)
  /\ worker' = Cleared
  /\ Answer("OK")
  /\ UNCHANGED downEnd

\* close(fd) with bytes that were not read resets the connection.
Quit(line) ==
  /\ line[1] = "QUIT"
  /\ worker' = [Cleared EXCEPT !.at = "closed"]
  /\ Answer("OK")
  /\ downEnd' = IF up = << >> THEN "closed" ELSE "reset"

\* handle_client_command: REPORT, PING, LOGOUT and QUIT cannot be refused but for
\* the role; VIEW_LOGS may find no log.
Handle(line) ==
  \/ LogIn(line) \/ LogOut(line) \/ BeginListing(line) \/ Succeed(line) \/ Quit(line)
  \/ /\ \/ line[1] \notin {"PING", "LOGOUT", "QUIT", "REPORT"} \cup (Listings \ {"VIEW_LOGS"})
        \/ ~Permitted(line[1])
     /\ Refuse

Receive ==
  /\ worker.at = "recv" /\ ~worker.reader.complete
  /\ up # << >> /\ upEnd # "reset"
  /\ worker' = [worker EXCEPT !.reader = Take(@, Head(up))]
  /\ up' = Tail(up)
  /\ UNCHANGED <<peer, client, down, upEnd, downEnd, sent, heard>>

\* recv_line returns 1: at the end of a line, or at the end of the stream with
\* bytes in the buffer, which makes a line of what came of it.
AtLine ==
  \/ worker.reader.complete
  \/ up = << >> /\ upEnd = "closed" /\ worker.reader.part # << >>

Obey ==
  /\ worker.at = "recv" /\ AtLine
  /\ LET line == worker.reader.part
     IN  IF line = << >>
         THEN worker' = [worker EXCEPT !.reader = Nothing] /\ UNCHANGED <<down, downEnd, heard>>
         ELSE /\ Handle(line)
              /\ heard' = IF peer = "foreign" THEN Append(heard, line) ELSE heard
  /\ UNCHANGED <<peer, client, up, upEnd, sent>>

\* Mutant: only a reset is found, not the end of the stream.
HangUpOnError ==
  /\ worker.at = "recv" /\ ~worker.reader.complete
  /\ upEnd = "reset"
  /\ worker' = [worker EXCEPT !.at = "closed", !.reader = Nothing]
  /\ downEnd' = "closed"
  /\ UNCHANGED <<peer, client, up, down, upEnd, sent, heard>>

\* recv_line returns 0 or -1.
HangUp ==
  /\ worker.at = "recv" /\ ~worker.reader.complete
  /\ \/ upEnd = "reset"
     \/ upEnd = "closed" /\ up = << >> /\ worker.reader.part = << >>
  /\ worker' = [worker EXCEPT !.at = "closed", !.reader = Nothing]
  /\ downEnd' = "closed"
  /\ UNCHANGED <<peer, client, up, down, upEnd, sent, heard>>

SendRow ==
  /\ worker.at = "rows" /\ worker.left > 0
  /\ worker' = [worker EXCEPT !.left = @ - 1]
  /\ \E category \in Categories :
       Say(<<[re |-> worker.n, kind |-> "DATA", category |-> category]>>)
  /\ UNCHANGED <<peer, client, up, upEnd, downEnd, sent, heard>>

SendEnd ==
  /\ worker.at = "rows" /\ worker.left = 0
  /\ worker' = [worker EXCEPT !.at = "recv"]
  /\ Say(<<Line("END")>>)
  /\ UNCHANGED <<peer, client, up, upEnd, downEnd, sent, heard>>

\* The server process ends, by a signal or otherwise: what it has sent arrives,
\* up to the byte it was sending, or less when the connection is reset.
WithCut(lines) ==
  {lines} \cup (IF lines = << >> THEN {} ELSE {[lines EXCEPT ![Len(lines)].kind = "CUT"]})

ServerStops ==
  /\ worker.at # "closed" /\ client.at # "start"
  /\ worker' = [worker EXCEPT !.at = "closed", !.reader = Nothing]
  /\ \/ downEnd' = "closed" /\ down' \in WithCut(down)
     \/ downEnd' = "reset" /\ down' \in Prefixes(down)
  /\ UNCHANGED <<peer, client, up, upEnd, sent, heard>>

-----------------------------------------------------------------------------
(* retail_client: the connection and the requests *)

Connect ==
  /\ client.at = "start"
  /\ client' = [client EXCEPT !.at = IF peer = "retail" THEN "greeting" ELSE "foreign"]
  /\ UNCHANGED <<peer, worker, up, down, upEnd, downEnd, sent, heard>>

\* The client ends: exit(0) at a prompt whose input has ended, return from main,
\* or a signal.  What it was sending may be cut; replies it did not read reset
\* the connection.
ClientEnds ==
  /\ client.at \notin {"start", "exited"}
  /\ client' = [client EXCEPT !.at = "exited"]
  /\ \E cut \in 0 .. Len(up) :
       /\ up' = SubSeq(up, 1, Len(up) - cut)
       /\ sent' = IF peer = "foreign" THEN SubSeq(sent, 1, Len(sent) - cut) ELSE sent
  /\ upEnd' \in {"closed", "reset"}
  /\ UNCHANGED <<peer, worker, down, downEnd, heard>>

\* What the client waits for after a request.
Expecting(command) == IF command \in Listings THEN "head" ELSE "reply"

\* send_linef, and what the request waits for.  Bytes sent to a worker that is
\* gone make the connection be reset; to a reset one, send fails, and so does the
\* recv_line of a single reply while a listing is given up without a word.
Ask(command) ==
  /\ client.n < MaxRequests \/ command = "QUIT"
  /\ downEnd # "reset"
  /\ client' = [client EXCEPT !.at = Expecting(command), !.asked = command, !.n = @ + 1,
                              !.listing = NoListing]
  /\ up' = IF downEnd = "open" THEN up \o LineOf(Request(command)) ELSE up
  /\ downEnd' = IF downEnd = "open" THEN "open" ELSE "reset"
  /\ UNCHANGED <<peer, worker, down, upEnd, sent, heard>>

\* Sending on a connection that is reset: SIGPIPE ends the client, or send fails.
AskInVain(command) ==
  /\ downEnd = "reset"
  /\ \/ client' = [client EXCEPT !.at = "exited"]
     \/ /\ client.n < MaxRequests \/ command = "QUIT"
        /\ client' = [client EXCEPT !.asked = command, !.n = @ + 1, !.listing = NoListing,
                         !.at = IF command \in Listings \cup {"REPORT"} THEN "menu" ELSE "reply"]
  /\ upEnd' = IF client'.at = "exited" THEN "closed" ELSE upEnd
  /\ UNCHANGED <<peer, worker, up, down, downEnd, sent, heard>>

MenuChoices ==
  IF client.authenticated THEN SessionMenu(client.role) ELSE MainMenu \cup {"QUIT"}

Choose ==
  /\ client.at = "menu"
  /\ \E command \in MenuChoices : Ask(command) \/ AskInVain(command)

-----------------------------------------------------------------------------
(* retail_client: the replies *)

\* recv_line returns a line, the last one perhaps cut short by the end of the
\* stream; or it returns 0 or -1.
Heard(kinds) == down # << >> /\ Head(down).kind \in kinds /\ down' = Tail(down)
Lost == down = << >> /\ downEnd # "open" /\ UNCHANGED down

AllKinds == {"OK", "OK LOGIN", "ERR", "DATA", "END", "CUT"}

Settle(at) == client' = [client EXCEPT !.at = at]

\* main goes on to the menu whatever becomes of the greeting.
Greeted ==
  /\ client.at = "greeting"
  /\ Heard(AllKinds) \/ Lost
  /\ Settle("menu")
  /\ UNCHANGED upEnd

\* Mutant: any reply to LOGIN is taken for a success.
LoginTaken(kind) == client.asked \in Logins

\* strncmp(response, "OK LOGIN", 8), retail_client.c:519.  A line cut short is CUT
\* here whatever is left of it: one that begins with these eight bytes would be
\* taken for a success, on a connection that has ended.
LoginAccepted(kind) == client.asked \in Logins /\ kind = "OK LOGIN"

\* expect_single_response, and what its callers do with the line.
Reply ==
  /\ client.at = "reply"
  /\ Heard(AllKinds)
  /\ CASE LoginAccepted(Head(down).kind) ->
             client' = [client EXCEPT !.at = "menu", !.authenticated = TRUE,
                                      !.role = RoleOf(client.asked)]
       [] client.asked = "LOGOUT" ->
             client' = [client EXCEPT !.at = "menu", !.authenticated = FALSE, !.role = "none"]
       [] client.asked = "QUIT" -> Settle("exited")
       [] OTHER -> Settle("menu")
  /\ upEnd' = IF client.asked = "QUIT" THEN "closed" ELSE upEnd

\* No reply: the session loops go back to the main menu, main itself ends.  A
\* REPORT returns without a word.
ReplyLost ==
  /\ client.at = "reply"
  /\ Lost
  /\ IF client.asked = "REPORT" THEN Settle("menu") /\ UNCHANGED upEnd
     ELSE IF client.authenticated
     THEN client' = [client EXCEPT !.at = "menu", !.authenticated = FALSE] /\ UNCHANGED upEnd
     ELSE Settle("exited") /\ upEnd' = "closed"

\* Mutant: a listing that is refused is read to its END.
HeadOfAny ==
  /\ client.at = "head"
  /\ \/ Heard(AllKinds) /\ Settle("rows")
     \/ Lost /\ Settle("menu")
  /\ UNCHANGED upEnd

\* The first line of a listing.
HeadOfListing ==
  /\ client.at = "head"
  /\ \/ Heard({"ERR"}) /\ Settle("menu")
     \/ Heard(AllKinds \ {"ERR"}) /\ Settle("rows")
     \/ Lost /\ Settle("menu")
  /\ UNCHANGED upEnd

\* Rows of the other listings go straight into a table.
Row ==
  /\ client.at = "rows"
  /\ Heard(AllKinds \ {"END"})
  /\ client' = IF client.asked = "LIST_PRODUCTS" /\ Head(down).kind = "DATA"
               THEN [client EXCEPT !.listing = Store(@, Head(down).category)]
               ELSE client
  /\ UNCHANGED upEnd

EndOfRows ==
  /\ client.at = "rows"
  /\ Heard({"END"}) \/ Lost
  /\ IF client.listing.rows = << >> THEN Settle("menu")
     ELSE \E filter \in Filters(client.listing) :
            client' = [client EXCEPT !.at = "paging", !.page = 0,
                                     !.rows = Filtered(client.listing, filter)]
  /\ UNCHANGED upEnd

TurnPage ==
  /\ client.at = "paging"
  /\ UNCHANGED <<down, upEnd>>
  /\ \/ \E page \in Turned(client.rows, client.page) : client' = [client EXCEPT !.page = page]
     \/ client' = [client EXCEPT !.at = "menu", !.listing = NoListing,
                                  !.rows = << >>, !.page = 0]

Read ==
  /\ Greeted \/ Reply \/ ReplyLost \/ HeadOfListing \/ Row \/ EndOfRows
  /\ UNCHANGED <<peer, worker, up, downEnd, sent, heard>>

-----------------------------------------------------------------------------
(* Another peer *)

SendByte ==
  /\ client.at = "foreign"
  /\ Len(sent) < MaxForeign /\ downEnd = "open"
  /\ \E b \in ForeignBytes : up' = Append(up, b) /\ sent' = Append(sent, b)
  /\ UNCHANGED <<peer, client, worker, down, upEnd, downEnd, heard>>

Discard ==
  /\ client.at = "foreign" /\ down # << >>
  /\ down' = Tail(down)
  /\ UNCHANGED <<peer, client, worker, up, upEnd, downEnd, sent, heard>>

-----------------------------------------------------------------------------
\* The worker's steps.  A handler does not wait for a mutex here: what makes it
\* wait for ever is in ServerLocks, and Fairness assumes it away.
Work == Welcome \/ Receive \/ Obey \/ HangUp \/ SendRow \/ SendEnd

User == Choose \/ (TurnPage /\ UNCHANGED <<peer, worker, up, downEnd, sent, heard>>)

Next ==
  \/ Connect \/ User \/ Read \/ SendByte \/ Discard
  \/ Work \/ ServerStops \/ ClientEnds

\* Both processes run while they have something to do.  The user does not have to
\* choose anything, and nobody has to stop.  WF(Work) is fair of a worker whose
\* handlers get g_db_mutex and g_log_mutex whenever they want them, which takes
\* what AnsweredUnlessLogLost of ServerLocks excepts: the log's mutex was never
\* lost (acquire_file_lock fails at retail_server.c:420), and no client of another
\* connection has stopped reading a listing (lines 897-920), which keeps g_db_mutex.
Fairness == WF_vars(Work) /\ WF_vars(Read) /\ WF_vars(Discard)

Spec == Init /\ [][Next]_vars /\ Fairness

-----------------------------------------------------------------------------
(* Safety *)

\* Requests and replies stay in step: every line on its way to the client, and
\* every one the worker is still going to send, answers the client's last
\* request, and none is left when the client goes back to a menu.  Otherwise
\* every later reply would be taken for another request's.
InStep ==
  (peer = "retail" /\ client.at \notin {"start", "exited"}) =>
    /\ \A i \in DOMAIN down : down[i].re = client.n
    /\ worker.at = "rows" => worker.n = client.n
    /\ worker.reader.complete => worker.reader.part = Request(client.asked)
    /\ (client.at \in {"menu", "paging"} /\ downEnd = "open") =>
         down = << >> /\ up = << >> /\ worker.at = "recv"

\* The client shows the menus of the role the server has given this connection,
\* and thinks itself logged in only while it is (retail_client.c:503-507 against
\* retail_server.c:672-678).
RolesAgree ==
  (client.at = "menu" /\ downEnd = "open") =>
    /\ client.authenticated = worker.authenticated
    /\ client.authenticated => client.role = worker.role

\* What the worker takes for commands is what its peer sent: nothing of the text
\* is lost, and a command that is not a line of the peer's is a piece of a line
\* too long for the buffer, or came last and was cut by the end of the stream.
CommandsAreLines ==
  peer = "foreign" =>
  /\ (upEnd = "open" /\ worker.at = "recv") =>
       Text(sent) = FlattenSeq(heard) \o worker.reader.part \o Text(up)
  /\ \A i \in DOMAIN heard :
       \/ heard[i] \in Lines(sent)
       \/ \E line \in Lines(sent) \cup {Unended(sent)} : Len(line) >= MaxLine - 1
       \/ i = Len(heard) /\ upEnd = "closed" /\ IsPrefix(heard[i], Unended(sent))

\* Every row the client kept is on a page that can be turned to, each once and
\* in the order of the listing, and the pages hold nothing else.
PagesShowAll ==
  client.at = "paging" =>
    /\ client.page \in 0 .. TotalPages(Len(client.rows)) - 1
    /\ FlattenSeq([p \in 1 .. TotalPages(Len(client.rows)) |-> PageRows(client.rows, p - 1)])
         = client.rows
    /\ PageRows(client.rows, client.page) # << >>

-----------------------------------------------------------------------------
(* Liveness *)

\* As long as the worker gets the server's mutexes (see Fairness), the user gets
\* back to a menu or the program ends: a request does not wait for ever, whether
\* it is answered, refused or cut off by the end of the server.  Where the log's
\* mutex is lost, a LOGOUT does wait for ever (finding_log_mutex).
Answered ==
  (client.at \in {"greeting", "reply", "head", "rows"})
    ~> (client.at \in {"menu", "paging", "exited"})

\* A worker whose peer has gone ends and closes its socket, whether it was reading
\* a request, obeying one or sending a listing, as long as it gets the server's
\* mutexes (see Fairness): one that waits for a mutex somebody keeps never reaches
\* the close at line 1569.
WorkerReleased == (upEnd # "open") ~> (worker.at = "closed")
===============================================================================
