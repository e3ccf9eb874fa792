# Verification of the Online Retail Management System

TLA+ models of the C program in this repository (`src/retail_server.c`,
`src/server_net.c`, `src/server_payment.c`, `src/retail_client.c`,
`src/client_tables.c` and the part of `src/fort.c` it draws with), TLC runs that check them on small
instances, and TLAPS proofs of the most important invariants for instances of
every size. Line numbers are those of `src/retail_server.c` unless another file is
named.

## The system

A TCP server keeps a shop: users, products and orders, in three arrays in memory
and three CSV files. One detached thread (`client_worker`) serves one connection,
reading a command line, calling its handler, writing the reply. The threads share
the arrays under `g_db_mutex` and the log under `g_log_mutex`. `PLACE_ORDER` asks a
forked process for the payment, over two pipes, with no mutex held.

| Part | State it keeps | Operations | Interacts with |
|---|---|---|---|
| Order desk (691-895, 922-1055, 1095-1159, 1190-1275) | `g_products`, `g_orders`, `data/products.csv`, `data/sales.csv`, `g_db_mutex` | ADD/MODIFY/DELETE_PRODUCT, PLACE_ORDER, CANCEL_ORDER, UPDATE_ORDER | all workers (shared arrays), payment process (call), files |
| Payment process (`server_payment.c`) | two pipes and a child per call | `run_payment_process` | order desk; the descriptors are shared by all threads and copied by every fork |
| Accounts and sessions (432-440, 511-689, 1337-1391) | `g_users`, `data/users.csv`, a `ClientSession` per connection | REGISTER, LOGIN, LOGOUT, CREATE_ADMIN, default administrator at the start | order desk (who may call what), log |
| Locks, sockets, log (413-430, 897-920, 1057-1093, 1161-1188, 1277-1335, 1393-1419, `server_net.c`) | owners of the two mutexes, what a socket holds | listings, REPORT, VIEW_LOGS, the log line of every change | every handler, the peers |
| Start, shutdown (202-411, 533-548, 1573-1665) | the files between two processes | `db_initialize`, `save_*_locked`, `load_*_locked`, signals | everything |
| Line protocol, dispatch (`server_net.c`:34-88, 1421-1571) | a line buffer per connection, the role of the connection | `send_linef`, `recv_line`, `handle_client_command` | client, handlers |
| Client (`retail_client.c`) | a socket, whether and as what it is logged in | menus, a request per choice, its reply | server |
| Client tables (`client_tables.c`) | the rows and categories of the last listing, the page shown | listings read until `END`, filter, pages | server, libfort |
| libfort (`fort.c`, `fort.h`) | rows of cells, separators, properties of places, a cursor | write, print through a format, line end, span, erase, set properties, print the table | client tables |
| Demo (`auto_client.py`, the shell script, the Makefile) | - | - | server |

### What is hard in it

* **Two critical sections of one order.** The units of an order are subtracted and
  saved, the mutex is released for the payment, and taken again to append the order
  or to give the units back. Cancellations, other orders and catalogue changes come
  in between. Correct: no unit of a product is created or lost, stock never goes
  below zero, neither array outgrows its size, ids are unique.
* **Saves that fail.** Every handler saves with `fopen(..., "w")`, which may fail, and
  each handler does something else then: undo in memory, undo and save again, drop
  the new order, or nothing. Correct: the file of orders holds exactly what customers
  were told of, possibly in an earlier state.
* **Stops.** `main` returns on SIGINT and ends the workers wherever they are.
  A start that cannot open a file goes on with an empty table. Correct: the next process
  loads something well formed, and no promised order is lost except where the code does lose
  them (below).
* **Ids are positions.** Deleting a product renumbers the rows behind it, while orders
  and waiting `PLACE_ORDER` calls keep the id they read.
* **Reads after the unlock.** Three refusals format rows they no longer have locked.
* **Sends and log lines under a mutex.** A worker that waits for its peer, or returns
  with a mutex held, makes others wait.
* **fork among threads.** A child has the pipe ends of other calls open.
* **Two copies of the role.** A session keeps the role it logged in with, and so does the
  client at the other end of the socket, from the text of a reply.
* **Replies without tags.** Single replies and listings of any length share one stream.
  A line too many or too few and every later reply is taken for another request's.
* **Streams that end.** Either end may close or reset a connection in the middle of a line,
  and `recv_line` makes a line of what came. A line longer than the buffer is taken in
  pieces. Correct: what is handled is what was sent, requests end, workers are released.
* **Measuring before printing.** libfort estimates the room a table needs before it prints
  it; spans, padding, escape sequences, missing cells and multi-line texts all count.
  Arrays that grow past a gap leave elements that were never initialised.

## The modules

| Module | Models | Built on |
|---|---|---|
| `StoreRules` | the helper functions as operators: look-up, next ids, deletion with renumbering, crediting units in a C `int`, the order state machine, payment results | - |
| `OrderDesk` | the core: all handlers that change products or orders | `StoreRules` |
| `OrderBook` | abstract specification: shelf, baskets, and a book of promised orders | `StoreRules` |
| `OrderDeskRefinement` | the refinement mapping from `OrderDesk` to `OrderBook` | both |
| `RefusalReplies` | the refusals whose text is read after the unlock, against all of `OrderDesk` | `OrderDesk` |
| `CrashRestart` | stops at any point, in the middle of a save too, and the reload | `OrderDesk` |
| `ServerLocks` | who waits for which mutex or socket, for every command | - |
| `PaymentWorker` | several `run_payment_process` calls at once, with processes and descriptors | - |
| `Accounts` | accounts, sessions, start, stop | - |
| `Report` | what REPORT adds up and which orders MY_ORDERS sends, in any state of the order desk | `OrderDesk` |
| `LineProtocol` | `send_linef` and `recv_line` over bytes, and the lines of a stream by the positions of its newlines as the reference | - |
| `ProductPages` | what the client keeps of a listing, filters and turns the pages of | - |
| `ClientSession` | one connection with both its ends: `retail_client` (or another peer) and `client_worker` | `LineProtocol`, `ProductPages` |
| `FortVector` | libfort's growing arrays as sequences | - |
| `FortStyles` | its 15 border styles, by what the measures depend on | - |
| `FortProperties` | properties of cells, rows, columns and tables, and how they are looked up | - |
| `FortTable` | a table and all calls that fill it | the three above |
| `FortLayout` | measuring and printing a table | `FortTable` |
| `OrderDesk_proofs` | theorems about `OrderDesk`: ids, orders, payments, that it implements `OrderBook`, sums over finite sets, units and stocks | `OrderDeskRefinement`, TLAPS |
| `OrderDeskExtensions_proofs` | theorems about late replies, stops and the report | `RefusalReplies`, `CrashRestart`, `Report`, `OrderDesk_proofs` |
| `ClientSession_proofs` | the client and the server in step | `ClientSession`, TLAPS |
| `ClientSessionData_proofs` | bytes, lines, rows and pages of a session | `ClientSession_proofs` |
| `ServerLocks_proofs`, `PaymentWorker_proofs`, `Accounts_proofs` | theorems about these components | their module, TLAPS |
| `FortTable_proofs` | which elements of a table were never created; the widths of its lines; the texts that stay; its settings, columns and the room to print it | `FortLayout`, TLAPS |
| `MC*` | small constants and symmetry for TLC | the module of that name |

`ClientSession` composes client, protocol and server on one connection; `ServerLocks`
composes the handlers of all connections with the mutexes, the sockets and the log;
`Report`, `RefusalReplies` and `CrashRestart` are read on top of the steps of `OrderDesk`.

### How state and actions correspond to the code

**OrderDesk.** `g_products`, `g_orders` and `g_db_mutex` are the globals;
`products_file` and `orders_file` the rows of the two CSV files; `pc[w]` says between
which two of its lock, save, payment and unlock operations a worker is, `call[w]`
holds the locals `handle_place_order` needs after its first critical section. A
handler is a chain of actions. The first takes the mutex, makes every check and
changes the arrays (`Reserve`, `CancelOrder`, `UpdateToCancelled`, `UpdateToNext`,
`AddProduct`, `ModifyProduct`, `DeleteProduct`, `RecordOrder`, `RefuseAtCapacity`,
`AbandonPayment`); the others are its saves, each with the outcome that the save
returned 1 and the one that it returned 0 (`ReservationSaved`/`ReservationNotSaved`,
`OrderSaved`/`OrderNotSaved`, `UpdateProductsSaved`/`UpdateProductsNotSaved`,
`UpdateEnds`, `CatalogueEnds`, `RollbackEnds`). A handler that saves twice under one
mutex has two save steps, because a stop can fall between them. While the
mutex is held nobody else reads or writes the arrays, so nothing finer is needed. A
request that is refused leaves everything as it was and is a stuttering step.
`AddInt` keeps the width of `int` and wraps, as the build's addition does. Not in the model: prices, categories, timestamps, amounts, reply texts, and
which connection is logged in as whom (the user name is an input of the request;
`Accounts` has the sessions).

**CrashRestart** adds `StopAndRestart`: memory, mutex and workers are gone, the tables
are loaded from the files. `Load` is `load_*_locked`: the rows of the file, or none when it
cannot be locked or opened (`LoadsMayFail`), in which case `db_initialize` goes on; `unread`
remembers that the running process could not read the orders and has not saved any since
(`OrdersSaved`). A file that is being saved may be in its old state, its new
one, or cut after any row (`TornSaves`). A row that is cut in its middle is not
modelled; `parse_*_line` drops most such rows and accepts some with a shortened last
field.

**RefusalReplies** adds a variable with the reply a worker is about to format after
its unlock; the other workers go on with the actions of `OrderDesk` before it does.

**ServerLocks** abstracts what the tables hold. A listing sends `Rows` lines under
`g_db_mutex`; a change (and a login) sends one line without a mutex and then writes the
log under `g_log_mutex`, or is refused with that one line (`answering`); `LOGOUT` writes the log
first and replies afterwards (683, 688); `VIEW_LOGS` sends its lines under `g_log_mutex`, or one
line after it when the log cannot be read (`LogsNotOpened`). A command that needs no mutex is
answered at once. `LogNotOpened` is line 420; a failed `fopen` behind it unlocks and is part of
`LogWritten`. A socket has room for `SocketRoom` lines; peers read, close, and connect again.

**PaymentWorker** has one call per thread, its child, and for each response pipe the set
of processes that have its write end open (the server, and every child forked while the
server had it). `read()` returns 0 only when that set is empty.

**Accounts** has `g_users`, `users_file`, the sessions, and whether a process is up.
A handler that adds an account is two actions, before and after its save, because a stop
or a failed save leaves different things behind. `Start` is given what `load_users_locked` made
of the file: its rows, or none when it cannot be opened (`Loaded`); then the default
administrator is appended and saved over whatever the file held.

**Report** has no actions. `Sale` is one turn of the loop over the orders, `Sales` the fold
of it; `MyOrders` is the set of row numbers MY_ORDERS sends, in their order. Every unit costs one, so an amount is a quantity.

**LineProtocol** is operators: `LineOf(text)` is what `send_linef` puts on the socket (nothing
when the newline does not fit), `Take(reader, byte)` one turn of the loop of `recv_line`.
`Lines` and `Unended` are the reference. A byte is a string of which only newline and
carriage return matter; in `ClientSession` a byte stands for a word of a request.

**ClientSession**. `client.at` says where `retail_client` is: in `recv_line` for the greeting,
a single reply, the head or the rows of a listing, at a menu, at the pages of a listing, or
exited. `worker` is the thread with its line buffer and its `ClientSession`. `up` holds
bytes, `down` reply lines, each with the number of the request it answers; `upEnd` and
`downEnd` say how the other side will find the connection. `Choose` is a menu choice and
its `send_linef`; `Receive`, `Obey`, `SendRow`, `SendEnd` and `HangUp` are the worker;
`Handle` is the dispatcher, with who may call what. `ServerStops` and `ClientEnds` may
come at any step and cut the last line. Sending to a connection that is reset ends the
client by SIGPIPE or fails (`AskInVain`); the server ignores SIGPIPE. `peer = "foreign"` is
another program that connects: it sends any bytes. Left open: whether a permitted request
succeeds and how many rows a listing has.

**ProductPages**: `Store` is one DATA row of LIST_PRODUCTS, `Filters` what the prompt accepts,
`PageRows` and `Turned` the loop that shows pages. A row stands for its category.

**FortTable**. The operators `ft_*` return the table after the call of that name; the actions
make these calls in any order, as a program that owns the table may. A text is the
sequence of the widths of its lines. `Hole` is an array element nobody wrote. `skipped` and
`lost` are history: a call that put cells behind a gap, and one that does not return.

**FortLayout**. `table_rows_and_cols_geometry` computes widths and heights as seen and as kept
in the buffer, `table_geometry` the room that is asked for, `Body` the lines that are printed
with their width and their bytes; `ft_to_string` is null when they do not fit the room or
a cell does not fit its column. `Styles` is a parameter, and all built-in styles are tried
in each state.

## The runs

All bounds are constants of the `.cfg` files.

| Run | Bounds | What it shows |
|---|---|---|
| `order_interleavings` | 2 workers, 2 products (2 + 1 units), 2 orders, saves succeed, an `int` holds 2 units, so that stocks overflow | types; product ids are row numbers; order ids increase; orders keep identity and follow the state machine; units are conserved |
| `order_failed_saves` | 2 workers, 1 product, 2 orders of 1 or 2 units, prepaid and COD, any save may fail | stock >= 0; payments fit statuses; `sales.csv` is what was promised; REPORT balances (gross = collected + pending, delivered is paid, shelf and orders account for the units); `OrderDesk` implements `OrderBook` |
| `order_replies` | 2 workers, 1 product, 2 orders, any save may fail, late refusals, fair scheduling | every reservation is settled, as long as `g_db_mutex` keeps being released; the status in CANCEL_ORDER's late refusal is truthful although it is read without the mutex |
| `crash_restart` | 2 stops, 2 workers, 2 products, 1 order, torn saves, failed saves, failed loads | an order on file is lost only when a stop catches a save of the orders or by the first save of a process that could not read them; but for such a process memory and file of the orders agree; a stop creates no units but for a cancellation caught between its two saves |
| `locks_liveness` | 2 connections, listings of 3 lines, sockets of 2, the log may fail to open | no worker waits while it holds `g_db_mutex`; listings are complete and changes and refusals replied to even when the log is stuck (LOGOUT and VIEW_LOGS are not); every request is dealt with unless line 420 lost `g_log_mutex` |
| `payment_calls` | 3 threads | every payment call returns; none gives up while its child can still answer; no zombie is left |
| `accounts` | 2 connections, 4 names, room for 3 accounts, 3 starts, torn and failed saves, failed loads, three initial files | names are unique; an administrator is always left; sessions match accounts; only administrators make administrators; accounts on file stay, unless a stop catches a save or a start cannot read the file |
| `client_session` | 3 requests and QUIT, listings of up to 4 rows of which 3 fit, 2 on a page, 2 categories of which 1 fits; or 6 bytes of another peer into a buffer for 3; either process may end | replies answer the last request and none is left over at a menu; menus and session agree; commands are lines that were sent, pieces of over-long ones, or the last one cut; all rows kept are on pages; as long as the worker gets the server's mutexes, no request waits for ever and a worker whose peer is gone ends |
| `fort_table` | 4 calls of 11 kinds, positions in 2 rows and 3 columns, texts of two lines and of one, 5 properties, margins (a negative one, which is refused, too), insertion and replacement, 15 styles | a table can be printed in every style; its lines are equally wide; only an erasure takes text away; uninitialised cells come from two calls only |
| `finding_cancel_restocks` | 1 worker, 2 products, 1 order | **violated**, see below |
| `finding_log_mutex` | 2 connections, the log may fail to open | **violated**, see below |
| `finding_stop_units` | 1 worker, 1 product, 1 stop | **violated**, see below |

Why these bounds are enough to be interesting: two workers make every pair of critical
sections interleave, and no handler waits for more than one other worker. Two
products are what a renumbering needs, two orders what id reuse, a full table and an
order that is dropped beside another one need; one unit less than can be ordered makes
the race for the last one happen. Three payment calls let two children hold the pipe of
a third. Three starts let a torn file be loaded, changed, torn and loaded again.
In `client_session` three requests are a login, a listing or a refusal, and one more that
would show a reply left over; a fourth row overflows the client's array and two full pages
and a partly filled one occur; six bytes exceed the buffer by a whole second line. In
`fort_table` four calls are enough to change the strategy or a property, place cells on both
sides of a gap, join or divide them, and print; three columns are what a span beside a
common cell needs. Two
workers are interchangeable, and so are two connections in `Accounts`; symmetry is used
where no liveness property is checked.
`CHECK_DEADLOCK FALSE` is set where the system stops by a bound of the model
(`MaxStarts` in `accounts`, `MaxRequests` and `MaxForeign` in `client_session`, `MaxCalls` in
`fort_table`) or by the defect of line 420, after which every worker may
wait for the log (`locks_liveness`, `finding_log_mutex`).

Every property of a passing run comes with a mutant of the code (`PROJECT.json`,
"mutants"; the mutated operators stand before the ones they replace and are marked
"Mutant") under which the same run finds the property violated.

### Fairness

* `OrderDesk`: weak fairness of `GoOn(w)` - a worker that can go on without waiting for
  the mutex does (threads are scheduled, `run_payment_process` returns, which
  `payment_calls` shows). Strong fairness of `SecondLock(w)` - a worker that finds the
  mutex free again and again gets it. POSIX does not promise that of a mutex, but the
  threads of one server under Linux get it in practice; without it no program with a
  mutex has liveness. No client has to send anything. It does suppose that the mutex keeps being
  released: in `OrderDesk` nobody holds `g_db_mutex` but the handlers of the desk. A client that
  stops reading a listing keeps it for ever, so `ReservationSettled` is a promise for a server
  without such clients.
* `ServerLocks`: the same for its two mutexes; weak fairness of a peer's reading, for the
  peers outside `Stalling` only.
* `RefusalReplies`: that of `OrderDesk`, and weak fairness of `Reply(w)`, the `send_linef` of a
  thread that refuses.
* `ClientSession`: weak fairness of the worker's steps (`Work`), of the client's reading
  (`Read`) and of another peer taking replies off its socket (`Discard`): both processes run
  while they have something to do, and TCP delivers or reports the end. The user need not
  choose anything, and neither process need stop. The handlers of this model wait for no mutex;
  so `Answered` and `WorkerReleased` are promises under the conditions of `ServerLocks`: the
  log's mutex was not lost at line 420, and no client of another connection has stopped reading
  a listing. Otherwise a LOGOUT does wait for ever (`finding_log_mutex`), and a worker at a
  mutex never gets to the `close` of line 1569.
* `PaymentWorker`: weak fairness of each parent and each child. Nobody has to be killed or
  to call.

## Where the code does something else than it says

* **Cancelling after a deletion** (`finding_cancel_restocks`). `handle_cancel_order` (1140),
  `handle_update_order` and the rollbacks of `handle_place_order` credit the product that
  has the order's product id now. DELETE_PRODUCT has given that id to the next row, or
  to none.
* **The log's mutex** (`finding_log_mutex`). `log_action_server` returns at line 420 with
  `g_log_mutex` held when `acquire_file_lock` cannot open or lock the log (a failed `fopen`
  behind it does unlock). From then on every change waits for ever after its reply, every
  LOGOUT and VIEW_LOGS before it, though its client keeps the connection and reads.
* **Stopping** (`finding_stop_units`). A "graceful" stop ends workers between the two
  critical sections of PLACE_ORDER; the units they reserved are gone from
  `products.csv` and in no order.

Smaller ones the models have as steps but no run states as a property:
* the replies at 972 and 1248 are formatted after the unlock and may name a stock that is
  enough or a transition that is valid (`RefusalReplies`: `RefuseStock`, `RefuseUpdate`);
* a stop in the middle of a save loses rows of the file (`CrashRestart`: `Leftovers`);
* a file that cannot be locked or opened at the start is taken for an empty one (262-269,
  286-293, 310-317), and the next save of that table overwrites it: a first order, or the
  default administrator, is then all there is (`CrashRestart`: `Load`; `Accounts`: `Start`);
* LOGOUT is the only command that logs before it replies (683);
* a client that never reads its listing keeps `g_db_mutex` (`ServerLocks` with
  `Stalling = {w1}`);
* an account whose save failed stays in memory and can be used (`Accounts`:
  `UsersNotSaved`); a catalogue change likewise (`OrderDesk`: `CatalogueEnds`);
* a listing of more than 2048 products, or categories beyond 64, is cut without a word, and
  rows `sscanf` cannot take apart are dropped (`client_tables.c`:88-107; `ProductPages`: `Store`);
* a request whose sender dies in the middle of it is handled when the stream ends, with the
  arguments that arrived (`server_net.c`:63-68; `ClientSession`: `AtLine`);
* MODIFY_PRODUCT may give a product the name of another one (812-814; `OrderDesk`: `ModifyProduct`);
* a customer who has paid when the order table is full gets the units' reservation undone
  and no refund (`OrderDesk`: `RefuseAtCapacity`).

In `fort.c` (but for memory that runs out, no call the client makes reaches them):
* `ft_erase_range` takes `FT_CUR_COLUMN` for the row (2847, 2849) and counts rows and cells by
  subtraction, which wraps when the range begins past the end (2866, 5388; `EraseIsLost`);
* `vector_insert` and `vector_swap` leave elements uninitialised when they write past the end
  (7330, 7388-7440; `Hole`);
* `ft_set_cell_span` looks at the row where it means the column (3644);
* printing through a format over a span, or erasing its first cell, leaves slaves without a
  master, and `ft_to_string` returns NULL (`OrphanSlaves`); so it may for colours in a table
  with spans, whose columns are widened in two different ways (7100-7134);
* in a style without borders between columns a separator over a span is wider than the rows
  (`LinesAlign` leaves that case out), a table without columns has no left corner
  (5744-5747), and margin lines are wider than the table (3373);
* a refused negative property is marked as set all the same (4648), so the cell no longer
  inherits it;
* `realloc` that fails loses the array (7242); `copy_string_buffer` refuses UTF-8 (6517).

## The proofs

The proofs are about every set of workers, customers, names, methods and quantities, every
capacity, any number of starts and stops, and every initial table that satisfies the
assumptions of the module.

| Module | Theorem | States |
|---|---|---|
| `OrderDesk_proofs` | `TypeCorrect` | `TypeOK` |
| | `MutualExclusion` | `MutexInv`: a worker is inside a critical section exactly when it owns `g_db_mutex` |
| | `ProductIdsAlwaysSequential` | `ProductIdsSequential` |
| | `OrdersAlwaysOnFile` | `OrdersOnFile` |
| | `OrderIdsAlwaysUnique` | `OrderIdsUnique` |
| | `PaymentsAlwaysMatch` | `PaymentMatchesStatus` |
| | `OrdersFollowLifecycle` | `OrderLifecycle` (an action property) |
| | `CapacityAlwaysRespected` | `CapacityRespected` |
| | `DeskImplementsBook` | `ImplementsOrderBook`: the refinement of `OrderBook` |
| | `UnitsAlwaysConserved` | `UnitsConserved` (an action property) |
| | `StockNeverNegative` | `StockNonNegative`, as long as an `int` holds the units of every product (`UnitsFit`) |
| `OrderDeskExtensions_proofs` | `RepliesLeaveTheDesk` | `RefusalSpec => Spec` |
| | `RefusalsTyped`, `CancelRefusalsTruthful` | `RefusalTypeOK`, `CancelRefusalTruthful` |
| | `OrdersOnFileAfterStops`, `OrdersAlwaysDurable` | `OrdersOnFileIfRead`, `DurableOrders` (an action property), with any number of stops and failed loads |
| | `TablesSurviveStops` | ids, payments and table sizes, with any number of stops |
| | `UnitsConservedBetweenStops`, `StockNeverNegativeAfterStops` | the two theorems about units, with any number of stops |
| | `StopsCreateNoUnits` | `StopCreatesNoUnits` (an action property), under `UnitsFit` |
| | `ReportsAlwaysBalance`, `ReportsBalanceAfterStops` | `ReportBalances`, without and with stops |
| `ClientSession_proofs` | `RequestsInStep`, `RolesAlwaysAgree` | `InStep`, `RolesAgree` |
| `ClientSessionData_proofs` | `TypeCorrect`, `PagesAlwaysShowAll`, `CommandsAlwaysLines` | `TypeOK`, `PagesShowAll`, `CommandsAreLines` |
| `ServerLocks_proofs` | `TypeCorrect`, `NeverHoldsAndWaits` | `TypeOK`, `NoHoldAndWait` |
| | `TwoMutexes` | who owns which mutex at which step |
| `PaymentWorker_proofs` | `TypeCorrect`, `NeverGivenUpEarly`, `NoZombiesEver` | `TypeOK`, `GivenUpOnlyIfKilled`, `NoZombies` |
| `Accounts_proofs` | `TypeCorrect`, `NamesAlwaysUnique`, `AdminAlwaysAvailable`, `SessionsAlwaysMatch` | `TypeOK`, `UsernamesUnique`, `AdminAvailable`, `SessionsMatchAccounts` |
| | `AccountsAlwaysDurable`, `AdminsAlwaysMadeByAdmins` | `AccountsDurable`, `AdminsMadeByAdmins` (action properties) |
| `FortTable_proofs` | `NoSkipNoHoles` | `TablesTyped` and `CleanUnlessSkipped`, the invariant of all but one of the others |
| | `HolesOnlyFromSkips`, `TablesAlign` | `HolesComeFromSkips`, `LinesAlign` |
| | `TextsStay` | `TextStays` (an action property) |
| | `MeasuresNeverNegative` | `SettingsInv`: no width, padding, height or margin that is set is negative |
| | `TablesPrinted` | `TablesArePrinted`: the room measured beforehand is enough, in every style |

**OrderDesk.** `TypeOK` is not inductive: a worker that is paying uses its `call`, which
the type allows to be `NoCall`. `TypeInv` adds that a worker placing an order has its
locals. `MutexInv` follows from it, because every action either takes a free mutex, keeps
the one it has, or releases it. With `MutexInv` at most one worker is saving a
new order; lemma `OrdersStep` uses that to reduce all actions to five shapes of what can
happen to the orders and their file (nothing or a save, a new order, its save, its
being dropped, a change of one promised order), and `ProductsStep` and `FilesStep` do the
same for the products and the files. Each remaining theorem is one case per shape:
`OrdersOnFile` is strengthened by `SavingInv`, "while a new order is being saved the table is not
empty" (`OnFileInv`), `OrderIdsUnique` by ids that increase along both tables, `ProductIdsSequential` and
`CapacityRespected` by each other's product part.

**The refinement.** A basket changes with the move of its worker only (`BasketMove`), the
book when an order is saved for the first time or a promised one is changed. The step that
saves an order must be `PlaceOrder` of the book, under an id that was new to it. That is decided
two steps earlier, so the invariant is strengthened by `PendingInv`: while a worker is
saving a new order, the table is the book with that order, made of the worker's own locals
and a next id, at its end. Then one lemma per action or group of like actions says which
step of the book it is.

**Sums.** `Reserved` and `Sold` are sums of the community modules, defined by a function that
recurs over the subsets of a set. The library's induction theorems cannot be used, so each
fact about sums (they exist, do not depend on the order, change by one term when the
function changes at one place, ...) is shown for a least counterexample: of the
numbers `n` for which it fails on a set of `n` elements there would be a first
(`LeastNatural`). The folds over sequences in `LineProtocol`, `ProductPages` and `Report` are
unfolded in the same way.

**Units.** `UnitsInv` adds to the invariant of the refinement that the product with an id is the
row of that number, so that units come back to their row. Then each action moves units
between the shelf, a basket and an order and changes one term of one sum (`ReservedMove`,
`SoldAppend`, ...). Units come back by an addition to an `int`; `Units(i) <= IntMax` says it
does not wrap. A stock is then never negative, since a reservation takes at most what is there
and all that is added is not.

**Late replies.** `RefusalSpec` implies `Spec`, which carries all of the above over.
`CancelRefusalTruthful` is strengthened by the row being a promised one
(`SettledRefusals`): an unsaved order can be dropped, a promised one cannot, and no
arrow of the state machine leads back to a status that can be cancelled.

**Stops.** `CrashInv` (`UnitsInv`, and a numbered catalogue on file) holds again after a restart
whatever the stop left of the files, because what is loaded is the beginning of a file or of
a table (`RestartLoads`, `RestartKeeps`), so the lemmas about the steps of `OrderDesk` apply to
every process. Neither it nor `UnitsInv` says that memory and file agree on the orders, because a process that
could not read the file does not: `OrdersOnFileIfRead` says of such a process that it has promised
nothing (`NothingPromised`: the first promise is a save of the orders), and of every other one that they agree;
a save that is made brings them together (`OrdersSavedStep`). A step of a process that writes the orders
writes a table that knows every order on file in a later state, unless the process has not read it. `StopsCreateNoUnits` compares what the next process loads with what
the stopped one had. `ShelfInv`: if no save has failed, the file has no more of a product than the
shelf, except what the reservation that is being saved has just taken, which is in a basket.
The orders on file are compared with those in memory row by row: none on file has more
units than its row in memory, unless it is cancelled in memory only (`Uncancelled`).

**Report.** `AddedUp` is the invariant of the loop: after `k` rows the counters are sums over the
first `k` rows, gross is collected plus pending, and what was delivered is part of what was
collected, because the payment column fits the status (`PaymentsInv`). Sums over products and over
customers become sums over the orders by sorting the terms into classes (`SumByClass`).

**ServerLocks.** `LocksInv`: the types; the owner of `g_db_mutex` is the worker that lists or
changes; whoever is in the log's critical section (of a change, of a LOGOUT, of VIEW_LOGS) owns
`g_log_mutex`. The converse of the last fails after line 420. A worker waits at steps where it is in no critical section of
the tables.

**PaymentWorker.** `CallsInv`: the server has a pipe's write end open until the parent
closes it (`ServerWriterInv`), a running child has its own pipe's open (`OwnWriterInv`), and a
child that answered has left the answer in the pipe (`AnswerInv`). Hence a parent that
reads the end of the pipe has an ended child, and without an answer a killed one, whichever other
children inherited the write end.

**Accounts.** `AccountsInv`: rows on file and in memory are `Sound` (typed, names unique, and no
account named `admin` before the first active administrator), a server that is down has no
sessions (`StoppedInv`), and the file holds the first rows of the table (`OnFileInv`). `AdminFirst`
is what keeps a torn save from leaving a customer `admin` beside the default account that is
appended without a look-up; it must hold of the first file, which `FirstFilesAssumption` asks
for. A file the program wrote from the start has it: its first row is the default
administrator. So has the empty table that a failed load leaves, to which the default
administrator is appended (`LoadedSound`). That administrators are made by administrators follows from
`SessionsMatchAccounts`: the role of the session that adds one is that of an account.

**ClientSession, in step.** `SessionInv` says for each place of the client what is on its way in both
directions and where the worker is (`ServedInv`): a request that travels word by word, being
handled, answered; a listing with its rows until END; nothing at a menu. It says the same of
what a worker that is gone has left behind (`GoneInv`), and relates the role of the session
to that of the client after each reply. Each action goes from one of these places to
another.

**ClientSession, data.** `BoundsInv` bounds what is on its way by what was asked: replies by requests
or by bytes sent, one line at most for a client that has ended. `PagingInv`: an offered category
is that of a row, so no filter leaves an empty page, and the first `k` pages together are the first
`Min(n, k * PageSize)` rows. `StreamInv`: there is a part `c` of the bytes sent that the worker has taken
off the socket and the rest is still under way; the text of `c` is that of the lines heard
and of the buffer; and unless a line was too long for the buffer, what was heard are lines
of `c`, and the buffer is the line of `c` that has not ended. A byte more leaves the lines of a stream lines
and either extends or ends the last one.

**libfort.** `CleanUnlessSkipped`: until a call skips cells, every element of every row is a cell
that was created. One lemma per call shows that it keeps tables of cells tables of cells, under the
condition that a writing call does not start past the end of a row it does not pad (`Writable`), and
that without the condition the rows still hold nothing but cells and holes (`TablesTyped`). The calls
that write several texts are folds, unfolded for the one or two texts that the actions write. For
`LinesAlign` no call needs to be looked at any more: for every typed table the lines of
the top border, the rows and the separators come out with the width that all columns have together
plus that of the borders between them (`LineWidths`); the columns that a span joins add up to the same
width (`JoinedColumns`) if the style has a border between them.

**Texts that stay.** `TextStays` compares the texts of a table, read row by row, with those
of the table after a call. `Before` and `After` are what is read before and behind the
cursor; together they are everything (`ReadingSplit`). A call that writes satisfies `Moves`: the
cursor goes forward, the texts it passes stay in their places, and when cells are inserted `Before`
goes on with new texts while `After` is the same. `Moves` is transitive, so it is shown for one
`ft_write`, one formatted line and one `ft_ln` (which moves the texts behind the cursor to a row
of their own and changes neither `Before` nor `After`) and follows for the calls that make
several of them. Reading is concatenation, of cells to rows and of rows to tables
(`RowReadingConcat`, `RowsReadingConcat`), which is proved for a least counterexample again; what
is taken away to get the old texts back is the stretch of new ones in the middle (`ErasedMiddle`).

**Tables that are printed.** `ft_to_string` returns NULL when a cell does not fit into its columns
or the lines do not fit into the buffer. Neither can be shown without `SettingsInv`: a negative margin
or padding would make the room smaller than what is printed into it, so it is the second
inductive invariant of `FortTable`, and holds because `CHECK_NOT_NEGATIVE` and
`set_entire_table_property` refuse what is negative; a measure that is refused has been marked as set
before, and keeps the value it had, or the zero of a new place. The rest is about one table:

1. *Columns.* A column is as wide as its widest common cell (`CommonWidthFits`). A master whose group is
   too narrow by `m` gives each of its `n` columns `(m + n - 1 - i) div n` more, which are shares that
   differ by one and add up to `m` (`ShareOf`, `SharesAddUp`); so the group fits afterwards
   (`WidenedFits`), and later masters only widen columns further (`WidenedFromFits`, `WidthsFit`: a least
   counterexample down the rows and one across the columns). Hence no cell is narrower than its text
   (`CellFits`, `NotTooNarrow`), if it is no slave without a master.
2. *The two measures.* The width that is seen and the width with escape sequences are computed
   independently. They differ, column by column, by at least what the cells of a row need
   (`ColumnWithTags`), when nothing is coloured or nothing spans; with both, the shares are rounded
   differently and this fails. Summed over the columns, a line with its escape sequences
   is not longer than `g.intern` (`WidthInBuffer`).
3. *Bytes.* A character of a border takes up to `bytes` bytes, the rest one. A row has at most one
   border fewer than columns that are not joined, plus those at its sides; the first column
   is never joined (`FirstNotJoined`, `RowLineFits`). A separator is all border characters
   (`SeparatorLineFits`), margin lines fill the room exactly.
4. *The whole table.* The lines are every second one a separator, which is printed at most once, and
   every second one a row's, printed as often as the row is high; with the margins they are no more than
   the lines there is room for (`SumOfPositions`, `LinesAddUp`, `LinesFit`).

The sums are those of the community modules again, and the facts about them that the order desk needs
are proved here for every finite set, with four more: a sum of sums (`SumAdd`), of
multiples (`SumScale`), of parts (`SumParts`) and along a bijection (`SumMoved`).

Assumptions used: those named in the modules (positive `IntMax`, finitely many workers and
customers, quantities and stock inputs within `int`, a free mutex has no owner, methods are UPI,
CARD, COD, the initial table is numbered from 1, fits and has no negative stock; sockets and listings
have sizes; the server is not one of its workers; room for an account, a default
password hash, and first files as above; a line holds the longest request of the client,
two words, its newline and the final zero, `RequestsFit`; texts are lists of line widths, and an element
that was never created is not a cell; escape sequences have lengths, properties are set to integers and
those of the table are the strategy or a margin, `SettingsAssumption`; a border is one column wide or
missing, and a character of it takes a byte or more, `StylesAssumption`). `UnitsFit` is a premise of three theorems and no
assumption: `StockNonNegative` does fail for other values of the constants, when units come back to
a stock that an administrator has raised to near `INT_MAX`. `order_failed_saves` and `crash_restart`
use an `IntMax` that the units of the instance cannot reach; `order_interleavings` uses a small
one, so that `UnitsConserved` is checked beside stocks that overflow.

Model-checked only: liveness (`ReservationSettled`, `RepliesSent`, `AnsweredUnlessLogLost`,
`PaymentReturns`, and `Answered` and `WorkerReleased` of `ClientSession`), which is out of
the prover's reach. Every safety property that a passing run checks is a theorem. `MutexInv`, `CapacityRespected` and
`RefusalTypeOK` are proved and in no run.

## Not modelled

* The arguments of commands (`strtok_r`, `strtol`, `strtof`): the inputs of actions are
  what the handlers accept. Values beyond `int` that `(int)strtol` cuts are left out.
* Prices and timestamps; how amounts are rounded.
* `FAILED` as an answer of the payment process (`server_payment.c`:33, 86): it is sent for methods and
  amounts the parent has refused before. The string a late refusal reads without the mutex is
  read in one piece (`RefusalReplies`: `Reply`).
* A reply cut short that still begins with `OK LOGIN`, which the client takes for a success
  (`retail_client.c`:519), on a connection that has ended.
* Clients that stop reading a listing, but in `ServerLocks`.
* The prompts of the client that repeat until a number or a name is well formed; `fgets`
  leaves the rest of an over-long input line for the next prompt (`retail_client.c`:113).
* Which headers and colours each table of the client gets; the labels of categories.
* Of libfort: alignment, wide and multi-byte characters, `ft_copy_table`, reuse of the
  conversion buffer, the C++ wrapper of `fort.h`, running out of memory.
* `fprintf` and `fclose` that fail after a successful `fopen`: the effect is that of a torn
  save without a stop. Read errors in the middle of a file at the start: `fgets` ends as if the
  file did. Rows that are cut in their middle.
* A second server process on the same files: it loads and may save before its `bind` fails.
* `auto_client.py`, the demo script and the Makefile.

## Plan

1. Done: `StoreRules`, `OrderDesk`, `OrderBook` and the refinement, their proofs; `RefusalReplies`,
   `CrashRestart`, `ServerLocks`, `PaymentWorker`, `Accounts`; `Report`, `LineProtocol`,
   `ProductPages`, `ClientSession`; `FortVector`, `FortStyles`, `FortProperties`, `FortTable`,
   `FortLayout`.
2. Next models: write errors after `fopen` and rows cut in the middle in `CrashRestart`; a
   bounded pool of descriptors in `PaymentWorker`; multi-byte texts in `FortLayout`.
3. Next proofs: `RefusalSpec` with fairness as a refinement of the fair order desk.
