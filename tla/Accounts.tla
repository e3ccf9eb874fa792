------------------------------- MODULE Accounts -------------------------------
(***************************************************************************)
(* The accounts of retail_server.c and the sessions opened on them:        *)
(* REGISTER, CREATE_ADMIN, LOGIN, LOGOUT, the end of a connection, and the *)
(* start of the server, which loads data/users.csv and appends the default *)
(* administrator when no active one is left.                               *)
(*                                                                         *)
(* A new row is in g_users before it is saved, with g_db_mutex held in     *)
(* between.  The server may be stopped at any point, in the middle of that *)
(* save too: users.csv, emptied by fopen(..., "w"), then has some of the   *)
(* first rows of its new contents.  A start that cannot lock or open the   *)
(* file for reading takes it for an empty one and overwrites it with the   *)
(* default administrator.  Passwords appear by their hashes only.          *)
(* Requests that are refused change nothing, the session they come from    *)
(* included, and have no action.                                           *)
(***************************************************************************)
EXTENDS Integers, Sequences, SequencesExt

CONSTANTS
  Connections,    \* one ClientSession each
  NoConnection,   \* the owner of a mutex that is free
  Usernames,      \* usernames that is_valid_username accepts
  Hashes,         \* values of hash_password
  DefaultHash,    \* the hash of "admin123"
  MAX_USERS,
  FirstFiles,     \* what users.csv may hold before the first start
  SavesMayFail,   \* whether save_users_locked may return 0
  TornSaves,      \* whether a stop may fall between its fopen and its fclose
  LoadsMayFail,   \* whether a start may be unable to read the file
  MaxStarts       \* bound: how often the server is started

ASSUME ConnectionAssumption == NoConnection \notin Connections
ASSUME LimitsAssumption == MAX_USERS \in Nat \ {0} /\ MaxStarts \in Nat
ASSUME SwitchesAssumption ==
  SavesMayFail \in BOOLEAN /\ TornSaves \in BOOLEAN /\ LoadsMayFail \in BOOLEAN
ASSUME DefaultAssumption == "admin" \in Usernames /\ DefaultHash \in Hashes

Roles == {"ADMIN", "CUSTOMER"}
User == [username : Usernames, password_hash : Hashes, role : Roles, active : BOOLEAN]
Session == [authenticated : {TRUE}, role : Roles, username : Usernames]
NoSession == [authenticated |-> FALSE]

Named(users, username) == \E i \in DOMAIN users : users[i].username = username

IsActiveAdmin(user) == user.role = "ADMIN" /\ user.active
HasAdmin(users) == \E i \in DOMAIN users : IsActiveAdmin(users[i])

UniqueNames(users) ==
  \A i, j \in DOMAIN users : users[i].username = users[j].username => i = j

\* The name of the default administrator is only taken when there is an active
\* administrator, in whatever first rows a torn save leaves too.
AdminFirst(users) ==
  \A i \in DOMAIN users :
    users[i].username = "admin" => \E j \in 1 .. i : IsActiveAdmin(users[j])

\* Nobody has edited a duplicate into the first file, or "admin" before an active
\* administrator.
ASSUME FirstFilesAssumption ==
  \A file \in FirstFiles :
    /\ file \in Seq(User) /\ Len(file) <= MAX_USERS
    /\ UniqueNames(file)
    /\ AdminFirst(file)

VARIABLES
  g_users, users_file,
  g_db_mutex,   \* the connection whose new row is being saved, or NoConnection
  session,
  g_running,    \* whether a process is up
  starts        \* how often one has been started

vars == <<g_users, users_file, g_db_mutex, session, g_running, starts>>

TypeOK ==
  /\ g_users \in Seq(User) /\ Len(g_users) <= MAX_USERS
  /\ users_file \in Seq(User) /\ Len(users_file) <= MAX_USERS
  /\ g_db_mutex \in Connections \cup {NoConnection}
  /\ session \in [Connections -> Session \cup {NoSession}]
  /\ g_running \in BOOLEAN
  /\ starts \in 0 .. MaxStarts

Init ==
  /\ g_users = << >>
  /\ users_file \in FirstFiles
  /\ g_db_mutex = NoConnection
  /\ session = [c \in Connections |-> NoSession]
  /\ g_running = FALSE
  /\ starts = 0

-----------------------------------------------------------------------------
(* Start and stop *)

NewUser(username, hash, role) ==
  [username |-> username, password_hash |-> hash, role |-> role, active |-> TRUE]

\* Mutant: a file that has rows is taken to have an administrator.
WithAdminIfEmpty(users) ==
  IF users # << >> THEN users ELSE Append(users, NewUser("admin", DefaultHash, "ADMIN"))

\* ensure_default_admin_locked, but for its save.
WithAdmin(users) ==
  IF HasAdmin(users) THEN users ELSE Append(users, NewUser("admin", DefaultHash, "ADMIN"))

\* What a stop in the middle of a save leaves.
Torn(rows) == IF TornSaves THEN {SubSeq(rows, 1, n) : n \in 0 .. Len(rows)} ELSE {}

\* What load_users_locked may make of the file: a failure leaves the count at 0.
Loaded(rows) == {rows} \cup (IF LoadsMayFail THEN {<< >>} ELSE {})

Start(loaded) ==
  /\ ~g_running /\ starts < MaxStarts
  /\ starts' = starts + 1
  /\ \/ \* db_initialize succeeds
        /\ Len(WithAdmin(loaded)) <= MAX_USERS
        /\ g_users' = WithAdmin(loaded)
        /\ users_file' = IF HasAdmin(loaded) THEN users_file ELSE g_users'
        /\ g_running' = TRUE
     \/ \* no room for the administrator, or it is not saved: main returns 1
        /\ ~HasAdmin(loaded)
        /\ \/ Len(loaded) = MAX_USERS /\ UNCHANGED users_file
           \/ /\ Len(loaded) < MAX_USERS
              /\ \/ SavesMayFail /\ UNCHANGED users_file
                 \/ users_file' \in Torn(WithAdmin(loaded))
        /\ UNCHANGED <<g_users, g_running>>
  /\ UNCHANGED <<g_db_mutex, session>>

\* The process ends, its threads and connections with it.
Stop ==
  /\ g_running
  /\ g_running' = FALSE
  /\ users_file' \in IF g_db_mutex = NoConnection THEN {users_file}
                                                  ELSE {users_file} \cup Torn(g_users)
  /\ g_users' = << >>
  /\ g_db_mutex' = NoConnection
  /\ session' = [c \in Connections |-> NoSession]
  /\ UNCHANGED starts

-----------------------------------------------------------------------------
(* Requests *)

\* Mutant: the table has no limit.
InsertUnlimited(c, username, hash, role) ==
  /\ g_running /\ g_db_mutex = NoConnection
  /\ ~Named(g_users, username)
  /\ g_users' = Append(g_users, NewUser(username, hash, role))
  /\ g_db_mutex' = c
  /\ UNCHANGED <<users_file, session, g_running, starts>>

Insert(c, username, hash, role) ==
  /\ g_running /\ g_db_mutex = NoConnection
  /\ ~Named(g_users, username)
  /\ Len(g_users) < MAX_USERS
  /\ g_users' = Append(g_users, NewUser(username, hash, role))
  /\ g_db_mutex' = c
  /\ UNCHANGED <<users_file, session, g_running, starts>>

\* Mutant: the username is not looked up.
RegisterUnchecked(c, username, hash) ==
  /\ g_running /\ g_db_mutex = NoConnection
  /\ Len(g_users) < MAX_USERS
  /\ g_users' = Append(g_users, NewUser(username, hash, "CUSTOMER"))
  /\ g_db_mutex' = c
  /\ UNCHANGED <<users_file, session, g_running, starts>>

\* REGISTER asks for no session and is open to one of either role.
Register(c, username, hash) == Insert(c, username, hash, "CUSTOMER")

\* Mutant: any session will do (require_auth for require_admin).
CreateByAnyone(c, username, hash) ==
  /\ session[c].authenticated
  /\ Insert(c, username, hash, "ADMIN")

CreateAdmin(c, username, hash) ==
  /\ session[c].authenticated /\ session[c].role = "ADMIN"
  /\ Insert(c, username, hash, "ADMIN")

\* Mutant: the file is emptied and only the new row is written.
NewRowSaved(c) ==
  /\ g_db_mutex = c
  /\ users_file' = <<g_users[Len(g_users)]>>
  /\ g_db_mutex' = NoConnection
  /\ UNCHANGED <<g_users, session, g_running, starts>>

UsersSaved(c) ==
  /\ g_db_mutex = c
  /\ users_file' = g_users
  /\ g_db_mutex' = NoConnection
  /\ UNCHANGED <<g_users, session, g_running, starts>>

\* The refusal leaves the row in g_users (lines 617-621 and 1376-1380).
UsersNotSaved(c) ==
  /\ SavesMayFail
  /\ g_db_mutex = c
  /\ g_db_mutex' = NoConnection
  /\ UNCHANGED <<g_users, users_file, session, g_running, starts>>

OpenSession(c, username, role) ==
  session' = [session EXCEPT ![c] =
                [authenticated |-> TRUE, role |-> role, username |-> username]]

\* Mutant: the role asked for is not compared with the account's.
LoginAsAnyRole(c, username, hash, role) ==
  /\ g_running /\ g_db_mutex = NoConnection
  /\ \E i \in DOMAIN g_users :
       g_users[i].username = username /\ g_users[i].password_hash = hash /\ g_users[i].active
  /\ OpenSession(c, username, role)
  /\ UNCHANGED <<g_users, users_file, g_db_mutex, g_running, starts>>

\* find_user_index_locked returns the first row of that name.
Login(c, username, hash, role) ==
  /\ g_running /\ g_db_mutex = NoConnection
  /\ \E i \in DOMAIN g_users :
       /\ g_users[i] = NewUser(username, hash, role)
       /\ \A j \in 1 .. i - 1 : g_users[j].username # username
  /\ OpenSession(c, username, role)
  /\ UNCHANGED <<g_users, users_file, g_db_mutex, g_running, starts>>

\* LOGOUT, and the end of a connection: the next one starts without a session.
Logout(c) ==
  /\ g_running /\ g_db_mutex # c
  /\ session' = [session EXCEPT ![c] = NoSession]
  /\ UNCHANGED <<g_users, users_file, g_db_mutex, g_running, starts>>

Request(c) ==
  \/ UsersSaved(c) \/ UsersNotSaved(c) \/ Logout(c)
  \/ \E username \in Usernames, hash \in Hashes :
       \/ Register(c, username, hash)
       \/ CreateAdmin(c, username, hash)
       \/ \E role \in Roles : Login(c, username, hash, role)

Next ==
  \/ \E loaded \in Loaded(users_file) : Start(loaded)
  \/ Stop
  \/ \E c \in Connections : g_running /\ Request(c)

Spec == Init /\ [][Next]_vars

-----------------------------------------------------------------------------
\* No two accounts share a name, in memory or on file, the default account
\* that a start appends without a look-up included (lines 511-531).
UsernamesUnique == UniqueNames(g_users) /\ UniqueNames(users_file)

\* A server that is up has an active administrator in memory and on file,
\* whatever a torn save left of the file it started from (README.md:71).
AdminAvailable == g_running => HasAdmin(g_users) /\ HasAdmin(users_file)

\* Every session is on an active account of the session's role: the copy of the
\* role that require_admin and require_customer look at is never stale.
SessionsMatchAccounts ==
  \A c \in Connections : session[c].authenticated =>
    \E i \in DOMAIN g_users : /\ g_users[i].username = session[c].username
                              /\ g_users[i].role = session[c].role
                              /\ g_users[i].active

\* While the server runs, administrators are made by administrators: an account
\* that becomes one is created over a session on another one, which the table
\* still lists (require_admin looks at the session only).
AdminsMadeByAdmins ==
  [][\A i \in DOMAIN g_users' :
       (g_running /\ IsActiveAdmin(g_users'[i]) /\ ~Named(g_users, g_users'[i].username))
         => \E c \in Connections : /\ g_db_mutex' = c
                                   /\ session[c].authenticated
                                   /\ \E j \in DOMAIN g_users :
                                        /\ IsActiveAdmin(g_users[j])
                                        /\ g_users[j].username = session[c].username]_vars

\* An account that reached the file is there for good, unchanged and in its
\* place, over failed saves, stops and starts (README.md:21, "Persistent user
\* store"), but in two cases: a stop catches a save, or a start cannot read the
\* file and the save of the default administrator overwrites it (lines 262-269 and
\* 518-530).
AccountsDurable ==
  [][(g_running' \/ (g_running /\ g_db_mutex = NoConnection))
     => IsPrefix(users_file, users_file') \/ (LoadsMayFail /\ Start(<< >>))]_vars
==============================================================================
