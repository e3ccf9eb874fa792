--------------------------- MODULE Accounts_proofs ---------------------------
(***************************************************************************)
(* Invariance proofs about Accounts, for every set of names and            *)
(* connections, every limit of the table and every first file that         *)
(* FirstFilesAssumption admits.                                            *)
(***************************************************************************)
EXTENDS Accounts, TLAPS

-----------------------------------------------------------------------------
(* What can become of a table of accounts *)

\* A table that can be loaded: names are unique, and a start that finds no
\* administrator may take the name "admin".
Sound(users) == users \in Seq(User) /\ UniqueNames(users) /\ AdminFirst(users)

\* A table with one more row, in which the names stay unique.
LEMMA AppendSound ==
  ASSUME NEW users, Sound(users), NEW user \in User,
         ~Named(users, user.username),
         user.username = "admin" => IsActiveAdmin(user) \/ HasAdmin(users)
  PROVE  /\ Sound(Append(users, user))
         /\ Len(Append(users, user)) = Len(users) + 1
         /\ HasAdmin(users) \/ IsActiveAdmin(user) => HasAdmin(Append(users, user))
<1> DEFINE more == Append(users, user)
<1>1. /\ users \in Seq(User) /\ more \in Seq(User)
      /\ Len(users) \in Nat /\ Len(more) = Len(users) + 1
      /\ DOMAIN users = 1 .. Len(users) /\ DOMAIN more = 1 .. Len(users) + 1
      /\ \A i \in 1 .. Len(users) : more[i] = users[i]
      /\ more[Len(users) + 1] = user
  BY DEF Sound
<1> HIDE DEF more
<1>2. UniqueNames(more)
  <2> SUFFICES ASSUME NEW i \in DOMAIN more, NEW j \in DOMAIN more,
                      more[i].username = more[j].username
               PROVE  i = j
    BY DEF UniqueNames
  <2>1. CASE i \in DOMAIN users /\ j \in DOMAIN users
    BY <2>1, <1>1 DEF Sound, UniqueNames
  <2>2. CASE i \notin DOMAIN users /\ j \notin DOMAIN users
    BY <2>2, <1>1
  <2>3. CASE i \in DOMAIN users /\ j \notin DOMAIN users
    BY <2>3, <1>1 DEF Named
  <2>4. CASE i \notin DOMAIN users /\ j \in DOMAIN users
    BY <2>4, <1>1 DEF Named
  <2> QED
    BY <2>1, <2>2, <2>3, <2>4
<1>3. HasAdmin(users) \/ IsActiveAdmin(user) => HasAdmin(more)
  BY <1>1 DEF HasAdmin
<1>4. AdminFirst(more)
  <2> SUFFICES ASSUME NEW i \in DOMAIN more, more[i].username = "admin"
               PROVE  \E j \in 1 .. i : IsActiveAdmin(more[j])
    BY DEF AdminFirst
  <2>1. CASE i \in DOMAIN users
    <3>1. PICK j \in 1 .. i : IsActiveAdmin(users[j])
      BY <2>1, <1>1 DEF Sound, AdminFirst
    <3> QED
      BY <3>1, <2>1, <1>1
  <2>2. CASE i \notin DOMAIN users
    <3>1. i = Len(users) + 1
      BY <2>2, <1>1
    <3>2. CASE IsActiveAdmin(user)
      BY <3>1, <3>2, <1>1
    <3>3. CASE HasAdmin(users)
      BY <3>1, <3>3, <1>1 DEF HasAdmin
    <3> QED
      BY <3>1, <3>2, <3>3, <1>1
  <2> QED
    BY <2>1, <2>2
<1> QED
  BY <1>1, <1>2, <1>3, <1>4 DEF Sound, more

\* The first rows of a table that can be loaded can be loaded.
LEMMA TornSound ==
  ASSUME NEW users, Sound(users), NEW rows \in Torn(users)
  PROVE  Sound(rows) /\ Len(rows) <= Len(users)
<1>1. PICK n \in 0 .. Len(users) : rows = SubSeq(users, 1, n)
  BY DEF Torn
<1>2. /\ users \in Seq(User) /\ Len(users) \in Nat /\ DOMAIN users = 1 .. Len(users)
      /\ rows \in Seq(User) /\ Len(rows) = n /\ DOMAIN rows = 1 .. n
      /\ \A i \in 1 .. n : rows[i] = users[i]
  BY <1>1 DEF Sound
<1>3. UniqueNames(rows)
  BY <1>2 DEF Sound, UniqueNames
<1>4. AdminFirst(rows)
  <2> SUFFICES ASSUME NEW i \in 1 .. n, rows[i].username = "admin"
               PROVE  \E j \in 1 .. i : IsActiveAdmin(rows[j])
    BY <1>2 DEF AdminFirst
  <2>1. PICK j \in 1 .. i : IsActiveAdmin(users[j])
    BY <1>2 DEF Sound, AdminFirst
  <2> QED
    BY <2>1, <1>2
<1> QED
  BY <1>2, <1>3, <1>4 DEF Sound

\* The row of a new account is an account, and an administrator by its role alone.
LEMMA NewUserType ==
  ASSUME NEW username \in Usernames, NEW hash \in Hashes, NEW role \in Roles
  PROVE  /\ NewUser(username, hash, role) \in User
         /\ NewUser(username, hash, role).username = username
         /\ IsActiveAdmin(NewUser(username, hash, role)) <=> role = "ADMIN"
  BY DEF NewUser, User, IsActiveAdmin

\* What a start makes of the file has an administrator.
LEMMA WithAdminSound ==
  ASSUME NEW users, Sound(users)
  PROVE  /\ Sound(WithAdmin(users)) /\ HasAdmin(WithAdmin(users))
         /\ Len(users) <= Len(WithAdmin(users)) /\ Len(WithAdmin(users)) <= Len(users) + 1
         /\ \A i \in 1 .. Len(users) : WithAdmin(users)[i] = users[i]
<1> DEFINE admin == NewUser("admin", DefaultHash, "ADMIN")
<1>1. admin \in User /\ admin.username = "admin" /\ IsActiveAdmin(admin)
  BY NewUserType, DefaultAssumption DEF Roles
<1>2. users \in Seq(User) /\ Len(users) \in Nat /\ DOMAIN users = 1 .. Len(users)
  BY DEF Sound
<1>3. CASE HasAdmin(users)
  BY <1>2, <1>3 DEF WithAdmin
<1>4. CASE ~HasAdmin(users)
  <2>1. ~Named(users, "admin")
    BY <1>2, <1>4 DEF Sound, AdminFirst, HasAdmin, Named
  <2>2. WithAdmin(users) = Append(users, admin)
    BY <1>4 DEF WithAdmin
  <2> HIDE DEF admin
  <2> QED
    BY <1>1, <1>2, <2>1, <2>2, AppendSound
<1> QED
  BY <1>3, <1>4

-----------------------------------------------------------------------------
(* The invariant *)

\* Neither the table nor the file outgrows the array.
FitInv == Len(g_users) <= MAX_USERS /\ Len(users_file) <= MAX_USERS

\* Without a process there are no sessions and no save under way.
StoppedInv ==
  ~g_running => /\ g_users = << >>
                /\ g_db_mutex = NoConnection
                /\ session = [c \in Connections |-> NoSession]

\* The file of a running server has the first rows of the table.
OnFileInv ==
  g_running => /\ Len(users_file) <= Len(g_users)
               /\ \A i \in 1 .. Len(users_file) : users_file[i] = g_users[i]

AccountsInv ==
  /\ Sound(g_users) /\ Sound(users_file)
  /\ TypeOK /\ FitInv /\ StoppedInv /\ OnFileInv
  /\ AdminAvailable /\ SessionsMatchAccounts

\* A server that is down keeps no accounts in memory, which is sound.
LEMMA EmptySound == Sound(<< >>)
  BY DEF Sound, UniqueNames, AdminFirst

\* The files a first start finds satisfy the invariant.
LEMMA AccountsInit == Init => AccountsInv
<1> SUFFICES ASSUME Init PROVE AccountsInv
  OBVIOUS
<1>1. Sound(users_file) /\ Len(users_file) <= MAX_USERS
  BY FirstFilesAssumption DEF Init, Sound
<1>2. Sound(g_users) /\ Len(g_users) <= MAX_USERS
  BY EmptySound, LimitsAssumption DEF Init
<1>3. session \in [Connections -> Session \cup {NoSession}]
  BY DEF Init
<1>4. SessionsMatchAccounts
  BY DEF Init, SessionsMatchAccounts, NoSession
<1>5. TypeOK /\ FitInv
  <2>1. g_running \in BOOLEAN /\ g_db_mutex \in Connections \cup {NoConnection}
    BY DEF Init
  <2>2. starts \in 0 .. MaxStarts
    BY LimitsAssumption DEF Init
  <2>3. users_file \in Seq(User) /\ g_users \in Seq(User)
    BY <1>1, <1>2 DEF Sound
  <2> QED
    BY <1>1, <1>2, <1>3, <2>1, <2>2, <2>3 DEF TypeOK, FitInv
<1> QED
  BY <1>1, <1>2, <1>4, <1>5
     DEF Init, AccountsInv, StoppedInv, OnFileInv, AdminAvailable

\* What a start has of the file is sound, read or not.
LEMMA LoadedSound ==
  ASSUME AccountsInv, NEW loaded \in Loaded(users_file)
  PROVE  /\ Sound(loaded)
         /\ loaded = users_file \/ (loaded = << >> /\ LoadsMayFail)
         /\ HasAdmin(loaded) => WithAdmin(loaded) = users_file
<1>1. loaded = users_file \/ (loaded = << >> /\ LoadsMayFail)
  BY DEF Loaded
<1>2. Sound(loaded)
  BY <1>1, EmptySound DEF AccountsInv
<1>3. ~HasAdmin(<< >>)
  BY DEF HasAdmin
<1> QED
  BY <1>1, <1>2, <1>3 DEF WithAdmin

\* A start, with the administrator it may have to add, or that cannot go on.
LEMMA StartNext ==
  ASSUME AccountsInv, NEW loaded \in Loaded(users_file), Start(loaded)
  PROVE  AccountsInv'
<1> DEFINE file == WithAdmin(loaded)
<1>1. /\ Sound(file) /\ HasAdmin(file)
      /\ Len(loaded) <= Len(file) /\ Len(file) <= Len(loaded) + 1
  BY LoadedSound, WithAdminSound
<1>2. Len(loaded) \in Nat /\ Len(file) \in Nat
  BY <1>1, LoadedSound DEF Sound
<1>3. /\ g_users = << >> /\ g_db_mutex = NoConnection
      /\ session = [c \in Connections |-> NoSession]
      /\ UNCHANGED <<g_db_mutex, session>>
      /\ starts' \in 0 .. MaxStarts
  BY LimitsAssumption DEF Start, AccountsInv, StoppedInv, TypeOK
<1>4. SessionsMatchAccounts'
  BY <1>3 DEF SessionsMatchAccounts, NoSession
<1>5. session' \in [Connections -> Session \cup {NoSession}]
      /\ g_db_mutex' \in Connections \cup {NoConnection}
  BY <1>3 DEF AccountsInv, TypeOK
<1>6. CASE users_file' = file /\ g_users' = file /\ g_running' = TRUE /\ Len(file) <= MAX_USERS
  <2> HIDE DEF file
  <2> QED
    BY <1>1, <1>2, <1>3, <1>4, <1>5, <1>6
       DEF AccountsInv, Sound, TypeOK, FitInv, StoppedInv, OnFileInv, AdminAvailable
<1>7. CASE /\ UNCHANGED <<g_users, g_running>>
           /\ \/ UNCHANGED users_file
              \/ Len(loaded) < MAX_USERS /\ users_file' \in Torn(file)
  <2>1. Sound(users_file') /\ Len(users_file') <= MAX_USERS
    <3>1. CASE UNCHANGED users_file
      BY <3>1 DEF AccountsInv, FitInv
    <3>2. CASE Len(loaded) < MAX_USERS /\ users_file' \in Torn(file)
      <4>1. Sound(users_file') /\ Len(users_file') <= Len(file)
        BY <3>2, <1>1, TornSound
      <4>2. Len(users_file') \in Nat
        BY <4>1 DEF Sound
      <4> QED
        BY <3>2, <4>1, <4>2, <1>1, <1>2, LimitsAssumption
    <3> QED
      BY <3>1, <3>2, <1>7
  <2>2. ~g_running /\ g_running' = FALSE
    BY <1>7 DEF Start, AccountsInv, TypeOK
  <2> QED
    BY <1>3, <1>4, <1>5, <1>7, <2>1, <2>2
       DEF AccountsInv, Sound, TypeOK, FitInv, StoppedInv, OnFileInv, AdminAvailable
<1>8. HasAdmin(loaded) => file = users_file
  BY LoadedSound
<1> HIDE DEF file
<1>9. \/ users_file' = file /\ g_users' = file /\ g_running' = TRUE /\ Len(file) <= MAX_USERS
      \/ /\ UNCHANGED <<g_users, g_running>>
         /\ \/ UNCHANGED users_file
            \/ Len(loaded) < MAX_USERS /\ users_file' \in Torn(file)
  BY <1>8 DEF Start, file
<1> QED
  BY <1>6, <1>7, <1>9

\* A stop at any step, in the middle of a save too.
LEMMA StopNext ==
  ASSUME AccountsInv, Stop
  PROVE  AccountsInv'
<1>1. Sound(users_file') /\ Len(users_file') <= MAX_USERS
  <2>1. CASE users_file' = users_file
    BY <2>1 DEF AccountsInv, FitInv
  <2>2. CASE users_file' \in Torn(g_users)
    <3>1. Sound(users_file') /\ Len(users_file') <= Len(g_users)
      BY <2>2, TornSound DEF AccountsInv
    <3>2. Len(users_file') \in Nat /\ Len(g_users) \in Nat
      BY <3>1 DEF AccountsInv, Sound
    <3> QED
      BY <3>1, <3>2, LimitsAssumption DEF AccountsInv, FitInv
  <2> QED
    BY <2>1, <2>2 DEF Stop
<1>2. Sound(g_users') /\ Len(g_users') <= MAX_USERS
  BY EmptySound, LimitsAssumption DEF Stop
<1>3. SessionsMatchAccounts'
  BY DEF Stop, SessionsMatchAccounts, NoSession
<1> QED
  BY <1>1, <1>2, <1>3
     DEF Stop, AccountsInv, Sound, TypeOK, FitInv, StoppedInv, OnFileInv, AdminAvailable

\* A new row, of a customer or of an administrator.
LEMMA InsertNext ==
  ASSUME AccountsInv, NEW c \in Connections, NEW username \in Usernames, NEW hash \in Hashes,
         NEW role \in Roles, Insert(c, username, hash, role)
  PROVE  AccountsInv'
<1> DEFINE user == NewUser(username, hash, role)
<1>1. user \in User /\ user.username = username
  BY NewUserType
<1>2. HasAdmin(g_users) /\ Sound(g_users) /\ ~Named(g_users, user.username)
  BY <1>1 DEF Insert, AccountsInv, AdminAvailable
<1>3. g_users' = Append(g_users, user)
  BY DEF Insert
<1> HIDE DEF user
<1>4. Sound(g_users') /\ Len(g_users') = Len(g_users) + 1 /\ HasAdmin(g_users')
  BY <1>1, <1>2, <1>3, AppendSound
<1>5. /\ Len(g_users) \in Nat /\ DOMAIN g_users = 1 .. Len(g_users)
      /\ DOMAIN g_users' = 1 .. Len(g_users) + 1
      /\ Len(users_file) \in Nat
      /\ \A i \in 1 .. Len(g_users) : g_users'[i] = g_users[i]
  BY <1>2, <1>3, <1>4 DEF Sound, AccountsInv
<1>6. SessionsMatchAccounts'
  <2> SUFFICES ASSUME NEW d \in Connections, session[d].authenticated
               PROVE  \E i \in DOMAIN g_users' : /\ g_users'[i].username = session[d].username
                                                 /\ g_users'[i].role = session[d].role
                                                 /\ g_users'[i].active
    BY DEF Insert, SessionsMatchAccounts
  <2>1. PICK i \in DOMAIN g_users : /\ g_users[i].username = session[d].username
                                    /\ g_users[i].role = session[d].role
                                    /\ g_users[i].active
    BY DEF AccountsInv, SessionsMatchAccounts
  <2> QED
    BY <2>1, <1>5
<1>7. OnFileInv'
  BY <1>4, <1>5 DEF Insert, AccountsInv, OnFileInv
<1>8. FitInv' /\ TypeOK'
  BY <1>4, <1>5, LimitsAssumption DEF Insert, AccountsInv, FitInv, TypeOK, Sound
<1> QED
  BY <1>2, <1>4, <1>6, <1>7, <1>8 DEF Insert, AccountsInv, StoppedInv, AdminAvailable

\* The save of a new account, made or failed.
LEMMA SaveNext ==
  ASSUME AccountsInv, g_running, NEW c \in Connections, UsersSaved(c) \/ UsersNotSaved(c)
  PROVE  AccountsInv'
<1>1. CASE UsersSaved(c)
  <2>1. OnFileInv'
    BY <1>1 DEF UsersSaved, OnFileInv, AccountsInv, Sound
  <2> QED
    BY <1>1, <2>1
       DEF UsersSaved, AccountsInv, TypeOK, FitInv, StoppedInv, AdminAvailable,
           SessionsMatchAccounts
<1>2. CASE UsersNotSaved(c)
  BY <1>2 DEF UsersNotSaved, AccountsInv, TypeOK, FitInv, StoppedInv, OnFileInv,
              AdminAvailable, SessionsMatchAccounts
<1> QED
  BY <1>1, <1>2

\* A session that is opened is on the account whose row was found.
LEMMA SessionNext ==
  ASSUME AccountsInv, g_running, NEW c \in Connections, NEW username \in Usernames,
         NEW hash \in Hashes, NEW role \in Roles,
         Login(c, username, hash, role) \/ Logout(c)
  PROVE  AccountsInv'
<1> DEFINE opened == [authenticated |-> TRUE, role |-> role, username |-> username]
<1>1. /\ UNCHANGED <<g_users, users_file, g_db_mutex, g_running, starts>>
      /\ session' \in [Connections -> Session \cup {NoSession}]
  <2>1. CASE Logout(c)
    BY <2>1 DEF Logout, AccountsInv, TypeOK
  <2>2. CASE Login(c, username, hash, role)
    <3>1. opened \in Session
      BY DEF Session
    <3>2. session' = [session EXCEPT ![c] = opened]
      BY <2>2 DEF Login, OpenSession
    <3> HIDE DEF opened
    <3> QED
      BY <2>2, <3>1, <3>2 DEF Login, AccountsInv, TypeOK
  <2> QED
    BY <2>1, <2>2
<1>2. SessionsMatchAccounts'
  <2>1. CASE Logout(c)
    BY <2>1 DEF Logout, AccountsInv, TypeOK, SessionsMatchAccounts, NoSession
  <2>2. CASE Login(c, username, hash, role)
    <3>1. PICK i \in DOMAIN g_users : g_users[i] = NewUser(username, hash, role)
      BY <2>2 DEF Login
    <3>2. /\ g_users[i].username = username /\ g_users[i].role = role
          /\ g_users[i].active
      BY <3>1 DEF NewUser
    <3>3. session' = [session EXCEPT ![c] = opened]
      BY <2>2 DEF Login, OpenSession
    <3> QED
      BY <1>1, <3>2, <3>3 DEF AccountsInv, TypeOK, SessionsMatchAccounts
  <2> QED
    BY <2>1, <2>2
<1> QED
  BY <1>1, <1>2
     DEF AccountsInv, Sound, TypeOK, FitInv, StoppedInv, OnFileInv, AdminAvailable

\* Every action keeps the invariant.
LEMMA AccountsNext == AccountsInv /\ [Next]_vars => AccountsInv'
<1> SUFFICES ASSUME AccountsInv, [Next]_vars PROVE AccountsInv'
  OBVIOUS
<1>1. CASE UNCHANGED vars
  BY <1>1 DEF vars, AccountsInv, Sound, TypeOK, FitInv, StoppedInv, OnFileInv,
              AdminAvailable, SessionsMatchAccounts
<1>2. CASE \E loaded \in Loaded(users_file) : Start(loaded)
  BY <1>2, StartNext
<1>3. CASE Stop
  BY <1>3, StopNext
<1>4. ASSUME NEW c \in Connections, g_running, Request(c) PROVE AccountsInv'
  <2>1. CASE UsersSaved(c) \/ UsersNotSaved(c)
    BY <2>1, <1>4, SaveNext
  <2>2. CASE Logout(c)
    BY <2>2, <1>4, SessionNext, DefaultAssumption DEF Roles
  <2>3. ASSUME NEW username \in Usernames, NEW hash \in Hashes,
               Register(c, username, hash) \/ CreateAdmin(c, username, hash)
        PROVE  AccountsInv'
    BY <2>3, InsertNext DEF Register, CreateAdmin, Roles
  <2>4. ASSUME NEW username \in Usernames, NEW hash \in Hashes, NEW role \in Roles,
               Login(c, username, hash, role)
        PROVE  AccountsInv'
    BY <2>4, <1>4, SessionNext
  <2> QED
    BY <1>4, <2>1, <2>2, <2>3, <2>4 DEF Request
<1> QED
  BY <1>1, <1>2, <1>3, <1>4 DEF Next

\* Accounts in memory and on file stay well formed and fit the sessions, over any
\* number of starts, failed saves and saves a stop tears.
THEOREM AccountsInvariance == Spec => []AccountsInv
  BY AccountsInit, AccountsNext, PTL DEF Spec

\* Accounts, files and sessions keep their types through starts and stops.
THEOREM TypeCorrect == Spec => []TypeOK
<1>1. AccountsInv => TypeOK
  BY DEF AccountsInv
<1> QED
  BY <1>1, AccountsInvariance, PTL

-----------------------------------------------------------------------------
(* The properties *)

\* No two accounts ever share a name, in memory or on file: a start that has to
\* append "admin" without a look-up (lines 511-531) finds that name free in
\* whatever a torn save left.
THEOREM NamesAlwaysUnique == Spec => []UsernamesUnique
<1>1. AccountsInv => UsernamesUnique
  BY DEF AccountsInv, Sound, UsernamesUnique
<1> QED
  BY <1>1, AccountsInvariance, PTL

\* A server that is up always has an active administrator, in memory and on file.
THEOREM AdminAlwaysAvailable == Spec => []AdminAvailable
<1>1. AccountsInv => AdminAvailable
  BY DEF AccountsInv
<1> QED
  BY <1>1, AccountsInvariance, PTL

\* The role a session keeps from its login (line 672) is that of an account in
\* the table for as long as the session lasts.
THEOREM SessionsAlwaysMatch == Spec => []SessionsMatchAccounts
<1>1. AccountsInv => SessionsMatchAccounts
  BY DEF AccountsInv
<1> QED
  BY <1>1, AccountsInvariance, PTL

\* An account that reached the file stays there, unchanged and in its place,
\* unless a stop catches a save or a start cannot read the file.
THEOREM AccountsAlwaysDurable == Spec => AccountsDurable
<1> DEFINE Kept == IsPrefix(users_file, users_file') \/ (LoadsMayFail /\ Start(<< >>))
<1>1. ASSUME AccountsInv, [Next]_vars, g_running' \/ (g_running /\ g_db_mutex = NoConnection)
      PROVE  Kept
  <2>1. users_file \in Seq(User) /\ Len(users_file) \in Nat
    BY <1>1 DEF AccountsInv, Sound
  <2>2. ASSUME UNCHANGED users_file PROVE Kept
    BY <2>1, <2>2 DEF IsPrefix
  <2>3. ASSUME users_file' \in Seq(User), Len(users_file) <= Len(users_file'),
               \A i \in 1 .. Len(users_file) : users_file[i] = users_file'[i]
        PROVE  Kept
    <3>1. SubSeq(users_file, 1, Len(users_file)) = SubSeq(users_file', 1, Len(users_file))
      BY <2>1, <2>3
    <3> QED
      BY <2>3, <3>1 DEF IsPrefix
  <2> HIDE DEF Kept
  <2>4. ASSUME NEW loaded \in Loaded(users_file), Start(loaded) PROVE Kept
    <3>1. CASE loaded = << >> /\ LoadsMayFail
      BY <2>4, <3>1 DEF Kept
    <3>2. CASE loaded = users_file /\ users_file' = WithAdmin(users_file)
      <4>1. /\ Sound(users_file') /\ Len(users_file) <= Len(users_file')
            /\ \A i \in 1 .. Len(users_file) : users_file'[i] = users_file[i]
        BY <1>1, <3>2, WithAdminSound DEF AccountsInv
      <4> QED
        BY <4>1, <2>3 DEF Sound
    <3>3. CASE UNCHANGED g_running
      BY <1>1, <2>4, <3>3 DEF Start
    <3>4. CASE loaded = users_file /\ g_running' = TRUE
      <4>1. HasAdmin(users_file) => WithAdmin(users_file) = users_file
        BY DEF WithAdmin
      <4>2. users_file' = WithAdmin(users_file) \/ UNCHANGED g_running
        BY <2>4, <3>4, <4>1 DEF Start
      <4> QED
        BY <3>2, <3>3, <3>4, <4>2
    <3>5. loaded = users_file \/ (loaded = << >> /\ LoadsMayFail)
      BY <1>1, LoadedSound
    <3>6. g_running' = TRUE \/ UNCHANGED g_running
      BY <2>4 DEF Start
    <3> QED
      BY <3>1, <3>3, <3>4, <3>5, <3>6
  <2>5. CASE Stop
    BY <1>1, <2>2, <2>5 DEF Stop
  <2>6. ASSUME NEW c \in Connections, UsersSaved(c), g_running PROVE Kept
    BY <1>1, <2>3, <2>6 DEF UsersSaved, AccountsInv, Sound, OnFileInv
  <2>7. ASSUME NEW c \in Connections, Request(c), ~UsersSaved(c) PROVE Kept
    BY <2>2, <2>7 DEF Request, UsersNotSaved, Logout, Register, CreateAdmin, Insert, Login
  <2>8. CASE UNCHANGED vars
    BY <2>2, <2>8 DEF vars
  <2> QED
    BY <1>1, <2>4, <2>5, <2>6, <2>7, <2>8 DEF Next
<1>2. AccountsInv /\ [Next]_vars
        => [(g_running' \/ (g_running /\ g_db_mutex = NoConnection)) => Kept]_vars
  BY <1>1
<1> QED
  BY <1>2, AccountsInvariance, PTL DEF Spec, AccountsDurable


\* An active administrator that a running server did not know before comes from
\* CREATE_ADMIN, over a session whose account is an active administrator's: the
\* role in the session (lines 558-565, 1338) cannot outlive the one in the table.
THEOREM AdminsAlwaysMadeByAdmins == Spec => AdminsMadeByAdmins
<1> DEFINE Creator(c) ==
             /\ g_db_mutex' = c
             /\ session[c].authenticated
             /\ \E j \in DOMAIN g_users : /\ IsActiveAdmin(g_users[j])
                                          /\ g_users[j].username = session[c].username
           MadeByAdmin ==
             \A i \in DOMAIN g_users' :
               (g_running /\ IsActiveAdmin(g_users'[i]) /\ ~Named(g_users, g_users'[i].username))
                 => \E c \in Connections : Creator(c)
<1>1. ASSUME AccountsInv, Next PROVE MadeByAdmin
  <2> SUFFICES ASSUME NEW i \in DOMAIN g_users', g_running, IsActiveAdmin(g_users'[i]),
                      ~Named(g_users, g_users'[i].username)
               PROVE  \E c \in Connections : Creator(c)
    OBVIOUS
  <2>1. g_users \in Seq(User) /\ Len(g_users) \in Nat /\ DOMAIN g_users = 1 .. Len(g_users)
    BY <1>1 DEF AccountsInv, Sound
  <2>2. g_users' # g_users
    BY DEF Named
  <2>3. g_users' # << >>
    OBVIOUS
  <2>4. PICK c \in Connections : Request(c)
    BY <1>1, <2>3 DEF Next, Start, Stop
  <2>5. PICK username \in Usernames, hash \in Hashes :
          Register(c, username, hash) \/ CreateAdmin(c, username, hash)
    BY <2>2, <2>4 DEF Request, UsersSaved, UsersNotSaved, Logout, Login
  <2>6. PICK role \in Roles : /\ Insert(c, username, hash, role)
                              /\ role = "ADMIN" => CreateAdmin(c, username, hash)
    BY <2>5 DEF Register, CreateAdmin, Roles
  <2>7. g_users'[i] = NewUser(username, hash, role)
    <3>1. /\ DOMAIN g_users' = 1 .. Len(g_users) + 1
          /\ \A j \in 1 .. Len(g_users) : g_users'[j] = g_users[j]
          /\ g_users'[Len(g_users) + 1] = NewUser(username, hash, role)
      BY <2>1, <2>6, NewUserType DEF Insert
    <3>2. i \notin 1 .. Len(g_users)
      BY <2>1, <3>1 DEF Named
    <3> QED
      BY <2>1, <3>1, <3>2
  <2>8. CreateAdmin(c, username, hash)
    BY <2>6, <2>7, NewUserType
  <2>9. PICK j \in DOMAIN g_users : /\ g_users[j].username = session[c].username
                                    /\ g_users[j].role = session[c].role
                                    /\ g_users[j].active
    BY <1>1, <2>8 DEF CreateAdmin, AccountsInv, SessionsMatchAccounts
  <2> QED
    BY <2>6, <2>8, <2>9 DEF CreateAdmin, Insert, IsActiveAdmin
<1>2. AccountsInv /\ [Next]_vars => [MadeByAdmin]_vars
  BY <1>1
<1> QED
  BY <1>2, AccountsInvariance, PTL DEF Spec, AdminsMadeByAdmins
===============================================================================
