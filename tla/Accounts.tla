------------------------------ MODULE Accounts ------------------------------
(***************************************************************************)
(* Accounts: how CLI processes register, load and log in users             *)
(* (cli/main.c), and the users table they share (db/).                     *)
(*                                                                         *)
(* A process loads the table once, at boot, into its own list; from then   *)
(* on it only adds its own registrations to the list, and writes each to   *)
(* the table.  Two processes may run at the same time, any of them may be  *)
(* killed at any moment, and the database may be down when it is needed.   *)
(*                                                                         *)
(* A user's UUID is the second in which he registered: generate_uuid       *)
(* seeds rand() with time(NULL), so the second decides every digit.  That  *)
(* two seconds give two UUIDs is taken for granted.  A login's password    *)
(* check is not modelled: a wrong password changes nothing.                *)
(***************************************************************************)
EXTENDS Naturals

CONSTANTS
  Process,       \* CLI processes on one database
  Cpf,           \* what a user may type as his CPF
  LongCpf,       \* those that do not fit in VARCHAR(14); read_line admits 15
  NoUser,        \* stands for the NULL pointer
  DbMayFail,     \* whether the database may be down or without its tables
  CallocMayFail, \* whether calloc may return NULL
  MaxClock       \* bound of the model: the last second of the clock

ASSUME CpfAssumption == LongCpf \subseteq Cpf
ASSUME ClockAssumption == MaxClock \in Nat
ASSUME DbAssumption == DbMayFail \in BOOLEAN
ASSUME CallocAssumption == CallocMayFail \in BOOLEAN

VARIABLES
  clock,    \* time(NULL)
  dbUp,     \* the database accepts connections, and has its tables
  rows,     \* the users table
  pc,       \* where each process is
  users,    \* g_users of each process
  current,  \* g_current of each process; while "saving", the new user
  missed    \* history: users registered while the database was down

db == <<dbUp, rows, missed>>
vars == <<clock, dbUp, rows, pc, users, current, missed>>

User == [uuid : 0 .. MaxClock, cpf : Cpf]

Init ==
  /\ clock = 0
  /\ dbUp = TRUE
  /\ rows = {}
  /\ pc = [p \in Process |-> "off"]
  /\ users = [p \in Process |-> {}]
  /\ current = [p \in Process |-> NoUser]
  /\ missed = {}

At(p, here, there) == pc[p] = here /\ pc' = [pc EXCEPT ![p] = there]

-----------------------------------------------------------------------------
(* The users table                                                         *)

\* try_connect_db succeeds and the query finds its table.
DbAnswers == dbUp

\* Mutant: the table does not keep a CPF unique.
RowFitsAnyCpf(u) ==
  /\ u.cpf \notin LongCpf
  /\ \A r \in rows : r.uuid # u.uuid

\* The INSERT adds the row.  On a UUID that is taken it does nothing, on a CPF that
\* is taken or too long it fails.
RowFits(u) ==
  /\ u.cpf \notin LongCpf
  /\ \A r \in rows : r.uuid # u.uuid /\ r.cpf # u.cpf

\* Mutant: only the first user is ever saved.
SaveUsersDbOnce(u) == rows' = IF DbAnswers /\ rows = {} THEN {u} ELSE rows

SaveUsersDb(u) == rows' = IF DbAnswers /\ RowFits(u) THEN rows \cup {u} ELSE rows

\* What a load may return.  The loop over the rows ends at the first calloc that fails;
\* the strdup calls are taken to succeed.
LoadUsersFromDb ==
  IF ~ DbAnswers THEN {{}} ELSE IF CallocMayFail THEN SUBSET rows ELSE {rows}

-----------------------------------------------------------------------------
(* A CLI process                                                           *)

Boot(p) ==
  /\ At(p, "off", "auth")
  /\ \E loaded \in LoadUsersFromDb : users' = [users EXCEPT ![p] = loaded]
  /\ UNCHANGED <<clock, db, current>>

FindUserByCpf(p, cpf) == {u \in users[p] : u.cpf = cpf}

Login(p, cpf) ==
  /\ At(p, "auth", "menu")
  /\ \E u \in FindUserByCpf(p, cpf) : current' = [current EXCEPT ![p] = u]
  /\ UNCHANGED <<clock, db, users>>

\* Registration, as far as new_user: the CPF is not on the list of the process.
NewUser(p, cpf) ==
  /\ At(p, "auth", "saving")
  /\ FindUserByCpf(p, cpf) = {}
  /\ current' = [current EXCEPT ![p] = [uuid |-> clock, cpf |-> cpf]]
  /\ UNCHANGED <<clock, db, users>>

\* Mutant: the new user is not put on the list.
SaveUserUnlisted(p) ==
  /\ At(p, "saving", "menu")
  /\ SaveUsersDb(current[p])
  /\ missed' = IF DbAnswers THEN missed ELSE missed \cup {current[p]}
  /\ UNCHANGED <<clock, dbUp, users, current>>

\* The rest of it.  The result of save_users_db is not looked at.
SaveUser(p) ==
  /\ At(p, "saving", "menu")
  /\ SaveUsersDb(current[p])
  /\ missed' = IF DbAnswers THEN missed ELSE missed \cup {current[p]}
  /\ users' = [users EXCEPT ![p] = @ \cup {current[p]}]
  /\ UNCHANGED <<clock, dbUp, current>>

Logout(p) ==
  /\ At(p, "menu", "auth")
  /\ current' = [current EXCEPT ![p] = NoUser]
  /\ UNCHANGED <<clock, db, users>>

\* The process ends, from the authentication screen or because it is killed.
Stop(p) ==
  /\ pc[p] # "off"
  /\ pc' = [pc EXCEPT ![p] = "off"]
  /\ users' = [users EXCEPT ![p] = {}]
  /\ current' = [current EXCEPT ![p] = NoUser]
  /\ UNCHANGED <<clock, db>>

-----------------------------------------------------------------------------
(* The world around                                                        *)

DbGoesOrComes ==
  /\ DbMayFail
  /\ dbUp' = ~ dbUp
  /\ UNCHANGED <<clock, rows, pc, users, current, missed>>

Tick ==
  /\ clock < MaxClock
  /\ clock' = clock + 1
  /\ UNCHANGED <<db, pc, users, current>>

Next ==
  \/ \E p \in Process :
       \/ Boot(p)
       \/ \E cpf \in Cpf : Login(p, cpf)
       \/ \E cpf \in Cpf : NewUser(p, cpf)
       \/ SaveUser(p)
       \/ Logout(p)
       \/ Stop(p)
  \/ DbGoesOrComes
  \/ Tick

Spec == Init /\ [][Next]_vars

-----------------------------------------------------------------------------
(* Properties                                                              *)

\* The type invariant.  A process has a current user exactly while it registers him
\* or shows him the menu, and the menu is shown to users on the list only.
TypeOK ==
  /\ clock \in 0 .. MaxClock
  /\ dbUp \in BOOLEAN
  /\ rows \subseteq User
  /\ pc \in [Process -> {"off", "auth", "saving", "menu"}]
  /\ users \in [Process -> SUBSET User]
  /\ current \in [Process -> User \cup {NoUser}]
  /\ missed \subseteq User
  /\ \A p \in Process :
       CASE pc[p] = "menu"   -> current[p] \in users[p]
         [] pc[p] = "saving" -> current[p] \in User
         [] OTHER            -> current[p] = NoUser

\* A CPF names one user at most to a process, whatever other processes have put in
\* the table before it booted: find_user_by_cpf has one answer, and so has a login.
CpfUniqueInProcess ==
  \A p \in Process : \A u, v \in users[p] : u.cpf = v.cpf => u = v

\* An account that a process shows and the table does not have was registered while
\* the database was down, has a CPF that does not fit, or clashes with a row: its CPF
\* or its UUID is another's.  No kill and no later registration loses one otherwise.
ListedIsSavedUnlessClash ==
  \A p \in Process : \A u \in users[p] :
    \/ u \in rows \cup missed
    \/ u.cpf \in LongCpf
    \/ \E r \in rows : r.cpf = u.cpf \/ r.uuid = u.uuid

\* test/test_exchange.c:109 names what generate_uuid is to give: two calls have
\* different results.  So no two users of a process share a UUID.
UuidsDiffer ==
  \A p \in Process : \A u, v \in users[p] : u.uuid = v.uuid => u = v

\* db/createTables_db.c:92 declares CPFs unique, and cli/main.c:563 refuses one that
\* is registered.  So a CPF is one account, whichever process is asked.
CpfIsOneAccount ==
  \A p, q \in Process : \A u \in users[p], v \in users[q] : u.cpf = v.cpf => u = v
=============================================================================
