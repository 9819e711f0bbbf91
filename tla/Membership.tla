----------------------------- MODULE Membership -----------------------------
(***************************************************************************)
(* Banks and administration: what registration, approval, rejection,       *)
(* removal and a restart do to the user list, to the banks' client         *)
(* counters and to the users table (services/bank_actions.c,               *)
(* services/admin_actions.c, and the menus of cli/main.c that call them).  *)
(*                                                                         *)
(* One process.  A user is named by his CPF, which is unique on the list   *)
(* (Accounts).  A UUID is the second it was generated in.                  *)
(* Approve and Reject may come at any time: they are library calls, of     *)
(* which the CLI makes one, at registration.  The database always answers. *)
(***************************************************************************)
EXTENDS Integers, FiniteSets, SequencesExt

CONSTANTS
  Cpf,         \* the users
  LongCpf,     \* those whose CPF does not fit in VARCHAR(14); read_line admits 15
  Name,        \* their names
  NameOf,      \* the name each of them registers with
  Null,        \* the NULL pointer: no user, or a field left empty
  Uninit,      \* what an int that malloc returned may hold
  MaxBanks,    \* slots of g_banks, 10 in the code
  SeedAdmins,  \* UUIDs of administrators that something else put on the list
  MaxClock,    \* bound of the model: the last second of the clock
  MaxDeparted  \* bound of the model: clients a bank loses to removals

ASSUME UserAssumption == IsFiniteSet(Cpf) /\ Null \notin Cpf /\ NameOf \in [Cpf -> Name]
ASSUME CpfAssumption == LongCpf \subseteq Cpf
ASSUME BankAssumption == Uninit \subseteq Int /\ MaxBanks \in Nat \ {0}
ASSUME BoundAssumption == MaxClock \in Nat /\ MaxDeparted \in Nat
ASSUME AdminAssumption == SeedAdmins \subseteq 0 .. MaxClock

VARIABLES
  clock,     \* time(NULL)
  pc,        \* "auth", or the menu shown: "user" or "panel"
  list,      \* g_users, as the sequence of its users
  uuid,      \* Users.uuid
  bank,      \* Users.bank, a slot of g_banks, or NoBank
  banks,     \* g_bank_count
  qtd,       \* Bank.qtdClients
  admins,    \* the UUIDs on admin_list
  current,   \* g_current
  row,       \* the users table: the UUID it has for a CPF, or NoRow
  first,     \* history: what each counter held when its bank was created
  departed,  \* history: clients removed from the list, for each bank
  removed,   \* history: users removed since boot
  unloaded,  \* history: users of the table for whom boot had no memory
  seeded     \* history: admin_list was not empty at boot

members == <<list, uuid, bank, qtd, departed>>
vars == <<clock, pc, banks, admins, current, row, first, removed, unloaded, seeded, members>>

Second == 0 .. MaxClock
NoBank == 0
NoRow == -1
NoUuid == -1

Listed == Range(list)
Members(b) == {c \in Cpf : bank[c] = b}

-----------------------------------------------------------------------------
(* Boot                                                                    *)

Stored == {c \in Cpf : row[c] # NoRow}

\* What a user is known by after a boot; 0 for whom it did not bring back.
StoredUuid(users) == [c \in Cpf |-> IF c \in users THEN row[c] ELSE 0]

\* Mutant: the loop over the rows stops before the first one.
LoadUsersFromDbButOne ==
  \E left \in SUBSET Stored, c \in Stored :
    /\ list' \in SetToSeqs(Stored \ (left \cup {c}))
    /\ unloaded' = left

\* The rows come in an order that the server chooses, and are read from the last one
\* on; at the first calloc that fails, those that are left are left out.  The strdup calls
\* are taken to succeed.
LoadUsersFromDb ==
  \E left \in SUBSET Stored :
    /\ list' \in SetToSeqs(Stored \ left)
    /\ unloaded' = left

\* main starts with one bank, or none when malloc fails.  A slot of g_banks that is
\* not used yet has the counter that its bank will be created with.
Counters == [1 .. MaxBanks -> Uninit]

NoBanks == [c \in Cpf |-> NoBank]
NoneLeft == [b \in 1 .. MaxBanks |-> 0]

Init ==
  /\ clock = 0
  /\ row = [c \in Cpf |-> NoRow]
  /\ removed = {} /\ unloaded = {}
  /\ list = <<>>
  /\ uuid = StoredUuid({})
  /\ bank = NoBanks
  /\ banks \in {0, 1}
  /\ first \in Counters
  /\ qtd = first
  /\ departed = NoneLeft
  /\ admins \in {{}, SeedAdmins}
  /\ seeded = (admins # {})
  /\ pc = "auth"
  /\ current = Null

\* The process ends, at the authentication screen or because it is killed, and another
\* one starts.  Banks, memberships and administrators are in memory only.
Restart ==
  /\ LoadUsersFromDb
  /\ uuid' = StoredUuid(Range(list'))
  /\ removed' = {}
  /\ bank' = NoBanks
  /\ banks' \in {0, 1}
  /\ first' \in Counters
  /\ qtd' = first'
  /\ departed' = NoneLeft
  /\ admins' \in {{}, SeedAdmins}
  /\ seeded' = (admins' # {})
  /\ pc' = "auth"
  /\ current' = Null
  /\ UNCHANGED <<clock, row>>

Tick ==
  /\ clock < MaxClock
  /\ clock' = clock + 1
  /\ UNCHANGED <<pc, banks, admins, current, row, first, removed, unloaded, seeded, members>>

-----------------------------------------------------------------------------
(* Banks                                                                   *)

\* Mutant: a user who has a bank may be approved by another.
ApproveAnyone(b, c) ==
  /\ bank' = [bank EXCEPT ![c] = b]
  /\ qtd' = [qtd EXCEPT ![b] = @ + 1]

\* approve_user_account, for a user without a bank.
ApproveUserAccount(b, c) ==
  /\ bank[c] = NoBank
  /\ bank' = [bank EXCEPT ![c] = b]
  /\ qtd' = [qtd EXCEPT ![b] = @ + 1]

\* reject_user_account, for a user of the bank.
RejectUserAccount(b, c) ==
  /\ bank[c] = b
  /\ bank' = [bank EXCEPT ![c] = NoBank]
  /\ qtd' = [qtd EXCEPT ![b] = IF @ > 0 THEN @ - 1 ELSE @]

Approve(b, c) ==
  /\ c \in Listed
  /\ ApproveUserAccount(b, c)
  /\ UNCHANGED <<clock, pc, list, uuid, banks, admins, current, row, first, departed,
                 removed, unloaded, seeded>>

Reject(b, c) ==
  /\ c \in Listed
  /\ RejectUserAccount(b, c)
  /\ UNCHANGED <<clock, pc, list, uuid, banks, admins, current, row, first, departed,
                 removed, unloaded, seeded>>

-----------------------------------------------------------------------------
(* The authentication screen                                               *)

CpfIsNew(c) == c \notin Listed

\* Mutant: only the first user is ever saved.
SaveUsersDbOnce(c) ==
  row' = IF c \notin LongCpf /\ Stored = {} THEN [row EXCEPT ![c] = clock] ELSE row

\* The INSERT: nothing happens on a UUID that is taken, and it fails on a CPF that is
\* taken or too long.
SaveUsersDb(c) ==
  row' = IF c \notin LongCpf /\ row[c] = NoRow /\ \A d \in Cpf : row[d] # clock
           THEN [row EXCEPT ![c] = clock] ELSE row

\* A new user belongs to the first bank, if there is one.
Register(c) ==
  /\ pc = "auth"
  /\ CpfIsNew(c)
  /\ IF banks > 0 THEN ApproveUserAccount(1, c) ELSE UNCHANGED <<bank, qtd>>
  /\ uuid' = [uuid EXCEPT ![c] = clock]
  /\ SaveUsersDb(c)
  /\ list' = <<c>> \o list
  /\ current' = c
  /\ pc' = "user"
  /\ UNCHANGED <<clock, banks, admins, first, departed, removed, unloaded, seeded>>

\* Mutant: an empty list lets everyone pass.
VerifyAdminIfAny(id) == admins = {} \/ id \in admins

VerifyAdmin(id) == id \in admins

Login(c) ==
  /\ pc = "auth"
  /\ c \in Listed
  /\ current' = c
  /\ pc' = IF VerifyAdmin(uuid[c]) THEN "panel" ELSE "user"
  /\ UNCHANGED <<clock, banks, admins, row, first, removed, unloaded, seeded, members>>

\* Mutant: the session's user is not reset.
LogoutKeepsUser ==
  /\ pc # "auth"
  /\ pc' = "auth"
  /\ UNCHANGED <<clock, banks, admins, current, row, first, removed, unloaded, seeded, members>>

Logout ==
  /\ pc # "auth"
  /\ pc' = "auth"
  /\ current' = Null
  /\ UNCHANGED <<clock, banks, admins, row, first, removed, unloaded, seeded, members>>

-----------------------------------------------------------------------------
(* The administrator's panel                                               *)

CreateBank ==
  /\ pc = "panel"
  /\ banks < MaxBanks
  /\ banks' = banks + 1
  /\ UNCHANGED <<clock, pc, admins, current, row, first, removed, unloaded, seeded, members>>

\* A new administrator whose UUID is on the list is refused.
CreateAdmin ==
  /\ pc = "panel"
  /\ ~ VerifyAdmin(clock)
  /\ admins' = admins \cup {clock}
  /\ UNCHANGED <<clock, pc, banks, current, row, first, removed, unloaded, seeded, members>>

\* Where the panel finds the user: one of the two fields is enough.
Matches(name, id) ==
  {i \in DOMAIN list : NameOf[list[i]] = name \/ uuid[list[i]] = id}

\* delete_user.  The right to remove is read from the current user, who may be freed
\* memory: he may have removed himself.  Neither his bank nor the table is told.
DeleteUser(name, id) ==
  /\ pc = "panel"
  /\ current \in Listed => VerifyAdmin(uuid[current])
  /\ \E i \in Matches(name, id) :
       /\ \A j \in Matches(name, id) : i <= j
       /\ bank[list[i]] # NoBank => departed[bank[list[i]]] < MaxDeparted
       /\ list' = RemoveAt(list, i)
       /\ removed' = removed \cup {list[i]}
       /\ bank' = [bank EXCEPT ![list[i]] = NoBank]
       /\ uuid' = [uuid EXCEPT ![list[i]] = 0]
       /\ departed' = IF bank[list[i]] = NoBank THEN departed
                      ELSE [departed EXCEPT ![bank[list[i]]] = @ + 1]
  /\ UNCHANGED <<clock, pc, banks, qtd, admins, current, row, first, unloaded, seeded>>

Next ==
  \/ Restart
  \/ Tick
  \/ \E b \in 1 .. banks, c \in Cpf : Approve(b, c) \/ Reject(b, c)
  \/ \E c \in Cpf : Register(c) \/ Login(c)
  \/ Logout
  \/ CreateBank
  \/ CreateAdmin
  \/ \E name \in Name \cup {Null}, id \in Second \cup {NoUuid} : DeleteUser(name, id)

Spec == Init /\ [][Next]_vars

-----------------------------------------------------------------------------
(* Properties                                                              *)

\* The type invariant.  The user menu is shown to a listed user; the panel may go on
\* for an administrator who has removed himself.
TypeOK ==
  /\ clock \in Second
  /\ pc \in {"auth", "user", "panel"}
  /\ list \in Seq(Cpf)
  /\ uuid \in [Cpf -> Second]
  /\ banks \in 0 .. MaxBanks
  /\ bank \in [Cpf -> 0 .. banks]
  /\ first \in [1 .. MaxBanks -> Uninit]
  /\ qtd \in [1 .. MaxBanks -> Int]
  /\ departed \in [1 .. MaxBanks -> Nat]
  /\ admins \subseteq Second
  /\ seeded \in BOOLEAN
  /\ row \in [Cpf -> Second \cup {NoRow}]
  /\ removed \subseteq Cpf /\ unloaded \subseteq Cpf
  /\ CASE pc = "auth"  -> current = Null
       [] pc = "user"  -> current \in Listed
       [] pc = "panel" -> current \in Listed \cup removed

\* A bank's counter: what it held at the start, plus its clients, plus those who were
\* removed while they were clients, whom nobody subtracts.  create_bank leaves the
\* start to chance.  From a start below zero rejections may be lost, since they stop at
\* zero, and the counter only errs upwards; otherwise no rejection ever is.
CountFollowsMembers ==
  \A b \in 1 .. MaxBanks :
    LET due == first[b] + Cardinality(Members(b)) + departed[b]
    IN  /\ qtd[b] >= due
        /\ first[b] >= 0 => qtd[b] = due

\* Who has a row is somebody that find_user_by_cpf knows, or that an administrator
\* removed in this session, or for whom this boot had no memory.  For anybody else the
\* registration would not notice that the CPF is taken.
StoredIsListed == Stored \subseteq Listed \cup removed \cup unloaded

\* With a database that answers, a listed user has no row of his own in four cases only:
\* his CPF does not fit; another row had the UUID; his row stayed when he was removed in
\* this session, or was not read at boot, and he registered again under a new UUID.
ListedIsStored ==
  \A c \in Listed :
    \/ row[c] = uuid[c]
    \/ c \in LongCpf
    \/ \E d \in Cpf \ {c} : row[d] = uuid[c]
    \/ c \in removed \cup unloaded

\* Administrators come from administrators: with admin_list empty at boot, as main
\* leaves it, no login ever leads to the panel.
PanelNeedsSeed == (pc = "panel" \/ admins # {}) => seeded
=============================================================================
