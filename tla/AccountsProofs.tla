--------------------------- MODULE AccountsProofs ---------------------------
(***************************************************************************)
(* Proofs about Accounts, for any number of processes and CPFs.            *)
(*                                                                         *)
(* That a process never lists two users with one CPF has two sources: the  *)
(* table it boots from (RowsCpfUnique), which is shared, and its own       *)
(* registrations (SavingIsNew), which are checked against its own list     *)
(* only.  The invariant needs both.                                        *)
(***************************************************************************)
EXTENDS Accounts, TLAPS

RowsCpfUnique == \A r, s \in rows : r.cpf = s.cpf => r = s

\* A user who is being registered has a CPF that is new to the process.
SavingIsNew ==
  \A p \in Process :
    pc[p] = "saving" => \A u \in users[p] : u.cpf # current[p].cpf

IInv == TypeOK /\ RowsCpfUnique /\ SavingIsNew /\ CpfUniqueInProcess

LEMMA InitIInv == Init => IInv
BY ClockAssumption, DbAssumption
   DEF Init, IInv, TypeOK, RowsCpfUnique, SavingIsNew, CpfUniqueInProcess

LEMMA Loaded == \A loaded \in LoadUsersFromDb : loaded \subseteq rows
BY DEF LoadUsersFromDb

\* The steps of one process, and what they leave to the others.
LEMMA TypeStep == TypeOK /\ [Next]_vars => TypeOK'
<1> SUFFICES ASSUME TypeOK, [Next]_vars PROVE TypeOK'
  OBVIOUS
<1>1. ASSUME NEW p \in Process, Boot(p) PROVE TypeOK'
  BY <1>1, Loaded DEF Boot, At, TypeOK, db
<1>2. ASSUME NEW p \in Process, NEW cpf \in Cpf, Login(p, cpf) PROVE TypeOK'
  BY <1>2 DEF Login, At, FindUserByCpf, TypeOK, db
<1>3. ASSUME NEW p \in Process, NEW cpf \in Cpf, NewUser(p, cpf) PROVE TypeOK'
  BY <1>3 DEF NewUser, At, TypeOK, db, User
<1>4. ASSUME NEW p \in Process, SaveUser(p) PROVE TypeOK'
  BY <1>4 DEF SaveUser, At, SaveUsersDb, TypeOK
<1>5. ASSUME NEW p \in Process, Logout(p) PROVE TypeOK'
  BY <1>5 DEF Logout, At, TypeOK, db
<1>6. ASSUME NEW p \in Process, Stop(p) PROVE TypeOK'
  BY <1>6 DEF Stop, TypeOK, db
<1>7. CASE DbGoesOrComes
  BY <1>7 DEF DbGoesOrComes, TypeOK
<1>8. CASE Tick
  BY <1>8, ClockAssumption DEF Tick, TypeOK, db, User
<1>9. CASE UNCHANGED vars
  BY <1>9 DEF vars, TypeOK
<1> QED BY <1>1, <1>2, <1>3, <1>4, <1>5, <1>6, <1>7, <1>8, <1>9 DEF Next

LEMMA StepIInv == IInv /\ [Next]_vars => IInv'
<1> SUFFICES ASSUME IInv, [Next]_vars PROVE IInv'
  OBVIOUS
<1> USE DEF IInv
<1>1. TypeOK'
  BY TypeStep
<1>2. RowsCpfUnique'
  <2>1. rows' = rows \/ \E p \in Process : SaveUser(p)
    BY DEF Next, vars, db, Boot, Login, NewUser, Logout, Stop, DbGoesOrComes, Tick
  <2>2. ASSUME NEW p \in Process, SaveUser(p) PROVE RowsCpfUnique'
    BY <2>2 DEF SaveUser, SaveUsersDb, RowFits, RowsCpfUnique
  <2>3. CASE rows' = rows
    BY <2>3 DEF RowsCpfUnique
  <2> QED BY <2>1, <2>2, <2>3
<1>3. SavingIsNew' /\ CpfUniqueInProcess'
  <2>1. ASSUME NEW p \in Process, Boot(p) PROVE SavingIsNew' /\ CpfUniqueInProcess'
    BY <2>1, Loaded DEF Boot, At, TypeOK, RowsCpfUnique, SavingIsNew, CpfUniqueInProcess
  <2>2. ASSUME NEW p \in Process, NEW cpf \in Cpf, Login(p, cpf)
        PROVE  SavingIsNew' /\ CpfUniqueInProcess'
    BY <2>2 DEF Login, At, TypeOK, SavingIsNew, CpfUniqueInProcess
  <2>3. ASSUME NEW p \in Process, NEW cpf \in Cpf, NewUser(p, cpf)
        PROVE  SavingIsNew' /\ CpfUniqueInProcess'
    BY <2>3 DEF NewUser, At, FindUserByCpf, TypeOK, SavingIsNew, CpfUniqueInProcess
  <2>4. ASSUME NEW p \in Process, SaveUser(p)
        PROVE  SavingIsNew' /\ CpfUniqueInProcess'
    BY <2>4 DEF SaveUser, At, TypeOK, SavingIsNew, CpfUniqueInProcess
  <2>5. ASSUME NEW p \in Process, Logout(p)
        PROVE  SavingIsNew' /\ CpfUniqueInProcess'
    BY <2>5 DEF Logout, At, TypeOK, SavingIsNew, CpfUniqueInProcess
  <2>6. ASSUME NEW p \in Process, Stop(p)
        PROVE  SavingIsNew' /\ CpfUniqueInProcess'
    BY <2>6 DEF Stop, TypeOK, SavingIsNew, CpfUniqueInProcess
  <2>7. CASE DbGoesOrComes \/ Tick \/ UNCHANGED vars
    BY <2>7 DEF DbGoesOrComes, Tick, vars, SavingIsNew, CpfUniqueInProcess
  <2> QED BY <2>1, <2>2, <2>3, <2>4, <2>5, <2>6, <2>7 DEF Next
<1> QED BY <1>1, <1>2, <1>3

LEMMA Invariance == Spec => []IInv
BY InitIInv, StepIInv, PTL DEF Spec

\* Processes, lists, sessions and the table are always well-typed, and a menu is
\* only ever shown to a user on the list of its process.
THEOREM AccountsTyped == Spec => []TypeOK
BY Invariance, PTL DEF IInv

\* Whatever the processes register at the same time, and whenever they are killed
\* or the database is down, no process ever lists two users with one CPF.
THEOREM CpfUnique == Spec => []CpfUniqueInProcess
BY Invariance, PTL DEF IInv

-----------------------------------------------------------------------------
(* What the table has of the lists                                         *)

\* Nothing leaves the table, and no outage is forgotten.
LEMMA TableGrows == [Next]_vars => rows \subseteq rows' /\ missed \subseteq missed'
<1> SUFFICES ASSUME [Next]_vars PROVE rows \subseteq rows' /\ missed \subseteq missed'
  OBVIOUS
<1>1. ASSUME NEW p \in Process, SaveUser(p)
      PROVE  rows \subseteq rows' /\ missed \subseteq missed'
  BY <1>1 DEF SaveUser, SaveUsersDb
<1>2. (\E p \in Process : SaveUser(p)) \/ UNCHANGED <<rows, missed>>
  BY DEF Next, vars, db, Boot, Login, NewUser, Logout, Stop, DbGoesOrComes, Tick
<1> QED BY <1>1, <1>2

LEMMA SavedStep == IInv /\ ListedIsSavedUnlessClash /\ [Next]_vars => ListedIsSavedUnlessClash'
<1> SUFFICES ASSUME IInv, ListedIsSavedUnlessClash, [Next]_vars,
                    NEW p \in Process, NEW u \in users'[p]
             PROVE  \/ u \in rows' \cup missed'
                    \/ u.cpf \in LongCpf
                    \/ \E r \in rows' : r.cpf = u.cpf \/ r.uuid = u.uuid
  BY DEF ListedIsSavedUnlessClash
<1> USE DEF IInv, TypeOK
<1>1. CASE u \in users[p]
  BY <1>1, TableGrows DEF ListedIsSavedUnlessClash
<1>2. CASE u \notin users[p]
  <2>1. ASSUME NEW q \in Process, Boot(q) PROVE u \in rows'
    BY <1>2, <2>1, Loaded DEF Boot, db
  <2>2. ASSUME NEW q \in Process, SaveUser(q)
        PROVE  \/ u \in rows' \cup missed'
               \/ u.cpf \in LongCpf
               \/ \E r \in rows' : r.cpf = u.cpf \/ r.uuid = u.uuid
    <3>1. u = current[q]
      BY <1>2, <2>2 DEF SaveUser
    <3>2. CASE ~ DbAnswers
      BY <2>2, <3>1, <3>2 DEF SaveUser
    <3>3. CASE DbAnswers /\ RowFits(u)
      BY <2>2, <3>1, <3>3 DEF SaveUser, SaveUsersDb
    <3>4. CASE DbAnswers /\ ~ RowFits(u)
      BY <2>2, <3>1, <3>4 DEF SaveUser, SaveUsersDb, RowFits
    <3> QED BY <3>2, <3>3, <3>4
  <2>3. ASSUME NEW q \in Process, Stop(q) PROVE FALSE
    BY <1>2, <2>3 DEF Stop
  <2>4. \/ \E q \in Process : Boot(q) \/ SaveUser(q) \/ Stop(q)
        \/ users' = users
    BY DEF Next, vars, db, Login, NewUser, Logout, DbGoesOrComes, Tick
  <2> QED BY <1>2, <2>1, <2>2, <2>3, <2>4
<1> QED BY <1>1, <1>2

\* An account on a list and not in the table was registered during an outage, has a
\* CPF that does not fit, or clashes with a row, for any processes, kills and outages.
THEOREM SavedUnlessClash == Spec => []ListedIsSavedUnlessClash
<1>1. Init => ListedIsSavedUnlessClash
  BY DEF Init, ListedIsSavedUnlessClash
<1> QED BY <1>1, SavedStep, Invariance, PTL DEF Spec
=============================================================================
