-------------------------- MODULE MembershipProofs --------------------------
(***************************************************************************)
(* Proofs about Membership, for any users, names, banks and uninitialised  *)
(* counters.                                                               *)
(*                                                                         *)
(* The counter is settled by counting: each action moves one user into or  *)
(* out of Members(b) and the counter by one.  That the table agrees with   *)
(* the list needs StoredIsListed besides: who has a row and is not on the  *)
(* list was removed from it, or was not read at boot.                      *)
(***************************************************************************)
EXTENDS Membership, FiniteSetTheorems, FunctionTheorems, SequenceTheorems, TLAPS

-----------------------------------------------------------------------------
(* The list                                                                *)

LEMMA ListFacts ==
  ASSUME NEW s \in Seq(Cpf)
  PROVE  /\ Len(s) \in Nat /\ DOMAIN s = 1 .. Len(s)
         /\ \A i \in 1 .. Len(s) : s[i] \in Cpf
         /\ Range(s) \subseteq Cpf
<1>1. Len(s) \in Nat /\ DOMAIN s = 1 .. Len(s) /\ s \in [1 .. Len(s) -> Cpf]
  BY LenProperties
<1> QED BY <1>1 DEF Range

LEMMA Prepended ==
  ASSUME NEW s \in Seq(Cpf), NEW c \in Cpf
  PROVE  /\ <<c>> \o s \in Seq(Cpf)
         /\ Range(<<c>> \o s) = Range(s) \cup {c}
<1> DEFINE t == <<c>> \o s
<1>0. Len(s) \in Nat /\ DOMAIN s = 1 .. Len(s)
  BY ListFacts
<1>1. /\ t \in Seq(Cpf)
      /\ Len(t) = Len(s) + 1
      /\ \A i \in 1 .. Len(t) : t[i] = IF i = 1 THEN c ELSE s[i - 1]
  BY <1>0
<1>2. DOMAIN t = 1 .. Len(s) + 1
  BY <1>0, <1>1
<1>3. Range(t) = Range(s) \cup {c}
  <2>1. t[1] = c /\ \A i \in 1 .. Len(s) : i + 1 \in DOMAIN t /\ t[i + 1] = s[i]
    BY <1>0, <1>1, <1>2
  <2>2. \A i \in DOMAIN t : i = 1 \/ (i - 1 \in DOMAIN s /\ t[i] = s[i - 1])
    BY <1>0, <1>1, <1>2
  <2>3. Range(s) \cup {c} \subseteq Range(t)
    <3>1. \A i \in DOMAIN s : s[i] \in Range(t)
      BY <1>0, <2>1 DEF Range
    <3>2. c \in Range(t)
      BY <1>0, <1>2, <2>1 DEF Range
    <3> QED BY <3>1, <3>2 DEF Range
  <2>4. Range(t) \subseteq Range(s) \cup {c}
    BY <2>1, <2>2 DEF Range
  <2> QED BY <2>3, <2>4
<1> QED BY <1>1, <1>3

LEMMA RemovedAt ==
  ASSUME NEW s \in Seq(Cpf), NEW i \in DOMAIN s
  PROVE  /\ RemoveAt(s, i) \in Seq(Cpf)
         /\ Range(RemoveAt(s, i)) \subseteq Range(s)
         /\ Range(s) \subseteq Range(RemoveAt(s, i)) \cup {s[i]}
<1> DEFINE t == RemoveAt(s, i)
<1>0. Len(s) \in Nat /\ DOMAIN s = 1 .. Len(s) /\ i \in 1 .. Len(s)
  BY ListFacts
<1>1. /\ t \in Seq(Cpf)
      /\ Len(t) = Len(s) - 1
      /\ \A k \in 1 .. Len(s) - 1 : t[k] = IF k < i THEN s[k] ELSE s[k + 1]
  <2> DEFINE a == SubSeq(s, 1, i - 1)
             b == SubSeq(s, i + 1, Len(s))
  <2>1. a \in Seq(Cpf) /\ Len(a) = i - 1 /\ \A k \in 1 .. i - 1 : a[k] = s[k]
    BY <1>0, ListFacts
  <2>2. /\ b \in Seq(Cpf) /\ Len(b) = Len(s) - i
        /\ \A k \in 1 .. Len(s) - i : b[k] = s[k + i]
    BY <1>0, ListFacts
  <2>3. /\ a \o b \in Seq(Cpf) /\ Len(a \o b) = Len(a) + Len(b)
        /\ \A k \in 1 .. Len(a) + Len(b) :
             (a \o b)[k] = IF k <= Len(a) THEN a[k] ELSE b[k - Len(a)]
    <3> HIDE DEF a, b
    <3> QED BY <2>1, <2>2, ConcatProperties
  <2>4. t = a \o b
    BY DEF RemoveAt
  <2> HIDE DEF a, b, t
  <2>5. Len(a) + Len(b) = Len(s) - 1 /\ Len(a) = i - 1
    BY <1>0, <2>1, <2>2
  <2>6. ASSUME NEW k \in 1 .. Len(s) - 1
        PROVE  t[k] = IF k < i THEN s[k] ELSE s[k + 1]
    <3>1. t[k] = IF k <= i - 1 THEN a[k] ELSE b[k - (i - 1)]
      BY <2>3, <2>4, <2>5
    <3>2. CASE k < i
      BY <1>0, <2>1, <3>1, <3>2
    <3>3. CASE k >= i
      <4>1. k - (i - 1) \in 1 .. Len(s) - i /\ (k - (i - 1)) + i = k + 1
        BY <1>0, <3>3
      <4>2. b[k - (i - 1)] = s[(k - (i - 1)) + i]
        BY <2>2, <4>1
      <4> QED BY <1>0, <3>1, <3>3, <4>1, <4>2
    <3> QED BY <1>0, <3>2, <3>3
  <2> QED BY <2>3, <2>4, <2>5, <2>6
<1>2. DOMAIN t = 1 .. Len(s) - 1
  BY <1>0, <1>1
<1>3. Range(t) \subseteq Range(s)
  <2>1. \A k \in DOMAIN t : k \in DOMAIN s /\ k + 1 \in DOMAIN s
    BY <1>0, <1>2
  <2> QED BY <1>1, <1>2, <2>1 DEF Range
<1>4. Range(s) \subseteq Range(t) \cup {s[i]}
  <2>1. \A k \in DOMAIN s : k < i => k \in DOMAIN t /\ t[k] = s[k]
    BY <1>0, <1>1, <1>2
  <2>2. \A k \in DOMAIN s : k > i => k - 1 \in DOMAIN t /\ t[k - 1] = s[k]
    BY <1>0, <1>1, <1>2
  <2>3. \A k \in DOMAIN s : k < i \/ k > i \/ k = i
    BY <1>0
  <2> QED BY <2>1, <2>2, <2>3 DEF Range
<1> QED BY <1>1, <1>3, <1>4

\* A boot's list has each user once that it takes from the table.
LEMMA Ordered ==
  ASSUME NEW S \in SUBSET Cpf, NEW s \in SetToSeqs(S)
  PROVE  /\ s \in Seq(Cpf)
         /\ Range(s) = S
<1> DEFINE n == Cardinality(S)
<1>1. IsFiniteSet(S) /\ n \in Nat
  BY UserAssumption, FS_Subset, FS_CardinalityType
<1>2. s \in [1 .. n -> S] /\ \A i, j \in 1 .. n : i # j => s[i] # s[j]
  BY DEF SetToSeqs
<1>3. s \in Seq(Cpf)
  <2>1. s \in [1 .. n -> Cpf] /\ DOMAIN s = 1 .. n
    BY <1>2
  <2> QED BY <1>1, <1>2, <2>1, SeqDef
<1>4. s \in Injection(1 .. n, S)
  BY <1>2 DEF Injection, IsInjective
<1>5. Cardinality(1 .. n) = n
  BY <1>1, FS_Interval
<1>6. s \in Surjection(1 .. n, S)
  BY <1>1, <1>4, <1>5, FS_Injection
<1>7. Range(s) = S
  BY <1>2, <1>6 DEF Surjection, Range
<1> QED BY <1>3, <1>7

\* What a boot makes of the table.
LEMMA Loaded ==
  ASSUME LoadUsersFromDb
  PROVE  /\ list' \in Seq(Cpf)
         /\ unloaded' \subseteq Cpf /\ Listed' \subseteq Stored
         /\ Stored \subseteq Listed' \cup unloaded'
<1>1. PICK left \in SUBSET Stored : list' \in SetToSeqs(Stored \ left) /\ unloaded' = left
  BY DEF LoadUsersFromDb
<1>2. Stored \ left \in SUBSET Cpf /\ left \subseteq Cpf
  BY DEF Stored
<1>3. list' \in Seq(Cpf) /\ Range(list') = Stored \ left
  BY <1>1, <1>2, Ordered
<1> QED BY <1>1, <1>2, <1>3 DEF Listed

-----------------------------------------------------------------------------
(* Counting the members of a bank                                          *)

In(f, b) == {c \in Cpf : f[c] = b}

LEMMA InFinite ==
  ASSUME NEW f, NEW b
  PROVE  IsFiniteSet(In(f, b)) /\ Cardinality(In(f, b)) \in Nat
BY UserAssumption, FS_Subset, FS_CardinalityType DEF In

\* A user without a bank joins one.
LEMMA Joined ==
  ASSUME NEW f \in [Cpf -> Nat], NEW c \in Cpf, f[c] = NoBank, NEW b \in Nat \ {NoBank}
  PROVE  LET g == [f EXCEPT ![c] = b]
         IN  /\ Cardinality(In(g, b)) = Cardinality(In(f, b)) + 1
             /\ \A d \in Nat \ {NoBank, b} : In(g, d) = In(f, d)
<1> DEFINE g == [f EXCEPT ![c] = b]
<1>1. In(g, b) = In(f, b) \cup {c} /\ c \notin In(f, b)
  BY DEF In, NoBank
<1>2. Cardinality(In(g, b)) = Cardinality(In(f, b)) + 1
  BY <1>1, InFinite, FS_AddElement
<1>3. \A d \in Nat \ {NoBank, b} : In(g, d) = In(f, d)
  BY DEF In
<1> QED BY <1>2, <1>3

\* A user leaves his bank, if he has one.
LEMMA Left ==
  ASSUME NEW f \in [Cpf -> Nat], NEW c \in Cpf
  PROVE  LET g == [f EXCEPT ![c] = NoBank]
         IN  \A d \in Nat \ {NoBank} :
               Cardinality(In(g, d))
                 = IF d = f[c] THEN Cardinality(In(f, d)) - 1 ELSE Cardinality(In(f, d))
<1> DEFINE g == [f EXCEPT ![c] = NoBank]
<1> SUFFICES ASSUME NEW d \in Nat \ {NoBank}
             PROVE  Cardinality(In(g, d))
                      = IF d = f[c] THEN Cardinality(In(f, d)) - 1
                        ELSE Cardinality(In(f, d))
  OBVIOUS
<1>1. CASE d = f[c]
  <2>1. In(g, d) = In(f, d) \ {c} /\ c \in In(f, d)
    BY <1>1 DEF In
  <2> QED BY <1>1, <2>1, InFinite, FS_RemoveElement
<1>2. CASE d # f[c]
  <2>1. In(g, d) = In(f, d)
    BY <1>2 DEF In
  <2> QED BY <1>2, <2>1
<1> QED BY <1>1, <1>2

-----------------------------------------------------------------------------
(* Types                                                                   *)

\* What an action leaves alone is well-typed if it was.
LEMMA TypeStep == TypeOK /\ [Next]_vars => TypeOK'
<1> SUFFICES ASSUME TypeOK, [Next]_vars PROVE TypeOK'
  OBVIOUS
<1> USE BankAssumption, BoundAssumption, AdminAssumption
<1>0. NoRow \notin Second /\ Null \notin Cpf /\ 0 \in Second /\ Listed \subseteq Cpf
  BY UserAssumption, ListFacts DEF NoRow, Second, TypeOK, Listed
<1>1. CASE Restart
  <2>1. list' \in Seq(Cpf) /\ unloaded' \subseteq Cpf
    BY <1>1, Loaded DEF Restart
  <2>2. uuid' \in [Cpf -> Second]
    <3>1. Range(list') \subseteq Stored
      BY <1>1, Loaded DEF Restart, Listed
    <3>2. \A c \in Range(list') : c \in Cpf => row[c] \in Second
      BY <3>1 DEF Stored, TypeOK
    <3> QED BY <1>0, <1>1, <3>2 DEF Restart, StoredUuid
  <2>3. /\ bank' \in [Cpf -> 0 .. banks'] /\ banks' \in 0 .. MaxBanks
        /\ departed' \in [1 .. MaxBanks -> Nat]
    BY <1>1 DEF Restart, NoBanks, NoneLeft, NoBank
  <2>4. first' \in [1 .. MaxBanks -> Uninit] /\ qtd' \in [1 .. MaxBanks -> Int]
    BY <1>1 DEF Restart, Counters
  <2>5. admins' \subseteq Second /\ seeded' \in BOOLEAN
    BY <1>1 DEF Restart, Second
  <2>6. /\ clock' = clock /\ row' = row /\ removed' = {}
        /\ pc' = "auth" /\ current' = Null
    BY <1>1 DEF Restart
  <2> QED BY <2>1, <2>2, <2>3, <2>4, <2>5, <2>6 DEF TypeOK
<1>2. CASE Tick
  <2>1. clock' \in Second
    BY <1>2 DEF Tick, TypeOK, Second
  <2> QED BY <1>2, <2>1 DEF Tick, TypeOK, members, Listed
<1>3. ASSUME NEW b \in 1 .. banks, NEW c \in Cpf, Approve(b, c) PROVE TypeOK'
  <2>1. bank' \in [Cpf -> 0 .. banks] /\ qtd' \in [1 .. MaxBanks -> Int]
    BY <1>3 DEF Approve, ApproveUserAccount, TypeOK
  <2> QED BY <1>3, <2>1 DEF Approve, TypeOK, Listed
<1>4. ASSUME NEW b \in 1 .. banks, NEW c \in Cpf, Reject(b, c) PROVE TypeOK'
  <2>1. bank' \in [Cpf -> 0 .. banks]
    BY <1>4 DEF Reject, RejectUserAccount, TypeOK, NoBank
  <2>2. qtd' \in [1 .. MaxBanks -> Int]
    <3>1. b \in 1 .. MaxBanks /\ qtd[b] \in Int
      BY <1>4 DEF TypeOK
    <3> DEFINE left == IF qtd[b] > 0 THEN qtd[b] - 1 ELSE qtd[b]
    <3>2. left \in Int /\ qtd' = [qtd EXCEPT ![b] = left]
      BY <1>4, <3>1 DEF Reject, RejectUserAccount
    <3> QED BY <3>1, <3>2 DEF TypeOK
  <2> QED BY <1>4, <2>1, <2>2 DEF Reject, TypeOK, Listed
<1>5. ASSUME NEW c \in Cpf, Register(c) PROVE TypeOK'
  <2>1. bank' \in [Cpf -> 0 .. banks] /\ qtd' \in [1 .. MaxBanks -> Int]
    <3>1. CASE banks = 0
      BY <1>5, <3>1 DEF Register, TypeOK
    <3>2. CASE banks > 0
      <4>1. ApproveUserAccount(1, c)
        BY <1>5, <3>2 DEF Register
      <4>2. 1 \in 0 .. banks /\ 1 \in 1 .. MaxBanks /\ qtd[1] + 1 \in Int
        <5>1. banks \in 0 .. MaxBanks /\ MaxBanks \in Nat /\ qtd \in [1 .. MaxBanks -> Int]
          BY DEF TypeOK
        <5>2. 1 \in 0 .. banks /\ 1 \in 1 .. MaxBanks
          BY <3>2, <5>1
        <5> QED BY <5>1, <5>2
      <4> QED BY <4>1, <4>2 DEF ApproveUserAccount, TypeOK
    <3> QED BY <3>1, <3>2 DEF TypeOK
  <2>2. list' \in Seq(Cpf) /\ c \in Range(list')
    BY <1>5, Prepended DEF Register, TypeOK
  <2>3. uuid' \in [Cpf -> Second] /\ row' \in [Cpf -> Second \cup {NoRow}]
    BY <1>5 DEF Register, SaveUsersDb, TypeOK
  <2> QED BY <1>5, <2>1, <2>2, <2>3 DEF Register, TypeOK, Listed
<1>6. ASSUME NEW c \in Cpf, Login(c) PROVE TypeOK'
  BY <1>6 DEF Login, TypeOK, members, Listed
<1>7. CASE Logout
  BY <1>7 DEF Logout, TypeOK, members
<1>8. CASE CreateBank
  BY <1>8 DEF CreateBank, TypeOK, members, Listed
<1>9. CASE CreateAdmin
  BY <1>9 DEF CreateAdmin, TypeOK, members, Listed
<1>10. ASSUME NEW name \in Name \cup {Null}, NEW id \in Second \cup {NoUuid},
              DeleteUser(name, id)
       PROVE  TypeOK'
  <2>1. PICK i \in Matches(name, id) :
          /\ list' = RemoveAt(list, i)
          /\ removed' = removed \cup {list[i]}
          /\ bank' = [bank EXCEPT ![list[i]] = NoBank]
          /\ uuid' = [uuid EXCEPT ![list[i]] = 0]
          /\ departed' = IF bank[list[i]] = NoBank THEN departed
                         ELSE [departed EXCEPT ![bank[list[i]]] = @ + 1]
    BY <1>10 DEF DeleteUser
  <2>2. i \in DOMAIN list /\ list[i] \in Cpf
    BY <2>1, ListFacts DEF Matches, TypeOK
  <2>3. list' \in Seq(Cpf) /\ Range(list) \subseteq Range(list') \cup {list[i]}
    BY <2>1, <2>2, RemovedAt DEF TypeOK
  <2>4. bank' \in [Cpf -> 0 .. banks] /\ uuid' \in [Cpf -> Second]
    BY <1>0, <2>1, <2>2 DEF TypeOK, NoBank
  <2>5. departed' \in [1 .. MaxBanks -> Nat]
    <3> DEFINE k == bank[list[i]]
    <3>1. k = NoBank \/ (k \in 1 .. MaxBanks /\ departed[k] + 1 \in Nat)
      BY <2>2 DEF TypeOK, NoBank
    <3>2. departed' = IF k = NoBank THEN departed
                      ELSE [departed EXCEPT ![k] = departed[k] + 1]
      BY <2>1
    <3> QED BY <3>1, <3>2 DEF TypeOK
  <2>6. pc = "panel" /\ current' \in Range(list') \cup removed'
    BY <1>10, <2>1, <2>3 DEF DeleteUser, TypeOK, Listed
  <2> QED BY <1>10, <2>1, <2>2, <2>3, <2>4, <2>5, <2>6 DEF DeleteUser, TypeOK, Listed
<1>11. CASE UNCHANGED vars
  BY <1>11 DEF vars, members, TypeOK, Listed
<1> QED BY <1>1, <1>2, <1>3, <1>4, <1>5, <1>6, <1>7, <1>8, <1>9, <1>10, <1>11 DEF Next

-----------------------------------------------------------------------------
(* The inductive invariant                                                 *)

IInv ==
  /\ TypeOK
  /\ CountFollowsMembers
  /\ StoredIsListed
  /\ ListedIsStored
  /\ PanelNeedsSeed

\* One bank's counter: what CountFollowsMembers says of it.
Settled(q, start, n, gone) ==
  q >= start + n + gone /\ (start >= 0 => q = start + n + gone)

LEMMA CountIsSettled ==
  CountFollowsMembers
    <=> \A b \in 1 .. MaxBanks :
          Settled(qtd[b], first[b], Cardinality(In(bank, b)), departed[b])
BY DEF CountFollowsMembers, Settled, Members, In

LEMMA CountIsSettledNext ==
  CountFollowsMembers'
    <=> \A b \in 1 .. MaxBanks :
          Settled(qtd'[b], first'[b], Cardinality(In(bank', b)), departed'[b])
BY DEF CountFollowsMembers, Settled, Members, In

\* The start of a process: nobody is a member, nobody has gone.
LEMMA NobodyJoined ==
  ASSUME NEW f \in [1 .. MaxBanks -> Uninit], NEW b \in 1 .. MaxBanks
  PROVE  Settled(f[b], f[b], Cardinality(In(NoBanks, b)), NoneLeft[b])
<1>1. In(NoBanks, b) = {}
  BY DEF In, NoBanks, NoBank
<1>2. Cardinality(In(NoBanks, b)) = 0 /\ f[b] \in Int
  BY <1>1, FS_EmptySet, BankAssumption
<1> QED BY <1>2 DEF Settled, NoneLeft

LEMMA InitIInv == Init => IInv
<1> SUFFICES ASSUME Init PROVE IInv
  OBVIOUS
<1> USE BankAssumption, BoundAssumption, AdminAssumption DEF Init
<1>1. list = <<>> /\ DOMAIN list = {} /\ Listed = {}
  BY DEF Listed, Range
<1>2. TypeOK
  <2>1. /\ clock \in Second /\ uuid \in [Cpf -> Second]
        /\ row \in [Cpf -> Second \cup {NoRow}]
    BY DEF Second, StoredUuid
  <2>2. banks \in 0 .. MaxBanks /\ bank \in [Cpf -> 0 .. banks]
    BY DEF NoBanks, NoBank
  <2>3. /\ first \in [1 .. MaxBanks -> Uninit] /\ qtd \in [1 .. MaxBanks -> Int]
        /\ departed \in [1 .. MaxBanks -> Nat]
    BY DEF Counters, NoneLeft
  <2>4. admins \subseteq Second /\ seeded \in BOOLEAN
    BY DEF Second
  <2>5. removed \subseteq Cpf /\ unloaded \subseteq Cpf /\ list \in Seq(Cpf) /\ pc = "auth" /\ current = Null
    OBVIOUS
  <2> QED BY <2>1, <2>2, <2>3, <2>4, <2>5 DEF TypeOK
<1>3. CountFollowsMembers
  BY NobodyJoined, CountIsSettled DEF Counters
<1>4. StoredIsListed /\ ListedIsStored /\ PanelNeedsSeed
  BY <1>1 DEF Stored, StoredIsListed, ListedIsStored, PanelNeedsSeed
<1> QED BY <1>2, <1>3, <1>4 DEF IInv

\* A restart makes a new list of the table and new counters of the heap.
LEMMA RestartStep == IInv /\ Restart => IInv'
<1> SUFFICES ASSUME IInv, Restart PROVE IInv'
  OBVIOUS
<1>1. TypeOK'
  BY TypeStep DEF IInv, Next
<1>2. /\ Listed' \subseteq Stored /\ Stored \subseteq Listed' \cup unloaded'
      /\ row' = row
  BY Loaded DEF Restart
<1>3. CountFollowsMembers'
  BY NobodyJoined, CountIsSettledNext DEF Restart, Counters
<1>4. StoredIsListed' /\ ListedIsStored'
  <2>1. \A c \in Listed' : row'[c] = uuid'[c]
    BY <1>2 DEF Restart, StoredUuid, Stored, Listed
  <2>2. Stored' = Stored
    BY <1>2 DEF Stored
  <2> QED BY <1>2, <2>1, <2>2 DEF StoredIsListed, ListedIsStored
<1>5. PanelNeedsSeed'
  BY DEF Restart, PanelNeedsSeed
<1> QED BY <1>1, <1>2, <1>3, <1>4, <1>5 DEF IInv

\* Steps of the session and of the clock touch neither the list nor a counter.
LEMMA SessionStep ==
  ASSUME IInv, [Next]_vars, UNCHANGED <<row, first, removed, unloaded, members>>, PanelNeedsSeed'
  PROVE  IInv'
<1>1. TypeOK'
  BY TypeStep DEF IInv
<1>2. CountFollowsMembers'
  BY CountIsSettled, CountIsSettledNext DEF IInv, members
<1>3. StoredIsListed' /\ ListedIsStored'
  BY DEF IInv, members, Stored, StoredIsListed, ListedIsStored, Listed
<1> QED BY <1>1, <1>2, <1>3 DEF IInv

\* Approval: one member and one count more, at one bank.
LEMMA ApprovedCount ==
  ASSUME IInv, NEW b \in 1 .. banks, NEW c \in Cpf, ApproveUserAccount(b, c),
         UNCHANGED <<first, departed>>
  PROVE  CountFollowsMembers'
<1>1. b \in 1 .. MaxBanks /\ b \in Nat \ {NoBank} /\ bank \in [Cpf -> Nat]
  BY BankAssumption DEF IInv, TypeOK, NoBank
<1>2. /\ Cardinality(In(bank', b)) = Cardinality(In(bank, b)) + 1
      /\ \A d \in Nat \ {NoBank, b} : In(bank', d) = In(bank, d)
  BY <1>1, Joined DEF ApproveUserAccount
<1> SUFFICES ASSUME NEW d \in 1 .. MaxBanks
             PROVE  Settled(qtd'[d], first'[d], Cardinality(In(bank', d)), departed'[d])
  BY CountIsSettledNext
<1>3. Settled(qtd[d], first[d], Cardinality(In(bank, d)), departed[d])
  BY CountIsSettled DEF IInv
<1>4. /\ qtd[d] \in Int /\ first[d] \in Int /\ departed[d] \in Int
      /\ Cardinality(In(bank, d)) \in Nat
  BY BankAssumption, InFinite DEF IInv, TypeOK
<1>5. CASE d = b
  <2>1. qtd'[d] = qtd[d] + 1
    BY <1>1, <1>5 DEF ApproveUserAccount, IInv, TypeOK
  <2> QED BY <1>2, <1>3, <1>4, <1>5, <2>1 DEF Settled
<1>6. CASE d # b
  <2>1. qtd'[d] = qtd[d] /\ d \in Nat \ {NoBank, b}
    BY <1>6 DEF ApproveUserAccount, IInv, TypeOK, NoBank
  <2> QED BY <1>2, <1>3, <2>1
<1> QED BY <1>5, <1>6

LEMMA ApproveStep ==
  ASSUME IInv, NEW b \in 1 .. banks, NEW c \in Cpf, Approve(b, c)
  PROVE  IInv'
<1>1. TypeOK'
  BY TypeStep DEF IInv, Next
<1>2. CountFollowsMembers'
  BY ApprovedCount DEF Approve
<1>3. StoredIsListed' /\ ListedIsStored' /\ PanelNeedsSeed'
  BY DEF Approve, IInv, Stored, StoredIsListed, ListedIsStored, Listed, PanelNeedsSeed
<1> QED BY <1>1, <1>2, <1>3 DEF IInv

\* Rejection: one member fewer; the counter follows unless it had started below zero.
LEMMA RejectStep ==
  ASSUME IInv, NEW b \in 1 .. banks, NEW c \in Cpf, Reject(b, c)
  PROVE  IInv'
<1>1. TypeOK'
  BY TypeStep DEF IInv, Next
<1>2. CountFollowsMembers'
  <2>1. b \in 1 .. MaxBanks /\ bank \in [Cpf -> Nat] /\ bank[c] = b
    BY BankAssumption DEF IInv, TypeOK, Reject, RejectUserAccount
  <2>2. \A d \in Nat \ {NoBank} :
          Cardinality(In(bank', d))
            = IF d = b THEN Cardinality(In(bank, d)) - 1 ELSE Cardinality(In(bank, d))
    <3>1. bank' = [bank EXCEPT ![c] = NoBank]
      BY DEF Reject, RejectUserAccount
    <3> QED BY <2>1, <3>1, Left
  <2> SUFFICES ASSUME NEW d \in 1 .. MaxBanks
               PROVE  Settled(qtd'[d], first'[d], Cardinality(In(bank', d)), departed'[d])
    BY CountIsSettledNext
  <2>3. /\ Settled(qtd[d], first[d], Cardinality(In(bank, d)), departed[d])
        /\ first' = first /\ departed' = departed /\ d \in Nat \ {NoBank}
    BY CountIsSettled DEF IInv, Reject, NoBank
  <2>4. /\ qtd[d] \in Int /\ first[d] \in Int /\ departed[d] \in Nat
        /\ Cardinality(In(bank, d)) \in Nat
    BY BankAssumption, InFinite DEF IInv, TypeOK
  <2>5. CASE d = b
    <3>1. qtd'[d] = IF qtd[d] > 0 THEN qtd[d] - 1 ELSE qtd[d]
      BY <2>1, <2>5 DEF Reject, RejectUserAccount, IInv, TypeOK
    <3>2. Cardinality(In(bank, d)) > 0
      <4>1. c \in In(bank, d)
        BY <2>1, <2>5 DEF In
      <4> QED BY <4>1, <2>4, InFinite, FS_EmptySet
    <3>3. Cardinality(In(bank', d)) = Cardinality(In(bank, d)) - 1
      BY <2>2, <2>3, <2>5
    <3> QED BY <2>3, <2>4, <3>1, <3>2, <3>3 DEF Settled
  <2>6. CASE d # b
    <3>1. qtd'[d] = qtd[d]
      BY <2>1, <2>6 DEF Reject, RejectUserAccount, IInv, TypeOK
    <3> QED BY <2>2, <2>3, <2>6, <3>1
  <2> QED BY <2>5, <2>6
<1>3. StoredIsListed' /\ ListedIsStored' /\ PanelNeedsSeed'
  BY DEF Reject, IInv, Stored, StoredIsListed, ListedIsStored, Listed, PanelNeedsSeed
<1> QED BY <1>1, <1>2, <1>3 DEF IInv

\* Registration: a new head of the list, and a row unless the table refuses it.
LEMMA RegisterStep ==
  ASSUME IInv, NEW c \in Cpf, Register(c)
  PROVE  IInv'
<1>1. TypeOK'
  BY TypeStep DEF IInv, Next
<1>2. CountFollowsMembers'
  <2>1. CASE banks > 0
    <3>1. 1 \in 1 .. banks /\ ApproveUserAccount(1, c)
      BY <2>1 DEF Register, IInv, TypeOK
    <3> QED BY <3>1, ApprovedCount DEF Register
  <2>2. CASE ~ (banks > 0)
    BY <2>2, CountIsSettled, CountIsSettledNext DEF Register, IInv
  <2> QED BY <2>1, <2>2
<1>3. /\ list \in Seq(Cpf) /\ c \notin Listed
      /\ uuid \in [Cpf -> Second] /\ row \in [Cpf -> Second \cup {NoRow}]
      /\ clock \in Second /\ NoRow \notin Second
  BY BoundAssumption DEF IInv, TypeOK, Register, CpfIsNew, Second, NoRow
<1>4. Listed' = Listed \cup {c}
  BY <1>3, Prepended DEF Register, Listed
<1>5. /\ row' \in [Cpf -> Second \cup {NoRow}]
      /\ \A d \in Cpf : row[d] # NoRow => row'[d] = row[d]
      /\ \A d \in Cpf \ {c} : row'[d] = row[d]
  BY <1>3 DEF Register, SaveUsersDb
<1>6. StoredIsListed'
  <2>1. Stored' \subseteq Stored \cup {c}
    BY <1>5 DEF Stored
  <2> QED BY <1>4, <2>1 DEF IInv, StoredIsListed, Register
<1>7. ListedIsStored'
  <2> SUFFICES ASSUME NEW e \in Listed'
               PROVE  \/ row'[e] = uuid'[e]
                      \/ e \in LongCpf
                      \/ \E d \in Cpf \ {e} : row'[d] = uuid'[e]
                      \/ e \in removed' \cup unloaded'
    BY DEF ListedIsStored
  <2>1. removed' = removed /\ unloaded' = unloaded /\ uuid' = [uuid EXCEPT ![c] = clock]
        /\ Listed \subseteq Cpf
    BY <1>3, ListFacts DEF Register, Listed
  <2>2. CASE e = c
    <3>1. uuid'[e] = clock
      BY <1>3, <2>1, <2>2
    <3>2. CASE row[c] # NoRow
      BY <1>3, <2>1, <2>2, <3>2 DEF IInv, Stored, StoredIsListed
    <3>3. CASE c \notin LongCpf /\ row[c] = NoRow /\ \A d \in Cpf : row[d] # clock
      BY <1>3, <2>2, <3>1, <3>3 DEF Register, SaveUsersDb
    <3>4. CASE row[c] = NoRow /\ \E d \in Cpf : row[d] = clock
      <4>1. PICK d \in Cpf : row[d] = clock
        BY <3>4
      <4>2. d # c /\ row'[d] = row[d]
        BY <1>3, <1>5, <3>4, <4>1
      <4> QED BY <2>2, <3>1, <4>1, <4>2
    <3> QED BY <2>2, <3>2, <3>3, <3>4
  <2>3. CASE e # c
    <3>1. e \in Listed /\ uuid'[e] = uuid[e] /\ row'[e] = row[e] /\ uuid[e] \in Second
      BY <1>3, <1>4, <1>5, <2>1, <2>3
    <3>2. \A d \in Cpf : row[d] = uuid[e] => row'[d] = row[d]
      BY <1>3, <1>5, <3>1
    <3> QED BY <2>1, <3>1, <3>2 DEF IInv, ListedIsStored
  <2> QED BY <2>2, <2>3
<1>8. PanelNeedsSeed'
  BY DEF Register, IInv, PanelNeedsSeed
<1> QED BY <1>1, <1>2, <1>4, <1>6, <1>7, <1>8 DEF IInv

\* Removal: the user leaves the list and his bank's members, the counter does not hear
\* of it, and his row stays.
LEMMA DeleteStep ==
  ASSUME IInv, NEW name \in Name \cup {Null}, NEW id \in Second \cup {NoUuid},
         DeleteUser(name, id)
  PROVE  IInv'
<1>1. TypeOK'
  BY TypeStep DEF IInv, Next
<1>2. PICK i \in Matches(name, id) :
        /\ list' = RemoveAt(list, i)
        /\ removed' = removed \cup {list[i]}
        /\ bank' = [bank EXCEPT ![list[i]] = NoBank]
        /\ uuid' = [uuid EXCEPT ![list[i]] = 0]
        /\ departed' = IF bank[list[i]] = NoBank THEN departed
                       ELSE [departed EXCEPT ![bank[list[i]]] = @ + 1]
  BY DEF DeleteUser
<1> DEFINE c == list[i]
<1>3. /\ i \in DOMAIN list /\ c \in Cpf /\ list \in Seq(Cpf)
      /\ bank \in [Cpf -> 0 .. MaxBanks] /\ bank \in [Cpf -> Nat]
  <2>1. list \in Seq(Cpf) /\ i \in DOMAIN list
    BY <1>2 DEF Matches, IInv, TypeOK
  <2>2. bank \in [Cpf -> 0 .. banks] /\ banks \in 0 .. MaxBanks /\ MaxBanks \in Nat
    BY BankAssumption DEF IInv, TypeOK
  <2> QED BY <2>1, <2>2, ListFacts
<1>4. Listed' \subseteq Listed /\ Listed \subseteq Listed' \cup {c}
  BY <1>2, <1>3, RemovedAt DEF IInv, Listed
<1>5. CountFollowsMembers'
  <2>1. \A d \in Nat \ {NoBank} :
          Cardinality(In(bank', d))
            = IF d = bank[c] THEN Cardinality(In(bank, d)) - 1
              ELSE Cardinality(In(bank, d))
    BY <1>2, <1>3, Left
  <2> SUFFICES ASSUME NEW d \in 1 .. MaxBanks
               PROVE  Settled(qtd'[d], first'[d], Cardinality(In(bank', d)), departed'[d])
    BY CountIsSettledNext
  <2>2. /\ Settled(qtd[d], first[d], Cardinality(In(bank, d)), departed[d])
        /\ first' = first /\ qtd' = qtd /\ d \in Nat \ {NoBank} /\ d # NoBank
    BY CountIsSettled DEF IInv, DeleteUser, NoBank
  <2>3. /\ qtd[d] \in Int /\ first[d] \in Int /\ departed[d] \in Nat
        /\ Cardinality(In(bank, d)) \in Nat
        /\ departed \in [1 .. MaxBanks -> Nat]
    BY BankAssumption, InFinite DEF IInv, TypeOK
  <2>4. CASE d = bank[c]
    <3>1. departed' = [departed EXCEPT ![d] = departed[d] + 1]
      BY <1>2, <2>2, <2>4
    <3>2. departed'[d] = departed[d] + 1
      BY <2>3, <3>1
    <3>3. Cardinality(In(bank', d)) = Cardinality(In(bank, d)) - 1
      BY <2>1, <2>2, <2>4
    <3> QED BY <2>2, <2>3, <3>2, <3>3 DEF Settled
  <2>5. CASE d # bank[c]
    <3>1. departed'[d] = departed[d]
      BY <1>2, <2>3, <2>5
    <3> QED BY <2>1, <2>2, <2>5, <3>1
  <2> QED BY <2>4, <2>5
<1>6. StoredIsListed'
  BY <1>2, <1>4 DEF IInv, Stored, StoredIsListed, DeleteUser
<1>7. ListedIsStored'
  <2>1. \A e \in Listed' : e \in Listed /\ (e \in removed' \/ uuid'[e] = uuid[e])
    <3>1. Listed \subseteq Cpf /\ uuid \in [Cpf -> Second]
      BY <1>3, ListFacts DEF Listed, IInv, TypeOK
    <3> QED BY <1>2, <1>4, <3>1
  <2>2. row' = row /\ removed \subseteq removed' /\ unloaded' = unloaded
    BY <1>2 DEF DeleteUser
  <2> QED BY <2>1, <2>2 DEF IInv, ListedIsStored
<1>8. PanelNeedsSeed'
  BY DEF DeleteUser, IInv, PanelNeedsSeed
<1> QED BY <1>1, <1>4, <1>5, <1>6, <1>7, <1>8 DEF IInv

LEMMA StepIInv == IInv /\ [Next]_vars => IInv'
<1> SUFFICES ASSUME IInv, [Next]_vars PROVE IInv'
  OBVIOUS
<1>1. CASE Restart
  BY <1>1, RestartStep
<1>2. CASE Tick
  BY <1>2, SessionStep DEF Tick, IInv, PanelNeedsSeed, members
<1>3. ASSUME NEW b \in 1 .. banks, NEW c \in Cpf, Approve(b, c) PROVE IInv'
  BY <1>3, ApproveStep
<1>4. ASSUME NEW b \in 1 .. banks, NEW c \in Cpf, Reject(b, c) PROVE IInv'
  BY <1>4, RejectStep
<1>5. ASSUME NEW c \in Cpf, Register(c) PROVE IInv'
  BY <1>5, RegisterStep
<1>6. ASSUME NEW c \in Cpf, Login(c) PROVE IInv'
  BY <1>6, SessionStep DEF Login, VerifyAdmin, IInv, PanelNeedsSeed, members
<1>7. CASE Logout
  BY <1>7, SessionStep DEF Logout, IInv, PanelNeedsSeed, members
<1>8. CASE CreateBank
  BY <1>8, SessionStep DEF CreateBank, IInv, PanelNeedsSeed, members
<1>9. CASE CreateAdmin
  BY <1>9, SessionStep DEF CreateAdmin, IInv, PanelNeedsSeed, members
<1>10. ASSUME NEW name \in Name \cup {Null}, NEW id \in Second \cup {NoUuid},
              DeleteUser(name, id)
       PROVE  IInv'
  BY <1>10, DeleteStep
<1>11. CASE UNCHANGED vars
  BY <1>11, SessionStep DEF vars, IInv, PanelNeedsSeed, members
<1> QED BY <1>1, <1>2, <1>3, <1>4, <1>5, <1>6, <1>7, <1>8, <1>9, <1>10, <1>11 DEF Next

LEMMA Invariance == Spec => []IInv
BY InitIInv, StepIInv, PTL DEF Spec

-----------------------------------------------------------------------------
(* What it gives                                                           *)

\* Types, and whom each menu is shown to: the user menu to somebody on the list.
THEOREM MembershipTyped == Spec => []TypeOK
BY Invariance, PTL DEF IInv

\* Who has a row is on the list, or was removed in this session, or was not read at boot.
THEOREM StoredListed == Spec => []StoredIsListed
BY Invariance, PTL DEF IInv

\* A counter is off its members by what it started with and by whom removals took, and
\* upwards only; from a start that is not negative no rejection is lost.
THEOREM CounterSettled == Spec => []CountFollowsMembers
BY Invariance, PTL DEF IInv

\* With a database that answers, the list and the table part only on a CPF that does not
\* fit, on a UUID taken, and on a user whose row outlived a removal or a boot that did not
\* read it.
THEOREM ListStored == Spec => []ListedIsStored
BY Invariance, PTL DEF IInv

\* Without an administrator at boot the panel is out of reach for ever.
THEOREM PanelUnreachable == Spec => []PanelNeedsSeed
BY Invariance, PTL DEF IInv
=============================================================================
