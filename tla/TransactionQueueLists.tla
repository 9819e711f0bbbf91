----------------------- MODULE TransactionQueueLists -----------------------
(***************************************************************************)
(* Lemmas on the linked lists of TransactionQueue, for every `next'        *)
(* function and every set of nodes: a pointer starts at most one list, and *)
(* what linking a node at the end, taking the head off or unlinking a node *)
(* does to a list.  They carry the proofs of TransactionQueueProofs.       *)
(***************************************************************************)
EXTENDS TransactionQueue, Arithmetic, FunctionTheorems, SequenceTheorems

\* The members of a sequence, and what injectivity means for it.
LEMMA SeqRange ==
  ASSUME NEW s \in Seq(Node)
  PROVE  /\ Len(s) \in Nat
         /\ DOMAIN s = 1 .. Len(s)
         /\ \A i \in 1 .. Len(s) : s[i] \in Node
         /\ Range(s) = {s[i] : i \in 1 .. Len(s)}
         /\ Range(s) \subseteq Node
         /\ IsInjective(s) <=>
              \A i, j \in 1 .. Len(s) : s[i] = s[j] => i = j
         /\ s # <<>> <=> Len(s) >= 1
         /\ Last(s) = s[Len(s)]
<1>1. Len(s) \in Nat /\ DOMAIN s = 1 .. Len(s) /\ s \in [1 .. Len(s) -> Node]
  BY LenProperties
<1>2. s # <<>> <=> Len(s) >= 1
  BY <1>1, EmptySeq
<1> QED BY <1>1, <1>2 DEF Range, IsInjective, Last

\* Two lists from one pointer agree as far as both go.
LEMMA ChainsAgree ==
  ASSUME NEW next, NEW p, NEW s \in Seq(Node), NEW t \in Seq(Node),
         IsChain(next, p, s), IsChain(next, p, t)
  PROVE  \A i \in 1 .. Len(s) : i <= Len(t) => s[i] = t[i]
<1> DEFINE D == {i \in 1 .. Len(s) : i <= Len(t) /\ s[i] # t[i]}
<1>0. Len(s) \in Nat /\ Len(t) \in Nat
  BY SeqRange
<1>1. SUFFICES ASSUME D # {} PROVE FALSE
  BY <1>0
<1>2. PICK i \in D : \A j \in D : i <= j
  <2>1. D \subseteq Nat
    BY <1>0
  <2> QED BY <1>1, <2>1, LeastNatural
<1>3. i \in 1 .. Len(s) /\ i <= Len(t) /\ s[i] # t[i]
  BY <1>2
<1>4. s # <<>> /\ t # <<>>
  BY <1>0, <1>3, SeqRange
<1>5. CASE i = 1
  <2>1. p = s[1] /\ p = t[1]
    BY <1>4 DEF IsChain
  <2> QED BY <2>1, <1>3, <1>5
<1>6. CASE i > 1
  <2>1. i - 1 \in 1 .. Len(s) /\ i - 1 \in 1 .. Len(t) /\ i \in 1 .. Len(t)
    BY <1>0, <1>3, <1>6
  <2>2. s[i-1] = t[i-1]
    BY <1>0, <1>2, <2>1, <1>6
  <2>3. i - 1 # Len(s) /\ i - 1 # Len(t) /\ (i - 1) + 1 = i
    BY <1>0, <1>3
  <2>4. next[s[i-1]] = s[i]
    <3>1. next[s[i-1]] = IF i - 1 = Len(s) THEN NULL ELSE s[(i-1) + 1]
      BY <2>1 DEF IsChain
    <3> QED BY <3>1, <2>3
  <2>5. next[t[i-1]] = t[i]
    <3>1. next[t[i-1]] = IF i - 1 = Len(t) THEN NULL ELSE t[(i-1) + 1]
      BY <2>1 DEF IsChain
    <3> QED BY <3>1, <2>3
  <2> QED BY <2>2, <2>4, <2>5, <1>3
<1> QED BY <1>0, <1>3, <1>5, <1>6

\* None of them ends before the other.
LEMMA ChainNotShorter ==
  ASSUME NEW next, NEW p, NEW s \in Seq(Node), NEW t \in Seq(Node),
         IsChain(next, p, s), IsChain(next, p, t)
  PROVE  Len(s) >= Len(t)
<1>0. Len(s) \in Nat /\ Len(t) \in Nat
  BY SeqRange
<1>1. SUFFICES ASSUME Len(s) < Len(t) PROVE FALSE
  BY <1>0
<1>2. t # <<>> /\ t[1] \in Node /\ t[Len(s) + 1] \in Node
  BY <1>0, <1>1, SeqRange
<1>3. CASE s = <<>>
  BY <1>2, <1>3, NodeAssumption DEF IsChain
<1>4. CASE s # <<>>
  <2>1. Len(s) \in 1 .. Len(s) /\ Len(s) \in 1 .. Len(t) /\ Len(s) # Len(t)
    BY <1>0, <1>1, <1>4, SeqRange
  <2>2. s[Len(s)] = t[Len(s)]
    BY <1>0, <2>1, ChainsAgree
  <2>3. next[s[Len(s)]] = NULL /\ next[t[Len(s)]] = t[Len(s) + 1]
    BY <2>1 DEF IsChain
  <2> QED BY <2>2, <2>3, <1>2, NodeAssumption
<1> QED BY <1>3, <1>4

\* A pointer starts at most one list.
LEMMA ChainUnique ==
  ASSUME NEW next, NEW p, NEW s \in Seq(Node), NEW t \in Seq(Node),
         IsChain(next, p, s), IsChain(next, p, t)
  PROVE  s = t
<1>0. Len(s) \in Nat /\ Len(t) \in Nat
  BY SeqRange
<1>1. Len(s) >= Len(t) /\ Len(t) >= Len(s)
  BY ChainNotShorter
<1>2. Len(s) = Len(t)
  BY <1>0, <1>1
<1>3. \A i \in 1 .. Len(s) : i <= Len(t) => s[i] = t[i]
  BY ChainsAgree
<1>4. \A i \in 1 .. Len(s) : s[i] = t[i]
  BY <1>0, <1>2, <1>3
<1> QED BY <1>2, <1>4, SeqEqual

\* A sequence of different nodes is one of the sequences ChainFrom looks through.
LEMMA DistinctIsShort ==
  ASSUME NEW s \in Seq(Node), IsInjective(s)
  PROVE  s \in NodeSeq
<1>1. Len(s) \in Nat /\ s \in [1 .. Len(s) -> Node]
  BY LenProperties
<1>2. s \in Injection(1 .. Len(s), Node)
  BY <1>1, SeqRange, Fun_IsInj
<1>3. Cardinality(1 .. Len(s)) <= Cardinality(Node)
  BY <1>2, NodeAssumption, FS_Injection
<1>4. Cardinality(1 .. Len(s)) = Len(s) /\ Cardinality(Node) \in Nat
  <2>1. Cardinality(1 .. Len(s)) = IF 1 > Len(s) THEN 0 ELSE Len(s) - 1 + 1
    BY <1>1, FS_Interval
  <2>2. Cardinality(Node) \in Nat
    BY FS_CardinalityType, NodeAssumption
  <2> QED BY <1>1, <2>1, <2>2
<1>5. Len(s) \in 0 .. Cardinality(Node)
  BY <1>1, <1>3, <1>4
<1> QED BY <1>1, <1>5 DEF NodeSeq, SeqOf

-----------------------------------------------------------------------------
(* What the operations do to a sequence: members and order                 *)

LEMMA RemoveAtProperties ==
  ASSUME NEW S, NEW s \in Seq(S), NEW i \in 1 .. Len(s)
  PROVE  /\ RemoveAt(s, i) \in Seq(S)
         /\ Len(RemoveAt(s, i)) = Len(s) - 1
         /\ \A j \in 1 .. Len(s) - 1 :
              RemoveAt(s, i)[j] = IF j < i THEN s[j] ELSE s[j+1]
<1> DEFINE u == SubSeq(s, 1, i-1)
           v == SubSeq(s, i+1, Len(s))
<1>0. Len(s) \in Nat /\ i \in Nat /\ i >= 1 /\ i <= Len(s)
  BY LenProperties
<1>1. /\ u \in Seq(S) /\ Len(u) = i - 1
      /\ \A j \in 1 .. i-1 : u[j] = s[j]
  <2>1. \A j \in 1 .. i-1 : s[j] \in S
    BY <1>0, ElementOfSeq
  <2>2. /\ u \in Seq(S)
        /\ Len(u) = IF 1 <= i-1 THEN (i-1)-1+1 ELSE 0
        /\ \A j \in 1 .. (i-1)-1+1 : u[j] = s[1+j-1]
    BY <1>0, <2>1, SubSeqProperties
  <2> QED BY <1>0, <2>2
<1>2. /\ v \in Seq(S) /\ Len(v) = Len(s) - i
      /\ \A j \in 1 .. Len(s) - i : v[j] = s[i+j]
  <2>1. \A j \in i+1 .. Len(s) : s[j] \in S
    BY <1>0, ElementOfSeq
  <2>2. /\ v \in Seq(S)
        /\ Len(v) = IF i+1 <= Len(s) THEN Len(s)-(i+1)+1 ELSE 0
        /\ \A j \in 1 .. Len(s)-(i+1)+1 : v[j] = s[(i+1)+j-1]
    BY <1>0, <2>1, SubSeqProperties
  <2> QED BY <1>0, <2>2
<1>4. RemoveAt(s, i) = u \o v
  BY DEF RemoveAt
<1> HIDE DEF u, v
<1>3. /\ u \o v \in Seq(S)
      /\ Len(u \o v) = Len(u) + Len(v)
      /\ \A j \in 1 .. Len(u) + Len(v) :
           (u \o v)[j] = IF j <= Len(u) THEN u[j] ELSE v[j - Len(u)]
  BY <1>1, <1>2, ConcatProperties
<1>5. Len(u) + Len(v) = Len(s) - 1
  BY <1>0, <1>1, <1>2
<1>6. ASSUME NEW j \in 1 .. Len(s) - 1
      PROVE  (u \o v)[j] = IF j < i THEN s[j] ELSE s[j+1]
  <2>1. (u \o v)[j] = IF j <= i - 1 THEN u[j] ELSE v[j - (i-1)]
    BY <1>1, <1>3, <1>5
  <2>2. CASE j < i
    BY <2>1, <2>2, <1>0, <1>1
  <2>3. CASE j >= i
    <3>1. j - (i-1) \in 1 .. Len(s) - i /\ i + (j - (i-1)) = j + 1
      BY <2>3, <1>0
    <3>2. v[j - (i-1)] = s[i + (j - (i-1))]
      BY <3>1, <1>2
    <3> QED BY <2>1, <2>3, <3>1, <3>2, <1>0
  <2>4. j < i \/ j >= i
    BY <1>0
  <2> QED BY <2>2, <2>3, <2>4
<1> QED BY <1>3, <1>4, <1>5, <1>6

LEMMA AppendMembers ==
  ASSUME NEW s \in Seq(Node), NEW n \in Node
  PROVE  /\ Append(s, n) \in Seq(Node)
         /\ Range(Append(s, n)) = Range(s) \cup {n}
         /\ IsInjective(s) /\ n \notin Range(s) => IsInjective(Append(s, n))
         /\ Last(Append(s, n)) = n
<1> DEFINE a == Append(s, n)
<1>1. /\ a \in Seq(Node) /\ Len(a) = Len(s) + 1
      /\ \A i \in 1 .. Len(s) : a[i] = s[i]
      /\ a[Len(s) + 1] = n
  BY AppendProperties
<1> HIDE DEF a
<1>2. Len(s) \in Nat /\ Len(a) \in Nat
  BY <1>1, SeqRange
<1>3. Range(a) = {a[i] : i \in 1 .. Len(a)} /\ Range(s) = {s[i] : i \in 1 .. Len(s)}
  BY <1>1, SeqRange
<1>4. 1 .. Len(a) = 1 .. Len(s) \cup {Len(s) + 1}
  BY <1>1, <1>2
<1>5. Range(a) = Range(s) \cup {n}
  BY <1>1, <1>3, <1>4
<1>6. ASSUME IsInjective(s), n \notin Range(s) PROVE IsInjective(a)
  <2>1. ASSUME NEW i \in 1 .. Len(a), NEW j \in 1 .. Len(a), a[i] = a[j]
        PROVE  i = j
    <3>1. \A k \in 1 .. Len(s) : a[k] # n
      BY <1>1, <1>3, <1>6
    <3>2. \A k, l \in 1 .. Len(s) : s[k] = s[l] => k = l
      BY <1>6, SeqRange
    <3> QED BY <1>1, <1>4, <2>1, <3>1, <3>2
  <2> QED BY <1>1, <2>1, SeqRange
<1>7. Last(a) = n
  BY <1>1 DEF Last
<1> QED BY <1>1, <1>5, <1>6, <1>7 DEF a

LEMMA RemoveMembers ==
  ASSUME NEW s \in Seq(Node), NEW i \in 1 .. Len(s), IsInjective(s)
  PROVE  /\ RemoveAt(s, i) \in Seq(Node)
         /\ Range(RemoveAt(s, i)) = Range(s) \ {s[i]}
         /\ IsInjective(RemoveAt(s, i))
<1> DEFINE r == RemoveAt(s, i)
<1>1. /\ r \in Seq(Node) /\ Len(r) = Len(s) - 1
      /\ \A j \in 1 .. Len(s) - 1 : r[j] = IF j < i THEN s[j] ELSE s[j+1]
  BY RemoveAtProperties
<1> HIDE DEF r
<1>2. Len(s) \in Nat /\ i \in Nat /\ i >= 1 /\ i <= Len(s)
  BY SeqRange
<1>3. /\ Range(s) = {s[j] : j \in 1 .. Len(s)}
      /\ Range(r) = {r[j] : j \in 1 .. Len(s) - 1}
      /\ \A j, k \in 1 .. Len(s) : s[j] = s[k] => j = k
  BY <1>1, SeqRange
<1>4. Range(r) \subseteq Range(s) \ {s[i]}
  <2>1. ASSUME NEW j \in 1 .. Len(s) - 1 PROVE r[j] \in Range(s) \ {s[i]}
    <3>1. CASE j < i
      BY <1>1, <1>2, <1>3, <3>1
    <3>2. CASE j >= i
      <4>1. j + 1 \in 1 .. Len(s) /\ j + 1 # i /\ r[j] = s[j+1]
        BY <1>1, <1>2, <3>2
      <4> QED BY <1>3, <4>1
    <3> QED BY <1>2, <3>1, <3>2
  <2> QED BY <1>3, <2>1
<1>5. Range(s) \ {s[i]} \subseteq Range(r)
  <2>1. ASSUME NEW k \in 1 .. Len(s), k # i
        PROVE  \E j \in 1 .. Len(s) - 1 : r[j] = s[k]
    <3>1. CASE k < i
      <4>1. k \in 1 .. Len(s) - 1 /\ r[k] = s[k]
        BY <1>1, <1>2, <3>1
      <4> QED BY <4>1
    <3>2. CASE k > i
      <4>1. /\ k - 1 \in 1 .. Len(s) - 1 /\ ~ (k - 1 < i) /\ (k - 1) + 1 = k
        BY <1>2, <3>2
      <4>2. r[k-1] = s[k]
        BY <1>1, <4>1
      <4> QED BY <4>1, <4>2
    <3> QED BY <1>2, <2>1, <3>1, <3>2
  <2> QED BY <1>3, <2>1
<1>6. ASSUME NEW j \in 1 .. Len(s) - 1, NEW k \in 1 .. Len(s) - 1, r[j] = r[k]
      PROVE  j = k
  <2> DEFINE at(x) == IF x < i THEN x ELSE x + 1
  <2>1. r[j] = s[at(j)] /\ r[k] = s[at(k)]
    BY <1>1
  <2>2. at(j) \in 1 .. Len(s) /\ at(k) \in 1 .. Len(s)
    BY <1>2
  <2>3. at(j) = at(k)
    BY <1>3, <1>6, <2>1, <2>2
  <2> QED BY <1>2, <2>3
<1>7. IsInjective(r)
  BY <1>1, <1>6, SeqRange
<1> QED BY <1>1, <1>4, <1>5, <1>7 DEF r

\* Taking the head off is removing at 1.
LEMMA TailIsRemove ==
  ASSUME NEW S, NEW s \in Seq(S), s # <<>>
  PROVE  /\ Tail(s) = RemoveAt(s, 1)
         /\ 1 \in 1 .. Len(s)
         /\ Head(s) = s[1]
<1>1. Len(s) \in Nat /\ Len(s) >= 1
  BY LenProperties, EmptySeq
<1>2. 1 \in 1 .. Len(s)
  BY <1>1
<1>3. /\ Tail(s) \in Seq(S) /\ Len(Tail(s)) = Len(s) - 1
      /\ \A j \in 1 .. Len(s) - 1 : Tail(s)[j] = s[j+1]
  BY HeadTailProperties
<1>4. /\ RemoveAt(s, 1) \in Seq(S) /\ Len(RemoveAt(s, 1)) = Len(s) - 1
      /\ \A j \in 1 .. Len(s) - 1 :
           RemoveAt(s, 1)[j] = IF j < 1 THEN s[j] ELSE s[j+1]
  BY <1>2, RemoveAtProperties
<1>5. \A j \in 1 .. Len(s) - 1 : Tail(s)[j] = RemoveAt(s, 1)[j]
  BY <1>1, <1>3, <1>4
<1>6. Tail(s) = RemoveAt(s, 1)
  BY <1>3, <1>4, <1>5, SeqEqual
<1> QED BY <1>2, <1>6

-----------------------------------------------------------------------------
(* What the operations do to a list                                        *)

\* What ChainFrom returns.
LEMMA ChainFromIs ==
  ASSUME NEW next, NEW p, NEW s \in Seq(Node),
         IsInjective(s), IsChain(next, p, s)
  PROVE  s \in NodeSeq /\ ChainFrom(next, p) = s
<1>1. s \in NodeSeq
  BY DistinctIsShort
<1>2. \A t \in NodeSeq : t \in Seq(Node)
  BY DEF NodeSeq, SeqOf
<1>3. \A t \in NodeSeq : IsChain(next, p, t) => t = s
  BY <1>2, ChainUnique
<1> QED BY <1>1, <1>3 DEF ChainFrom, NodeSeq

\* A list whose nodes keep their pointers is the same list.
LEMMA ChainFrame ==
  ASSUME NEW next, NEW next2, NEW p, NEW s \in Seq(Node),
         IsChain(next, p, s), \A n \in Range(s) : next2[n] = next[n]
  PROVE  IsChain(next2, p, s)
<1>1. \A i \in 1 .. Len(s) : next2[s[i]] = next[s[i]]
  BY SeqRange
<1> QED BY <1>1 DEF IsChain

\* Linking node n behind the last node.
LEMMA ChainAppend ==
  ASSUME NEW next, NEW next2, NEW p, NEW s \in Seq(Node), NEW n \in Node,
         IsChain(next, p, s), IsInjective(s), n \notin Range(s),
         next2[n] = NULL,
         s # <<>> => next2[Last(s)] = n,
         \A m \in Range(s) : m # Last(s) => next2[m] = next[m]
  PROVE  IsChain(next2, IF s = <<>> THEN n ELSE p, Append(s, n))
<1> DEFINE a == Append(s, n)
<1>1. /\ Len(a) = Len(s) + 1 /\ a # <<>>
      /\ \A i \in 1 .. Len(s) : a[i] = s[i]
      /\ a[Len(s) + 1] = n
  BY AppendProperties
<1> HIDE DEF a
<1>2. /\ Len(s) \in Nat /\ Last(s) = s[Len(s)] /\ (s # <<>> <=> Len(s) >= 1)
      /\ \A i \in 1 .. Len(s) : s[i] \in Range(s)
      /\ \A i, j \in 1 .. Len(s) : s[i] = s[j] => i = j
  BY SeqRange
<1>3. (IF s = <<>> THEN n ELSE p) = a[1]
  <2>1. CASE s = <<>>
    BY <2>1, <1>1, <1>2
  <2>2. CASE s # <<>>
    <3>1. p = s[1]
      BY <2>2 DEF IsChain
    <3> QED BY <2>2, <3>1, <1>1, <1>2
  <2> QED BY <2>1, <2>2
<1>4. ASSUME NEW i \in 1 .. Len(a)
      PROVE  next2[a[i]] = IF i = Len(a) THEN NULL ELSE a[i+1]
  <2>1. CASE i = Len(s) + 1
    BY <2>1, <1>1
  <2>2. CASE i = Len(s) /\ i # Len(s) + 1
    <3>1. i \in 1 .. Len(s) /\ s # <<>>
      BY <2>2, <1>1, <1>2
    <3> QED BY <2>2, <3>1, <1>1, <1>2
  <2>3. CASE i < Len(s)
    <3>1. i \in 1 .. Len(s) /\ i + 1 \in 1 .. Len(s) /\ Len(s) \in 1 .. Len(s)
          /\ i # Len(s) /\ i # Len(a)
      BY <2>3, <1>1, <1>2
    <3>2. s[i] # Last(s)
      BY <3>1, <1>2
    <3>3. next2[s[i]] = next[s[i]]
      BY <3>1, <3>2, <1>2
    <3>4. next[s[i]] = s[i+1]
      BY <3>1 DEF IsChain
    <3> QED BY <3>1, <3>3, <3>4, <1>1
  <2> QED BY <2>1, <2>2, <2>3, <1>1, <1>2
<1>5. IsChain(next2, IF s = <<>> THEN n ELSE p, a)
  BY <1>1, <1>3, <1>4 DEF IsChain
<1> QED BY <1>5 DEF a

\* Unlinking the i-th node.  What follows it stays linked; only its predecessor,
\* if it has one, gets another pointer.
LEMMA ChainRemove ==
  ASSUME NEW next, NEW next2, NEW p, NEW s \in Seq(Node), NEW i \in 1 .. Len(s),
         IsChain(next, p, s), IsInjective(s),
         i > 1 => next2[s[i-1]] = next[s[i]],
         \A j \in 1 .. Len(s) : j # i /\ j # i-1 => next2[s[j]] = next[s[j]]
  PROVE  IsChain(next2, IF i = 1 THEN next[s[i]] ELSE p, RemoveAt(s, i))
<1> DEFINE r == RemoveAt(s, i)
<1>1. /\ r \in Seq(Node) /\ Len(r) = Len(s) - 1
      /\ \A j \in 1 .. Len(s) - 1 : r[j] = IF j < i THEN s[j] ELSE s[j+1]
  BY RemoveAtProperties
<1> HIDE DEF r
<1>2. Len(s) \in Nat /\ i \in Nat /\ i >= 1 /\ i <= Len(s)
  BY SeqRange
<1>3. /\ s # <<>> /\ p = s[1]
      /\ r # <<>> <=> Len(s) >= 2
  <2>1. s # <<>>
    BY <1>2, SeqRange
  <2>2. r # <<>> <=> Len(r) >= 1
    BY <1>1, SeqRange
  <2> QED BY <2>1, <2>2, <1>1, <1>2 DEF IsChain
<1>4. \A j \in 1 .. Len(s) : next[s[j]] = IF j = Len(s) THEN NULL ELSE s[j+1]
  BY DEF IsChain
<1>5. (IF i = 1 THEN next[s[i]] ELSE p) = IF r = <<>> THEN NULL ELSE r[1]
  <2>1. CASE i = 1
    BY <2>1, <1>1, <1>2, <1>3, <1>4
  <2>2. CASE i # 1
    BY <2>2, <1>1, <1>2, <1>3
  <2> QED BY <2>1, <2>2
<1>6. ASSUME NEW j \in 1 .. Len(r)
      PROVE  next2[r[j]] = IF j = Len(r) THEN NULL ELSE r[j+1]
  <2>0. j \in 1 .. Len(s) - 1 /\ j \in Nat
    BY <1>1, <1>2
  <2>1. CASE j < i - 1
    <3>1. j \in 1 .. Len(s) /\ j # i /\ j # i-1 /\ j # Len(s) /\ j # Len(r)
          /\ j + 1 < i /\ j + 1 \in 1 .. Len(s) - 1
      BY <2>0, <2>1, <1>1, <1>2
    <3>2. r[j] = s[j] /\ r[j+1] = s[j+1]
      BY <2>0, <2>1, <3>1, <1>1, <1>2
    <3>3. next2[s[j]] = next[s[j]] /\ next[s[j]] = s[j+1]
      BY <3>1, <1>4
    <3> QED BY <3>1, <3>2, <3>3
  <2>2. CASE j = i - 1
    <3>1. i > 1 /\ r[j] = s[i-1] /\ next2[s[i-1]] = next[s[i]]
      BY <2>0, <2>2, <1>1, <1>2
    <3>2. next[s[i]] = IF i = Len(s) THEN NULL ELSE s[i+1]
      BY <1>2, <1>4
    <3>3. CASE i = Len(s)
      BY <3>1, <3>2, <3>3, <2>2, <1>1
    <3>4. CASE i # Len(s)
      <4>1. j # Len(r) /\ j + 1 \in 1 .. Len(s) - 1 /\ ~(j + 1 < i) /\ (j+1) + 1 = i + 1
        BY <3>4, <2>0, <2>2, <1>1, <1>2
      <4>2. r[j+1] = s[i+1]
        BY <4>1, <1>1
      <4> QED BY <3>1, <3>2, <3>4, <4>1, <4>2
    <3> QED BY <3>3, <3>4
  <2>3. CASE j >= i
    <3>1. /\ j + 1 \in 1 .. Len(s) /\ j + 1 # i /\ j + 1 # i - 1
          /\ ~ (j < i) /\ ~ (j + 1 < i)
          /\ j + 1 = Len(s) <=> j = Len(r)
      BY <2>0, <2>3, <1>1, <1>2
    <3>2. r[j] = s[j+1]
      BY <2>0, <3>1, <1>1
    <3>3. next2[s[j+1]] = next[s[j+1]]
      BY <3>1
    <3>4. next[s[j+1]] = IF j + 1 = Len(s) THEN NULL ELSE s[(j+1) + 1]
      BY <3>1, <1>4
    <3>5. j # Len(r) => r[j+1] = s[(j+1) + 1]
      <4>1. j # Len(r) => j + 1 \in 1 .. Len(s) - 1
        BY <2>0, <1>1, <1>2
      <4> QED BY <4>1, <3>1, <1>1
    <3> QED BY <3>1, <3>2, <3>3, <3>4, <3>5
  <2>4. j < i - 1 \/ j = i - 1 \/ j >= i
    BY <2>0, <1>2
  <2> QED BY <2>1, <2>2, <2>3, <2>4
<1>7. IsChain(next2, IF i = 1 THEN next[s[i]] ELSE p, r)
  BY <1>5, <1>6 DEF IsChain
<1> QED BY <1>7 DEF r

\* Where the list ends after the i-th node is unlinked.
LEMMA LastAfterRemove ==
  ASSUME NEW s \in Seq(Node), NEW i \in 1 .. Len(s), RemoveAt(s, i) # <<>>
  PROVE  Last(RemoveAt(s, i)) = IF i = Len(s) THEN s[i-1] ELSE Last(s)
<1>1. Len(s) \in Nat /\ i \in Nat /\ i >= 1 /\ i <= Len(s)
  BY SeqRange
<1>2. /\ RemoveAt(s, i) \in Seq(Node) /\ Len(RemoveAt(s, i)) = Len(s) - 1
      /\ \A j \in 1 .. Len(s) - 1 :
           RemoveAt(s, i)[j] = IF j < i THEN s[j] ELSE s[j+1]
  BY RemoveAtProperties
<1>3. Len(s) - 1 >= 1
  BY <1>2, SeqRange
<1>4. Last(RemoveAt(s, i)) = RemoveAt(s, i)[Len(s) - 1] /\ Last(s) = s[Len(s)]
  BY <1>2 DEF Last
<1>5. Len(s) - 1 \in 1 .. Len(s) - 1 /\ (Len(s) - 1) + 1 = Len(s)
  BY <1>1, <1>3
<1>6. RemoveAt(s, i)[Len(s) - 1] = IF Len(s) - 1 < i THEN s[Len(s) - 1]
                                                     ELSE s[Len(s)]
  BY <1>2, <1>5
<1>7. CASE i = Len(s)
  BY <1>1, <1>4, <1>6, <1>7
<1>8. CASE i # Len(s)
  <2>1. ~ (Len(s) - 1 < i)
    BY <1>1, <1>8
  <2> QED BY <2>1, <1>4, <1>6, <1>8
<1> QED BY <1>7, <1>8
=============================================================================
