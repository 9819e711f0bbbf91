----------------------------- MODULE Arithmetic -----------------------------
(***************************************************************************)
(* What the proofs need to know of whole numbers: least elements,          *)
(* induction, and sums over finite sets.                                   *)
(*                                                                         *)
(* The library states induction for predicates; here it is stated for      *)
(* sets, which first-order provers can use.  From it follows that the fold *)
(* behind SumFunctionOnSet satisfies its equation, and from this that a    *)
(* sum does not depend on the order in which its elements are taken.       *)
(***************************************************************************)
EXTENDS Integers, Functions, FiniteSetTheorems, WellFoundedInduction, TLAPS

\* A family of finite sets has a smallest member with respect to inclusion.
LEMMA MinimalSubset ==
  ASSUME NEW I, IsFiniteSet(I), NEW F, F \subseteq SUBSET I, F # {}
  PROVE  \E T \in F : \A U \in F : U \subseteq T => U = T
<1>1. F \subseteq FiniteSubsetsOf(I)
  BY FS_Subset DEF FiniteSubsetsOf
<1>2. PICK T \in F : \A U \in F : <<U, T>> \notin StrictSubsetOrdering(I)
  BY <1>1, WFMin, FS_StrictSubsetOrderingWellFounded
<1>3. ASSUME NEW U \in F, U \subseteq T, U # T PROVE FALSE
  BY <1>2, <1>3 DEF StrictSubsetOrdering
<1> QED BY <1>3

\* Induction over the subsets of a finite set, with a family for the predicate.
LEMMA SubsetInduction ==
  ASSUME NEW I, IsFiniteSet(I), NEW F,
         \A s \in SUBSET I : (\A t \in SUBSET s : t # s => t \in F) => s \in F
  PROVE  SUBSET I \subseteq F
<1> DEFINE G == (SUBSET I) \ F
<1> SUFFICES ASSUME G # {} PROVE FALSE
  OBVIOUS
<1>1. G \subseteq SUBSET I
  OBVIOUS
<1>2. PICK s \in G : \A t \in G : t \subseteq s => t = s
  <2> HIDE DEF G
  <2> QED BY <1>1, MinimalSubset
<1>3. s \in SUBSET I /\ \A t \in SUBSET s : t # s => t \in F
  BY <1>2
<1> QED BY <1>2, <1>3

\* Every nonempty set of naturals has a least element.
LEMMA LeastNatural ==
  ASSUME NEW T, T \subseteq Nat, T # {}
  PROVE  \E x \in T : \A y \in T : x <= y
<1> DEFINE Segments == {0 .. t : t \in T}
<1>1. Segments \subseteq FiniteSubsetsOf(Nat) /\ Segments # {}
  <2>1. \A t \in T : IsFiniteSet(0 .. t) /\ 0 .. t \subseteq Nat
    BY FS_Interval
  <2> QED BY <2>1 DEF FiniteSubsetsOf
<1>2. PICK X \in Segments :
        \A Y \in Segments : <<Y, X>> \notin StrictSubsetOrdering(Nat)
  BY <1>1, WFMin, FS_StrictSubsetOrderingWellFounded
<1>3. PICK x \in T : X = 0 .. x
  OBVIOUS
<1>4. ASSUME NEW y \in T, y < x PROVE FALSE
  <2>1. 0 .. y \in Segments /\ 0 .. y \subseteq 0 .. x /\ 0 .. y # 0 .. x
    BY <1>4
  <2>2. <<0 .. y, 0 .. x>> \in StrictSubsetOrdering(Nat)
    BY <2>1 DEF StrictSubsetOrdering
  <2> QED BY <2>1, <2>2, <1>2, <1>3
<1> QED BY <1>4

\* So does a set that is bounded have a greatest one.
LEMMA GreatestNatural ==
  ASSUME NEW n \in Nat, NEW T \in SUBSET (0 .. n), T # {}
  PROVE  \E x \in T : \A y \in T : y <= x
<1> DEFINE B == {k \in 0 .. n : \A y \in T : y <= k}
<1>1. B \subseteq Nat /\ n \in B
  OBVIOUS
<1>2. PICK b \in B : \A k \in B : b <= k
  <2> HIDE DEF B
  <2> QED BY <1>1, LeastNatural
<1>3. b \in T
  <2> SUFFICES ASSUME b \notin T PROVE FALSE
    OBVIOUS
  <2>1. b \in 0 .. n /\ \A y \in T : y <= b
    BY <1>2
  <2>2. \A y \in T : y \in Nat /\ y # b /\ y <= b - 1
    <3> SUFFICES ASSUME NEW y \in T PROVE y \in Nat /\ y # b /\ y <= b - 1
      OBVIOUS
    <3>1. y \in 0 .. n /\ y <= b /\ y # b
      BY <2>1
    <3> HIDE DEF B
    <3> QED BY <2>1, <3>1
  <2>3. b # 0
    <3>1. PICK y : y \in T
      OBVIOUS
    <3>2. y \in Nat /\ y <= b - 1
      BY <2>2, <3>1
    <3> QED BY <2>1, <3>2
  <2>4. b - 1 \in 0 .. n /\ ~ b <= b - 1
    BY <2>1, <2>3
  <2>5. b - 1 \in B
    BY <2>2, <2>4
  <2> HIDE DEF B
  <2> QED BY <1>2, <2>4, <2>5
<1> QED BY <1>2, <1>3

\* Induction, with a set for the predicate.
LEMMA Induction ==
  ASSUME NEW S, 0 \in S, \A n \in Nat : n \in S => n + 1 \in S
  PROVE  Nat \subseteq S
<1> DEFINE T == Nat \ S
<1> SUFFICES ASSUME T # {} PROVE FALSE
  OBVIOUS
<1>1. PICK x \in T : \A y \in T : x <= y
  BY LeastNatural
<1>2. x # 0 /\ x - 1 \in Nat /\ x - 1 \notin T
  BY <1>1
<1> QED BY <1>2

-----------------------------------------------------------------------------
(* Sums                                                                    *)

\* The element that the fold takes next, and the equation it iterates.
Taken(s) == CHOOSE x \in s : TRUE

Iterates(g, f, F) ==
  g = [s \in F |-> IF s = {} THEN 0 ELSE f[Taken(s)] + g[s \ {Taken(s)}]]

LEMMA NextOfSet == \A s : s # {} => Taken(s) \in s
BY DEF Taken

LEMMA SumIsIterated ==
  ASSUME NEW f, NEW I
  PROVE  SumFunctionOnSet(f, I) = (CHOOSE g : Iterates(g, f, SUBSET I))[I]
BY DEF SumFunctionOnSet, FoldFunctionOnSet, MapThenFoldSet, Iterates, Taken

\* There is a function that satisfies the equation: first on sets with no elements,
\* then on those with one more.
LEMMA IterationExists ==
  ASSUME NEW f, NEW I, IsFiniteSet(I)
  PROVE  \E g : Iterates(g, f, SUBSET I)
<1> DEFINE Level(n) == {s \in SUBSET I : Cardinality(s) <= n}
           S == {n \in Nat : \E g : Iterates(g, f, Level(n))}
<1>1. \A s \in SUBSET I : IsFiniteSet(s) /\ Cardinality(s) \in Nat
  BY FS_Subset, FS_CardinalityType
<1>2. \A s \in SUBSET I : s # {} =>
        /\ s \ {Taken(s)} \in SUBSET I
        /\ Cardinality(s \ {Taken(s)}) = Cardinality(s) - 1
  BY <1>1, NextOfSet, FS_RemoveElement
<1>3. 0 \in S
  <2> DEFINE g == [s \in Level(0) |-> 0]
  <2>1. \A s \in Level(0) : s = {}
    BY <1>1, FS_EmptySet
  <2>2. g = [s \in Level(0) |-> IF s = {} THEN 0 ELSE f[Taken(s)] + g[s \ {Taken(s)}]]
    BY <2>1
  <2> QED BY <2>2 DEF Iterates
<1>4. ASSUME NEW n \in Nat, n \in S PROVE n + 1 \in S
  <2>1. PICK g : Iterates(g, f, Level(n))
    BY <1>4
  <2> DEFINE Step(h, s) == IF s = {} THEN 0 ELSE f[Taken(s)] + h[s \ {Taken(s)}]
             h == [s \in Level(n + 1) |-> Step(g, s)]
  <2>2. \A s \in Level(n) : g[s] = Step(g, s)
    BY <2>1 DEF Iterates
  <2>3. Level(n) \subseteq Level(n + 1)
    BY <1>1
  <2>4. \A s \in Level(n) : h[s] = g[s]
    BY <2>2, <2>3
  <2>5. \A s \in Level(n + 1) : s # {} => s \ {Taken(s)} \in Level(n)
    BY <1>1, <1>2
  <2>6. \A s \in Level(n + 1) : Step(g, s) = Step(h, s)
    BY <2>4, <2>5
  <2>7. h = [s \in Level(n + 1) |-> Step(h, s)]
    BY <2>6
  <2>8. Iterates(h, f, Level(n + 1))
    BY <2>7 DEF Iterates
  <2> HIDE DEF Level, h
  <2>9. \E k : Iterates(k, f, Level(n + 1))
    BY <2>8
  <2> QED BY <2>9
<1>5. Cardinality(I) \in S
  BY <1>1, <1>3, <1>4, Induction
<1>6. Level(Cardinality(I)) = SUBSET I
  BY <1>1, FS_Subset
<1> QED BY <1>5, <1>6

\* What an iteration says of a set does not depend on the family it is defined on.
LEMMA IterationUnique ==
  ASSUME NEW f, NEW I, IsFiniteSet(I), NEW J \in SUBSET I, NEW g, NEW h,
         Iterates(g, f, SUBSET I), Iterates(h, f, SUBSET J)
  PROVE  g[J] = h[J]
<1> DEFINE F == {s \in SUBSET J : g[s] = h[s]}
<1>1. ASSUME NEW s \in SUBSET J, \A t \in SUBSET s : t # s => t \in F
      PROVE  s \in F
  <2>1. /\ g[s] = IF s = {} THEN 0 ELSE f[Taken(s)] + g[s \ {Taken(s)}]
        /\ h[s] = IF s = {} THEN 0 ELSE f[Taken(s)] + h[s \ {Taken(s)}]
    BY DEF Iterates
  <2>2. s # {} => s \ {Taken(s)} \in SUBSET s /\ s \ {Taken(s)} # s
    BY NextOfSet
  <2>3. s # {} => s \ {Taken(s)} \in F
    BY <1>1, <2>2
  <2> QED BY <2>1, <2>3
<1>2. SUBSET J \subseteq F
  <2>1. IsFiniteSet(J)
    BY FS_Subset
  <2> HIDE DEF F
  <2> QED BY <1>1, <2>1, SubsetInduction
<1> QED BY <1>2

LEMMA SumEmpty ==
  ASSUME NEW f
  PROVE  SumFunctionOnSet(f, {}) = 0
<1>1. PICK g : Iterates(g, f, SUBSET {})
  BY IterationExists, FS_EmptySet
<1>2. Iterates((CHOOSE h : Iterates(h, f, SUBSET {})), f, SUBSET {})
  BY <1>1
<1> QED BY <1>2, SumIsIterated DEF Iterates

LEMMA SumNext ==
  ASSUME NEW f, NEW I, IsFiniteSet(I), I # {}
  PROVE  SumFunctionOnSet(f, I)
           = f[Taken(I)] + SumFunctionOnSet(f, I \ {Taken(I)})
<1> DEFINE J == I \ {Taken(I)}
           Chosen(K) == CHOOSE g : Iterates(g, f, SUBSET K)
<1>1. J \in SUBSET I /\ IsFiniteSet(J)
  BY FS_Subset
<1>2. Iterates(Chosen(I), f, SUBSET I) /\ Iterates(Chosen(J), f, SUBSET J)
  BY <1>1, IterationExists
<1>3. Chosen(I)[I] = f[Taken(I)] + Chosen(I)[J]
  BY <1>2 DEF Iterates
<1>4. Chosen(I)[J] = Chosen(J)[J]
  <2>1. \A g, h : Iterates(g, f, SUBSET I) /\ Iterates(h, f, SUBSET J) => g[J] = h[J]
    <3> HIDE DEF J
    <3> QED BY <1>1, IterationUnique
  <2> HIDE DEF Chosen, J
  <2> QED BY <1>2, <2>1
<1> QED BY <1>3, <1>4, SumIsIterated

\* Sums of integers are integers, of naturals naturals.
LEMMA SumInteger ==
  ASSUME NEW f, NEW I, IsFiniteSet(I), \A i \in I : f[i] \in Int
  PROVE  SumFunctionOnSet(f, I) \in Int
<1> DEFINE F == {s \in SUBSET I : SumFunctionOnSet(f, s) \in Int}
<1>1. ASSUME NEW s \in SUBSET I, \A t \in SUBSET s : t # s => t \in F
      PROVE  s \in F
  <2>1. IsFiniteSet(s)
    BY FS_Subset
  <2>2. CASE s = {}
    BY <2>2, SumEmpty
  <2>3. CASE s # {}
    <3>1. Taken(s) \in s /\ s \ {Taken(s)} \in SUBSET s /\ s \ {Taken(s)} # s
      BY <2>3, NextOfSet
    <3>2. s \ {Taken(s)} \in F
      BY <1>1, <3>1
    <3> QED BY <2>1, <2>3, <3>1, <3>2, SumNext
  <2> QED BY <2>2, <2>3
<1>2. SUBSET I \subseteq F
  <2> HIDE DEF F
  <2> QED BY <1>1, SubsetInduction
<1> QED BY <1>2

LEMMA SumNatural ==
  ASSUME NEW f, NEW I, IsFiniteSet(I), \A i \in I : f[i] \in Nat
  PROVE  SumFunctionOnSet(f, I) \in Nat
<1> DEFINE F == {s \in SUBSET I : SumFunctionOnSet(f, s) \in Nat}
<1>1. ASSUME NEW s \in SUBSET I, \A t \in SUBSET s : t # s => t \in F
      PROVE  s \in F
  <2>1. IsFiniteSet(s)
    BY FS_Subset
  <2>2. CASE s = {}
    BY <2>2, SumEmpty
  <2>3. CASE s # {}
    <3>1. Taken(s) \in s /\ s \ {Taken(s)} \in SUBSET s /\ s \ {Taken(s)} # s
      BY <2>3, NextOfSet
    <3>2. s \ {Taken(s)} \in F
      BY <1>1, <3>1
    <3> QED BY <2>1, <2>3, <3>1, <3>2, SumNext
  <2> QED BY <2>2, <2>3
<1>2. SUBSET I \subseteq F
  <2> HIDE DEF F
  <2> QED BY <1>1, SubsetInduction
<1> QED BY <1>2

\* Only the values on the set count.
LEMMA SumAgree ==
  ASSUME NEW f, NEW g, NEW I, IsFiniteSet(I), \A i \in I : f[i] = g[i]
  PROVE  SumFunctionOnSet(f, I) = SumFunctionOnSet(g, I)
<1> DEFINE F == {s \in SUBSET I : SumFunctionOnSet(f, s) = SumFunctionOnSet(g, s)}
<1>1. ASSUME NEW s \in SUBSET I, \A t \in SUBSET s : t # s => t \in F
      PROVE  s \in F
  <2>1. IsFiniteSet(s)
    BY FS_Subset
  <2>2. CASE s = {}
    BY <2>2, SumEmpty
  <2>3. CASE s # {}
    <3>1. Taken(s) \in s /\ s \ {Taken(s)} \in SUBSET s /\ s \ {Taken(s)} # s
      BY <2>3, NextOfSet
    <3>2. s \ {Taken(s)} \in F
      BY <1>1, <3>1
    <3> QED BY <2>1, <2>3, <3>1, <3>2, SumNext
  <2> QED BY <2>2, <2>3
<1>2. SUBSET I \subseteq F
  <2> HIDE DEF F
  <2> QED BY <1>1, SubsetInduction
<1> QED BY <1>2

\* Any element may be taken out of a sum.
LEMMA SumRemove ==
  ASSUME NEW f, NEW I, IsFiniteSet(I), \A i \in I : f[i] \in Int, NEW x \in I
  PROVE  SumFunctionOnSet(f, I) = f[x] + SumFunctionOnSet(f, I \ {x})
<1> DEFINE Sum(s) == SumFunctionOnSet(f, s)
           F == {s \in SUBSET I : \A y \in s : Sum(s) = f[y] + Sum(s \ {y})}
<1>1. ASSUME NEW s \in SUBSET I, \A t \in SUBSET s : t # s => t \in F,
             NEW y \in s
      PROVE  Sum(s) = f[y] + Sum(s \ {y})
  <2> DEFINE z == Taken(s)
             r == (s \ {y}) \ {z}
  <2>1. \A t \in SUBSET I : IsFiniteSet(t) /\ Sum(t) \in Int
    BY FS_Subset, SumInteger
  <2>2. z \in s /\ Sum(s) = f[z] + Sum(s \ {z})
    BY <2>1, SumNext, NextOfSet
  <2>3. CASE z = y
    BY <2>2, <2>3
  <2>4. CASE z # y
    <3>1. s \ {z} \in F /\ s \ {y} \in F
      BY <1>1, <2>2
    <3>2. Sum(s \ {z}) = f[y] + Sum((s \ {z}) \ {y})
      BY <2>4, <3>1
    <3>3. Sum(s \ {y}) = f[z] + Sum(r)
      BY <2>2, <2>4, <3>1
    <3>4. Sum((s \ {z}) \ {y}) = Sum(r)
      <4>1. (s \ {z}) \ {y} = r
        OBVIOUS
      <4> QED BY <4>1
    <3>5. f[y] \in Int /\ f[z] \in Int /\ Sum(r) \in Int
      BY <2>1, <2>2
    <3>6. Sum(s) = f[z] + (f[y] + Sum(r)) /\ Sum(s \ {y}) = f[z] + Sum(r)
      BY <2>2, <3>2, <3>3, <3>4
    <3> HIDE DEF Sum, z, r
    <3> QED BY <3>6, <3>5
  <2> QED BY <2>3, <2>4
<1>2. SUBSET I \subseteq F
  <2>1. \A s \in SUBSET I : (\A t \in SUBSET s : t # s => t \in F) => s \in F
    BY <1>1
  <2> HIDE DEF F
  <2> QED BY <2>1, SubsetInduction
<1> QED BY <1>2

\* A sum of which one value changes.
LEMMA SumChange ==
  ASSUME NEW f, NEW g, NEW I, IsFiniteSet(I), NEW x \in I,
         \A i \in I : f[i] \in Int /\ g[i] \in Int,
         \A i \in I \ {x} : f[i] = g[i]
  PROVE  SumFunctionOnSet(g, I) = SumFunctionOnSet(f, I) + (g[x] - f[x])
<1>1. IsFiniteSet(I \ {x}) /\ f[x] \in Int /\ g[x] \in Int
  BY FS_Subset
<1>2. SumFunctionOnSet(f, I \ {x}) = SumFunctionOnSet(g, I \ {x})
  BY <1>1, SumAgree
<1>3. /\ SumFunctionOnSet(f, I) = f[x] + SumFunctionOnSet(f, I \ {x})
      /\ SumFunctionOnSet(g, I) = g[x] + SumFunctionOnSet(g, I \ {x})
  BY SumRemove
<1>4. SumFunctionOnSet(f, I \ {x}) \in Int
  BY <1>1, SumInteger
<1> QED BY <1>1, <1>2, <1>3, <1>4

\* A sum that goes over one element more.
LEMMA SumAdd ==
  ASSUME NEW f, NEW g, NEW I, IsFiniteSet(I), NEW x, x \notin I,
         \A i \in I : f[i] \in Int /\ g[i] = f[i], g[x] \in Int
  PROVE  SumFunctionOnSet(g, I \cup {x}) = SumFunctionOnSet(f, I) + g[x]
<1>1. IsFiniteSet(I \cup {x}) /\ (I \cup {x}) \ {x} = I /\ x \in I \cup {x}
  BY FS_AddElement
<1>2. \A i \in I \cup {x} : g[i] \in Int
  OBVIOUS
<1>3. SumFunctionOnSet(g, I \cup {x}) = g[x] + SumFunctionOnSet(g, I)
  BY <1>1, <1>2, SumRemove
<1>4. SumFunctionOnSet(g, I) = SumFunctionOnSet(f, I)
  BY SumAgree
<1>5. SumFunctionOnSet(f, I) \in Int
  BY SumInteger
<1> QED BY <1>3, <1>4, <1>5

\* A sum over functions that are 0 everywhere.
LEMMA SumZero ==
  ASSUME NEW f, NEW I, IsFiniteSet(I), \A i \in I : f[i] = 0
  PROVE  SumFunctionOnSet(f, I) = 0
<1> DEFINE F == {s \in SUBSET I : SumFunctionOnSet(f, s) = 0}
<1>1. ASSUME NEW s \in SUBSET I, \A t \in SUBSET s : t # s => t \in F
      PROVE  s \in F
  <2>1. IsFiniteSet(s)
    BY FS_Subset
  <2>2. CASE s = {}
    BY <2>2, SumEmpty
  <2>3. CASE s # {}
    <3>1. Taken(s) \in s /\ s \ {Taken(s)} \in SUBSET s /\ s \ {Taken(s)} # s
      BY <2>3, NextOfSet
    <3>2. s \ {Taken(s)} \in F
      BY <1>1, <3>1
    <3> QED BY <2>1, <2>3, <3>1, <3>2, SumNext
  <2> QED BY <2>2, <2>3
<1>2. SUBSET I \subseteq F
  <2> HIDE DEF F
  <2> QED BY <1>1, SubsetInduction
<1> QED BY <1>2
=============================================================================
