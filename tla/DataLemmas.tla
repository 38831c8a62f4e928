----------------------------- MODULE DataLemmas -----------------------------
(***************************************************************************)
(* Facts about numbers and about sums over finite sets that the proofs of  *)
(* several components share.  What would be an induction is the choice of  *)
(* a least counterexample: a least number, or a smallest subset.           *)
(***************************************************************************)
EXTENDS Sequences, FiniteSetTheorems, TLAPS

-----------------------------------------------------------------------------
(***************************************************************************)
(* Least counterexamples.                                                  *)
(***************************************************************************)

\* A set of natural numbers that is not empty has a least element.
LEMMA LeastNumber ==
  ASSUME NEW B \in SUBSET Nat, B # {}
  PROVE  \E n \in B : \A m \in B : n <= m
<1>1. IsWellFoundedOn(OpToRel(<, Nat), Nat)
  BY Zenon, NatLessThanWellFounded
<1>2. PICK n \in B : \A m \in B : ~(<<m, n>> \in OpToRel(<, Nat))
  BY <1>1, WFMin, Zenon
<1>3. \A m \in B : ~(m < n)
  BY Zenon, <1>2 DEF OpToRel
<1>4. QED
  BY <1>3

\* A collection of subsets of a finite set that is not empty has a minimal one.
LEMMA MinimalSubset ==
  ASSUME NEW S, IsFiniteSet(S), NEW B \in SUBSET (SUBSET S), B # {}
  PROVE  \E T \in B : \A U \in SUBSET T : U # T => U \notin B
<1>1. B \subseteq FiniteSubsetsOf(S)
  BY FS_FiniteSubsetsOfFinite, Zenon
<1>2. PICK T \in B : \A U \in B : ~(<<U, T>> \in StrictSubsetOrdering(S))
  BY <1>1, WFMin, FS_StrictSubsetOrderingWellFounded, Zenon
<1>3. ASSUME NEW U \in SUBSET T, U # T, U \in B PROVE FALSE
  <2>1. <<U, T>> \in (SUBSET S) \X (SUBSET S) /\ <<U, T>>[1] = U /\ <<U, T>>[2] = T
    OBVIOUS
  <2>2. <<U, T>> \in StrictSubsetOrdering(S)
    BY <2>1, <1>3 DEF StrictSubsetOrdering
  <2>3. QED
    BY <2>2, <1>2, <1>3
<1>4. QED
  BY <1>3, Zenon

-----------------------------------------------------------------------------
(***************************************************************************)
(* Remainders: indices of rings, counters of fixed width.                  *)
(***************************************************************************)

\* Division with remainder has one solution.
LEMMA RemainderUnique ==
  ASSUME NEW m \in Nat \ {0}, NEW x \in Int, NEW k \in Int, NEW r \in 0 .. m - 1,
         x = m * k + r
  PROVE  x % m = r
<1> DEFINE q == x \div m
           s == x % m
<1>1. /\ x = m * q + s
      /\ q \in Int /\ s \in 0 .. m - 1
  OBVIOUS
<1> HIDE DEF q, s
<1> DEFINE d == q - k
<1>2. d \in Int /\ m * d = m * q - m * k
  BY <1>1
<1>3. m * d = r - s
  BY <1>1, <1>2
<1> HIDE DEF d
<1>4. CASE d >= 1
  <2>1. m * d >= m
    BY <1>2, <1>4
  <2>2. QED
    BY <2>1, <1>1, <1>3
<1>5. CASE d <= -1
  <2>1. m * d <= -m
    BY <1>2, <1>5
  <2>2. QED
    BY <2>1, <1>1, <1>3
<1>6. CASE d = 0
  <2>1. m * d = 0
    BY <1>6
  <2>2. QED
    BY <2>1, <1>1, <1>3 DEF s
<1>7. QED
  BY <1>2, <1>4, <1>5, <1>6

\* Whole laps do not change a remainder.
LEMMA RemainderLaps ==
  ASSUME NEW m \in Nat \ {0}, NEW x \in Int, NEW k \in Int
  PROVE  (x + m * k) % m = x % m
<1> DEFINE q == x \div m
           s == x % m
<1>1. /\ x = m * q + s
      /\ q \in Int /\ s \in 0 .. m - 1
  OBVIOUS
<1> HIDE DEF q, s
<1>2. q + k \in Int /\ m * (q + k) = m * q + m * k /\ m * k \in Int
  BY <1>1
<1>3. x + m * k = m * (q + k) + s /\ x + m * k \in Int
  BY <1>1, <1>2
<1>4. (x + m * k) % m = s
  BY <1>1, <1>2, <1>3, RemainderUnique
<1>5. QED
  BY <1>4 DEF s

\* Arithmetic on a counter that wraps is arithmetic modulo its width.
LEMMA RemainderAdd ==
  ASSUME NEW m \in Nat \ {0}, NEW x \in Int, NEW y \in Int
  PROVE  ((x % m) + y) % m = (x + y) % m
<1> DEFINE q == x \div m
           s == x % m
<1>1. /\ x = m * q + s
      /\ q \in Int /\ s \in 0 .. m - 1
  OBVIOUS
<1> HIDE DEF q, s
<1>2. x + y = (s + y) + m * q /\ s + y \in Int
  BY <1>1
<1>3. ((s + y) + m * q) % m = (s + y) % m
  BY Zenon, <1>1, <1>2, RemainderLaps
<1>4. QED
  BY <1>2, <1>3 DEF s

-----------------------------------------------------------------------------
(***************************************************************************)
(* Sums.  SumFunctionOnSet(f, S) tabulates the sums over all subsets of S  *)
(* by a recursive function, adding the elements in the order in which      *)
(* CHOOSE picks them.                                                      *)
(***************************************************************************)

Pick(s) == CHOOSE x \in s : TRUE

\* g tabulates the sums of f over the subsets of S, as SumFunctionOnSet does.
IsSumTable(g, f, S) ==
  g = [s \in SUBSET S |-> IF s = {} THEN 0 ELSE f[Pick(s)] + g[s \ {Pick(s)}]]

SumTable(f, S) == CHOOSE g : IsSumTable(g, f, S)

\* The library's definition, in these terms.
LEMMA SumIsTabulated ==
  ASSUME NEW f, NEW S
  PROVE  SumFunctionOnSet(f, S) = SumTable(f, S)[S]
BY Zenon DEF SumFunctionOnSet, FoldFunctionOnSet, MapThenFoldSet, SumTable, IsSumTable, Pick

\* A choice from a set that is not empty is one of its elements.
LEMMA PickOK == ASSUME NEW s, s # {} PROVE Pick(s) \in s
BY Zenon DEF Pick

\* What a table says about one subset.
LEMMA SumTableEntry ==
  ASSUME NEW f, NEW S, NEW g, IsSumTable(g, f, S), NEW s \in SUBSET S
  PROVE  g[s] = IF s = {} THEN 0 ELSE f[Pick(s)] + g[s \ {Pick(s)}]
<1> DEFINE e(t) == IF t = {} THEN 0 ELSE f[Pick(t)] + g[t \ {Pick(t)}]
<1>1. g = [t \in SUBSET S |-> e(t)]
  BY Zenon DEF IsSumTable
<1> HIDE DEF e
<1>2. g[s] = e(s)
  BY <1>1
<1>3. QED
  BY <1>2, Zenon DEF e

\* Two tables agree on the sets they have in common.
LEMMA SumTablesAgree ==
  ASSUME NEW f, NEW S, NEW T, IsFiniteSet(S), NEW g, NEW h,
         IsSumTable(g, f, S), IsSumTable(h, f, T)
  PROVE  \A s \in SUBSET (S \cap T) : g[s] = h[s]
<1> DEFINE B == {s \in SUBSET (S \cap T) : g[s] # h[s]}
<1>1. SUFFICES ASSUME B # {} PROVE FALSE
  OBVIOUS
<1>2. B \in SUBSET (SUBSET S)
  OBVIOUS
<1>3. PICK s \in B : \A u \in SUBSET s : u # s => u \notin B
  <2> HIDE DEF B
  <2>1. QED
    BY <1>1, <1>2, MinimalSubset
<1>4. s \in SUBSET S /\ s \in SUBSET T
  OBVIOUS
<1>5. /\ g[s] = IF s = {} THEN 0 ELSE f[Pick(s)] + g[s \ {Pick(s)}]
      /\ h[s] = IF s = {} THEN 0 ELSE f[Pick(s)] + h[s \ {Pick(s)}]
  BY <1>4, SumTableEntry
<1>6. s # {}
  BY <1>5
<1>7. Pick(s) \in s
  BY <1>6, PickOK
<1>8. s \ {Pick(s)} \notin B /\ s \ {Pick(s)} \in SUBSET (S \cap T)
  BY <1>3, <1>7
<1>9. g[s \ {Pick(s)}] = h[s \ {Pick(s)}]
  BY <1>8
<1>10. QED
  BY <1>5, <1>6, <1>9, Zenon

\* The sums of f over the subsets of a finite set have a table.
LEMMA SumTableExists ==
  ASSUME NEW f, NEW S, IsFiniteSet(S)
  PROVE  IsSumTable(SumTable(f, S), f, S)
<1> DEFINE B == {T \in SUBSET S : ~ \E g : IsSumTable(g, f, T)}
<1>1. SUFFICES ASSUME S \in B PROVE FALSE
  BY Zenon DEF SumTable
<1>2. B # {} /\ B \in SUBSET (SUBSET S)
  BY <1>1
<1>3. PICK T \in B : \A U \in SUBSET T : U # T => U \notin B
  <2> HIDE DEF B
  <2>1. QED
    BY <1>2, MinimalSubset
<1>4. IsFiniteSet(T) /\ T \in SUBSET S
  BY FS_Subset
<1>5. ASSUME NEW U \in SUBSET T, U # T
      PROVE  IsSumTable(SumTable(f, U), f, U) /\ IsFiniteSet(U)
  BY <1>3, <1>4, <1>5, FS_Subset, Zenon DEF SumTable
<1> DEFINE below(U) == IF U = {} THEN 0
                       ELSE f[Pick(U)] + SumTable(f, U \ {Pick(U)})[U \ {Pick(U)}]
           h == [U \in SUBSET T |-> below(U)]
<1>6. ASSUME NEW U \in SUBSET T, U # T
      PROVE  h[U] = SumTable(f, U)[U]
  <2>1. IsSumTable(SumTable(f, U), f, U)
    BY <1>5, <1>6
  <2>2. SumTable(f, U)[U] = IF U = {} THEN 0
                            ELSE f[Pick(U)] + SumTable(f, U)[U \ {Pick(U)}]
    BY <2>1, U \in SUBSET U, SumTableEntry
  <2>3. ASSUME U # {}
        PROVE  SumTable(f, U)[U \ {Pick(U)}] = SumTable(f, U \ {Pick(U)})[U \ {Pick(U)}]
    <3> DEFINE V == U \ {Pick(U)}
    <3>1. V \in SUBSET T /\ V # T /\ V \in SUBSET (U \cap V)
      BY <1>6, <2>3
    <3>2. IsSumTable(SumTable(f, V), f, V)
      BY <3>1, <1>5
    <3>3. IsFiniteSet(U)
      BY <1>5, <1>6
    <3> HIDE DEF V
    <3>4. SumTable(f, U)[V] = SumTable(f, V)[V]
      BY <2>1, <3>1, <3>2, <3>3, SumTablesAgree
    <3>5. QED
      BY <3>4 DEF V
  <2>4. h[U] = below(U)
    BY Zenon
  <2>5. QED
    BY <2>2, <2>3, <2>4, Zenon
<1>7. \A U \in SUBSET T : U # {} => U \ {Pick(U)} \in SUBSET T /\ U \ {Pick(U)} # T
  BY PickOK
<1> DEFINE e(U) == IF U = {} THEN 0 ELSE f[Pick(U)] + h[U \ {Pick(U)}]
<1>8. \A U \in SUBSET T : below(U) = e(U)
  <2> HIDE DEF h
  <2>1. QED
    BY <1>6, <1>7, Zenon
<1>9. h = [U \in SUBSET T |-> e(U)]
  <2>1. h = [U \in SUBSET T |-> below(U)]
    OBVIOUS
  <2> HIDE DEF h, below, e
  <2>2. QED
    BY <1>8, <2>1
<1>10. IsSumTable(h, f, T)
  <2> HIDE DEF h
  <2>1. QED
    BY <1>9, Zenon DEF IsSumTable
<1>11. QED
  BY <1>3, <1>10, Zenon

\* The entry for a subset is its sum.
LEMMA SumEntry ==
  ASSUME NEW f, NEW S, IsFiniteSet(S), NEW s \in SUBSET S
  PROVE  SumTable(f, S)[s] = SumFunctionOnSet(f, s)
<1>1. IsFiniteSet(s) /\ s \in SUBSET (S \cap s)
  BY FS_Subset
<1>2. IsSumTable(SumTable(f, S), f, S) /\ IsSumTable(SumTable(f, s), f, s)
  BY <1>1, SumTableExists
<1>3. SumTable(f, S)[s] = SumTable(f, s)[s]
  BY <1>1, <1>2, SumTablesAgree
<1>4. QED
  BY <1>3, SumIsTabulated

\* The sum over no elements.
LEMMA SumEmpty == ASSUME NEW f PROVE SumFunctionOnSet(f, {}) = 0
<1>1. IsFiniteSet({}) /\ {} \in SUBSET {}
  BY FS_EmptySet
<1>2. IsSumTable(SumTable(f, {}), f, {})
  BY <1>1, SumTableExists
<1>3. SumTable(f, {})[{}] = 0
  BY <1>1, <1>2, SumTableEntry, Zenon
<1>4. QED
  BY <1>3, SumIsTabulated

\* The defining equation of a sum.
LEMMA SumPick ==
  ASSUME NEW f, NEW S, IsFiniteSet(S), S # {}
  PROVE  SumFunctionOnSet(f, S) = f[Pick(S)] + SumFunctionOnSet(f, S \ {Pick(S)})
<1>1. SumTable(f, S)[S] = IF S = {} THEN 0 ELSE f[Pick(S)] + SumTable(f, S)[S \ {Pick(S)}]
  <2>1. IsSumTable(SumTable(f, S), f, S) /\ S \in SUBSET S
    BY SumTableExists
  <2>2. QED
    BY <2>1, SumTableEntry
<1>2. SumTable(f, S)[S \ {Pick(S)}] = SumFunctionOnSet(f, S \ {Pick(S)})
  BY SumEntry, Zenon
<1>3. QED
  BY <1>1, <1>2, SumIsTabulated, Zenon

\* A sum of integers is an integer, a sum of natural numbers a natural number.
LEMMA SumType ==
  ASSUME NEW f, NEW S, IsFiniteSet(S), NEW V \in {Nat, Int}, \A x \in S : f[x] \in V
  PROVE  SumFunctionOnSet(f, S) \in V
<1> DEFINE B == {T \in SUBSET S : SumFunctionOnSet(f, T) \notin V}
<1>1. SUFFICES ASSUME S \in B PROVE FALSE
  OBVIOUS
<1>2. B # {} /\ B \in SUBSET (SUBSET S)
  BY <1>1
<1>3. PICK T \in B : \A U \in SUBSET T : U # T => U \notin B
  <2> HIDE DEF B
  <2>1. QED
    BY <1>2, MinimalSubset
<1>4. IsFiniteSet(T) /\ T \in SUBSET S
  BY FS_Subset
<1>5. T # {}
  <2>1. 0 \in V
    OBVIOUS
  <2>2. QED
    BY <2>1, SumEmpty, Zenon
<1>6. Pick(T) \in T
  BY <1>5, PickOK
<1>7. f[Pick(T)] \in V /\ SumFunctionOnSet(f, T \ {Pick(T)}) \in V
  BY <1>3, <1>4, <1>6, Zenon
<1>8. \A a, b \in V : a + b \in V
  OBVIOUS
<1>9. QED
  BY <1>3, <1>4, <1>5, <1>7, <1>8, SumPick, Zenon

\* The order in which the elements are added does not matter.
LEMMA SumRemove ==
  ASSUME NEW f, NEW S, IsFiniteSet(S), \A x \in S : f[x] \in Int, NEW x \in S
  PROVE  SumFunctionOnSet(f, S) = f[x] + SumFunctionOnSet(f, S \ {x})
<1> DEFINE F(T) == SumFunctionOnSet(f, T)
           B == {T \in SUBSET S : \E y \in T : F(T) # f[y] + F(T \ {y})}
<1>1. SUFFICES ASSUME S \in B PROVE FALSE
  OBVIOUS
<1>2. B # {} /\ B \in SUBSET (SUBSET S)
  BY <1>1
<1>3. PICK T \in B : \A U \in SUBSET T : U # T => U \notin B
  <2> HIDE DEF B
  <2>1. QED
    BY <1>2, MinimalSubset
<1>4. IsFiniteSet(T) /\ T \in SUBSET S
  BY FS_Subset
<1>5. PICK y \in T : F(T) # f[y] + F(T \ {y})
  BY <1>3
<1> DEFINE z == Pick(T)
<1>6. z \in T /\ F(T) = f[z] + F(T \ {z})
  BY <1>4, <1>5, PickOK, SumPick
<1> HIDE DEF z, F
<1>7. y # z
  BY Zenon, <1>5, <1>6
<1>8. F(T \ {z}) = f[y] + F((T \ {z}) \ {y})
  BY <1>3, <1>4, <1>6, <1>7, Zenon
<1>9. F(T \ {y}) = f[z] + F((T \ {y}) \ {z})
  BY <1>3, <1>4, <1>5, <1>6, <1>7, Zenon
<1>10. (T \ {z}) \ {y} = (T \ {y}) \ {z}
  OBVIOUS
<1>11. F((T \ {z}) \ {y}) \in Int
  <2>1. IsFiniteSet((T \ {z}) \ {y})
    BY Zenon, <1>4, FS_RemoveElement
  <2>2. QED
    BY <2>1, <1>4, SumType DEF F
<1>12. f[y] \in Int /\ f[z] \in Int
  BY <1>4, <1>5, <1>6
<1> DEFINE w == F((T \ {z}) \ {y})
<1>13. F(T) = f[z] + (f[y] + w) /\ F(T \ {y}) = f[z] + w /\ w \in Int
  BY <1>6, <1>8, <1>9, <1>10, <1>11, Zenon
<1> HIDE DEF w
<1>14. f[z] + (f[y] + w) = f[y] + (f[z] + w)
  BY <1>12, <1>13
<1>15. QED
  BY <1>5, <1>13, <1>14, Zenon

\* The same, for an element that joins the set.
LEMMA SumAdd ==
  ASSUME NEW f, NEW S, IsFiniteSet(S), NEW x, x \notin S,
         \A y \in S \cup {x} : f[y] \in Int
  PROVE  SumFunctionOnSet(f, S \cup {x}) = f[x] + SumFunctionOnSet(f, S)
<1>1. IsFiniteSet(S \cup {x}) /\ x \in S \cup {x} /\ (S \cup {x}) \ {x} = S
  BY FS_AddElement
<1>2. QED
  BY <1>1, SumRemove

\* A sum only depends on the values it adds up.
LEMMA SumSame ==
  ASSUME NEW f, NEW g, NEW S, IsFiniteSet(S), \A x \in S : f[x] = g[x]
  PROVE  SumFunctionOnSet(f, S) = SumFunctionOnSet(g, S)
<1> DEFINE B == {T \in SUBSET S : SumFunctionOnSet(f, T) # SumFunctionOnSet(g, T)}
<1>1. SUFFICES ASSUME S \in B PROVE FALSE
  OBVIOUS
<1>2. B # {} /\ B \in SUBSET (SUBSET S)
  BY <1>1
<1>3. PICK T \in B : \A U \in SUBSET T : U # T => U \notin B
  <2> HIDE DEF B
  <2>1. QED
    BY <1>2, MinimalSubset
<1>4. IsFiniteSet(T) /\ T \in SUBSET S
  BY FS_Subset
<1>5. T # {}
  BY Zenon, <1>3, SumEmpty
<1>6. Pick(T) \in T
  BY <1>5, PickOK
<1>7. SumFunctionOnSet(f, T \ {Pick(T)}) = SumFunctionOnSet(g, T \ {Pick(T)})
  BY <1>3, <1>4, <1>6, Zenon
<1>8. f[Pick(T)] = g[Pick(T)]
  BY <1>4, <1>6, Zenon
<1>9. /\ SumFunctionOnSet(f, T) = f[Pick(T)] + SumFunctionOnSet(f, T \ {Pick(T)})
      /\ SumFunctionOnSet(g, T) = g[Pick(T)] + SumFunctionOnSet(g, T \ {Pick(T)})
  BY <1>4, <1>5, SumPick
<1>10. QED
  BY <1>3, <1>7, <1>8, <1>9, Zenon

\* One of the values changes.
LEMMA SumChange ==
  ASSUME NEW f, NEW g, NEW S, IsFiniteSet(S), NEW x \in S,
         \A y \in S : f[y] \in Int /\ g[y] \in Int,
         \A y \in S : y # x => f[y] = g[y]
  PROVE  SumFunctionOnSet(g, S) = SumFunctionOnSet(f, S) + (g[x] - f[x])
<1> DEFINE T == S \ {x}
           a == SumFunctionOnSet(f, T)
           b == SumFunctionOnSet(f, S)
           c == SumFunctionOnSet(g, S)
<1>1. IsFiniteSet(T) /\ \A y \in T : f[y] = g[y] /\ f[y] \in Int
  BY FS_RemoveElement
<1>2. SumFunctionOnSet(g, T) = a /\ a \in Int
  BY <1>1, SumSame, SumType
<1>3. b = f[x] + a /\ c = g[x] + SumFunctionOnSet(g, T)
  BY SumRemove
<1> HIDE DEF a, b, c
<1>4. c = b + (g[x] - f[x])
  BY <1>2, <1>3
<1>5. QED
  BY <1>4 DEF b, c

\* An element without a value can be left out.
LEMMA SumZero ==
  ASSUME NEW f, NEW S, IsFiniteSet(S), \A y \in S : f[y] \in Int, NEW x \in S, f[x] = 0
  PROVE  SumFunctionOnSet(f, S \ {x}) = SumFunctionOnSet(f, S)
<1> DEFINE a == SumFunctionOnSet(f, S \ {x})
<1>1. IsFiniteSet(S \ {x})
  BY FS_RemoveElement
<1>2. a \in Int
  BY <1>1, SumType
<1>3. SumFunctionOnSet(f, S) = f[x] + a
  BY SumRemove
<1> HIDE DEF a
<1>4. SumFunctionOnSet(f, S) = a
  BY <1>2, <1>3
<1>5. QED
  BY <1>4 DEF a

\* Zeros add up to zero.
LEMMA SumOfZeros ==
  ASSUME NEW f, NEW S, IsFiniteSet(S), \A x \in S : f[x] = 0
  PROVE  SumFunctionOnSet(f, S) = 0
<1> DEFINE B == {T \in SUBSET S : SumFunctionOnSet(f, T) # 0}
<1>1. SUFFICES ASSUME S \in B PROVE FALSE
  OBVIOUS
<1>2. B # {} /\ B \in SUBSET (SUBSET S)
  BY <1>1
<1>3. PICK T \in B : \A U \in SUBSET T : U # T => U \notin B
  <2> HIDE DEF B
  <2>1. QED
    BY <1>2, MinimalSubset
<1>4. IsFiniteSet(T) /\ T \in SUBSET S
  BY FS_Subset
<1>5. T # {}
  BY SumEmpty, Zenon
<1>6. Pick(T) \in T
  BY <1>5, PickOK
<1>7. f[Pick(T)] = 0 /\ SumFunctionOnSet(f, T \ {Pick(T)}) = 0
  BY <1>3, <1>4, <1>6, Zenon
<1>8. SumFunctionOnSet(f, T) = 0 + 0
  BY <1>4, <1>5, <1>7, SumPick, Zenon
<1>9. QED
  BY <1>3, <1>8

-----------------------------------------------------------------------------
(***************************************************************************)
(* Finite sets of numbers.                                                 *)
(***************************************************************************)

\* A finite set of natural numbers has an upper bound.
LEMMA FiniteIsBounded ==
  ASSUME NEW S \in SUBSET Nat, IsFiniteSet(S)
  PROVE  \E top \in Nat : \A x \in S : x <= top
<1> DEFINE B == {T \in SUBSET S : ~ \E top \in Nat : \A x \in T : x <= top}
<1>1. SUFFICES ASSUME S \in B PROVE FALSE
  OBVIOUS
<1>2. B # {} /\ B \in SUBSET (SUBSET S)
  BY Zenon, <1>1
<1>3. PICK T \in B : \A U \in SUBSET T : U # T => U \notin B
  <2> HIDE DEF B
  <2>1. QED
    BY Zenon, <1>2, MinimalSubset
<1>4. PICK y \in T : TRUE
  <2>1. CASE T = {}
    <3>1. \A x \in T : x <= 0
      BY <2>1
    <3>2. QED
      BY <1>3, <3>1
  <2>2. QED
    BY <2>1
<1>5. PICK top \in Nat : \A x \in T \ {y} : x <= top
  <2>1. T \ {y} \in SUBSET T /\ T \ {y} # T /\ T \ {y} \in SUBSET S
    BY <1>3, <1>4
  <2>2. QED
    BY <1>3, <2>1, Zenon
<1>6. y \in Nat /\ \A x \in T : x \in Nat
  BY <1>3, <1>4
<1>7. \A x \in T : x <= top + y
  BY <1>5, <1>6
<1>8. top + y \in Nat
  BY <1>6
<1>9. QED
  BY <1>3, <1>7, <1>8, Zenon

\* The least element that Min chooses, when there is one.
LEMMA LeastIsMin ==
  ASSUME NEW S \in SUBSET Nat, NEW m \in S, \A x \in S : m <= x
  PROVE  (CHOOSE x \in S : \A y \in S : x <= y) = m
<1> DEFINE c == CHOOSE x \in S : \A y \in S : x <= y
<1>1. c \in S /\ \A y \in S : c <= y
  BY Zenon
<1> HIDE DEF c
<1>2. c = m
  BY <1>1
<1>3. QED
  BY <1>2 DEF c
=============================================================================
