-------------------------- MODULE EngineBookProofs --------------------------
(***************************************************************************)
(* Theorems about MatchingEngine that count: what a walk along a level     *)
(* finds, how many orders the pool has handed out, how many trades a call  *)
(* makes, what a level's volume adds up to, where the submitted quantity   *)
(* went and how long a call takes.  They rest on EngineInv and on the      *)
(* lemmas about its steps in MatchingEngineProofs.                         *)
(***************************************************************************)
EXTENDS MatchingEngineProofs, DataLemmas

-----------------------------------------------------------------------------
(***************************************************************************)
(* The levels.  EngineInv says what single links lead to; these lemmas say *)
(* what a walk along them finds.                                           *)
(***************************************************************************)

\* g records the first n links of the walk along the level of tick p.
IsWalk(g, p, n) ==
  g = [i \in 0 .. n |-> IF i = 0 THEN head[p]
                        ELSE IF g[i - 1] = NULL THEN NULL ELSE next_order[g[i - 1]]]

Walk(p) == CHOOSE g : IsWalk(g, p, PoolCapacity)

RestingAt(p) == {o \in Resting : price[o] = p}

\* Level is the part of the walk before nullptr.
LEMMA LevelIsWalk ==
  ASSUME NEW p
  PROVE  Level(p) = [n \in 1 .. Cardinality({i \in 0 .. PoolCapacity : Walk(p)[i] # NULL}) |->
                       Walk(p)[n - 1]]
BY Zenon DEF Level, Walk, IsWalk

\* The recursive definition of the walk has a solution.
LEMMA WalkExists == ASSUME NEW p, NEW N \in Nat PROVE \E g : IsWalk(g, p, N)
<1> DEFINE B == {n \in Nat : ~ \E g : IsWalk(g, p, n)}
<1>1. SUFFICES ASSUME N \in B PROVE FALSE
  OBVIOUS
<1>2. B \in SUBSET Nat /\ B # {}
  BY <1>1
<1>3. PICK n \in B : \A m \in B : n <= m
  <2> HIDE DEF B
  <2>1. QED
    BY <1>2, LeastNumber
<1>4. n # 0
  <2> DEFINE g == [i \in 0 .. 0 |-> head[p]]
             e(i) == IF i = 0 THEN head[p]
                     ELSE IF g[i - 1] = NULL THEN NULL ELSE next_order[g[i - 1]]
  <2>1. g = [i \in 0 .. 0 |-> e(i)]
    OBVIOUS
  <2>2. IsWalk(g, p, 0)
    <3> HIDE DEF g
    <3>1. QED
      BY <2>1, Zenon DEF IsWalk
  <2>3. QED
    BY <2>2, Zenon
<1>5. n - 1 \in Nat /\ n - 1 \notin B
  BY <1>3, <1>4
<1>6. PICK g : IsWalk(g, p, n - 1)
  BY <1>5
<1> DEFINE s(x) == IF x = NULL THEN NULL ELSE next_order[x]
           h == [i \in 0 .. n |-> IF i = n THEN s(g[n - 1]) ELSE g[i]]
           e(i) == IF i = 0 THEN head[p] ELSE s(h[i - 1])
<1>7. \A i \in 0 .. n - 1 : g[i] = IF i = 0 THEN head[p] ELSE s(g[i - 1])
  <2> DEFINE d(i) == IF i = 0 THEN head[p] ELSE s(g[i - 1])
  <2>1. g = [i \in 0 .. n - 1 |-> d(i)]
    BY <1>6, Zenon DEF IsWalk
  <2> HIDE DEF d
  <2>2. \A i \in 0 .. n - 1 : g[i] = d(i)
    BY <2>1
  <2>3. QED
    BY <2>2, Zenon DEF d
<1> HIDE DEF s
<1>8. n \in Nat \ {0}
  BY <1>4
<1>9. /\ h[n] = s(g[n - 1])
      /\ \A i \in 0 .. n - 1 : h[i] = g[i]
  BY <1>8
<1>10. h = [i \in 0 .. n |-> h[i]]
  OBVIOUS
<1> HIDE DEF h
<1>11. ASSUME NEW i \in 0 .. n PROVE h[i] = e(i)
  <2>1. CASE i = n
    <3>1. i # 0 /\ i - 1 \in 0 .. n - 1 /\ i - 1 = n - 1
      BY <2>1, <1>8
    <3>2. QED
      BY <2>1, <3>1, <1>9
  <2>2. CASE i # n
    <3>1. i \in 0 .. n - 1 /\ (i # 0 => i - 1 \in 0 .. n - 1)
      BY <2>2, <1>8
    <3>2. QED
      BY <3>1, <1>7, <1>9
  <2>3. QED
    BY <2>1, <2>2
<1>12. h = [i \in 0 .. n |-> e(i)]
  <2> HIDE DEF e
  <2>1. QED
    BY <1>10, <1>11
<1>13. IsWalk(h, p, n)
  BY <1>12, Zenon DEF IsWalk, s
<1>14. QED
  BY <1>13, Zenon

\* The walk starts at head and follows next_order until nullptr.
LEMMA WalkSteps ==
  ASSUME NEW p
  PROVE  /\ Walk(p)[0] = head[p]
         /\ \A n \in 1 .. PoolCapacity :
              Walk(p)[n] = IF Walk(p)[n - 1] = NULL THEN NULL ELSE next_order[Walk(p)[n - 1]]
<1> DEFINE w == Walk(p)
           e(i) == IF i = 0 THEN head[p]
                   ELSE IF w[i - 1] = NULL THEN NULL ELSE next_order[w[i - 1]]
<1>1. IsWalk(w, p, PoolCapacity)
  BY WalkExists, PoolAssumption, Zenon DEF Walk
<1>2. w = [i \in 0 .. PoolCapacity |-> e(i)]
  BY <1>1, Zenon DEF IsWalk
<1> HIDE DEF e, w
<1>3. \A i \in 0 .. PoolCapacity : w[i] = e(i)
  BY <1>2
<1>4. 0 \in 0 .. PoolCapacity /\ \A n \in 1 .. PoolCapacity : n \in 0 .. PoolCapacity /\ n # 0
  BY PoolAssumption
<1>5. w[0] = e(0) /\ \A n \in 1 .. PoolCapacity : w[n] = e(n)
  BY <1>3, <1>4
<1>6. QED
  BY <1>4, <1>5, Zenon DEF e, w

\* Every order that the walk finds rests on the level.
LEMMA WalkRests ==
  ASSUME EngineInv, NEW p \in Ticks, NEW k \in 0 .. PoolCapacity, Walk(p)[k] # NULL
  PROVE  Walk(p)[k] \in RestingAt(p)
<1> DEFINE w == Walk(p)
           B == {n \in 0 .. PoolCapacity : w[n] # NULL /\ w[n] \notin RestingAt(p)}
<1>1. SUFFICES ASSUME k \in B PROVE FALSE
  OBVIOUS
<1>2. B \in SUBSET Nat /\ B # {}
  BY <1>1, PoolAssumption
<1>3. PICK n \in B : \A m \in B : n <= m
  <2> HIDE DEF B
  <2>1. QED
    BY <1>2, LeastNumber
<1>4. n \in 0 .. PoolCapacity /\ w[n] # NULL /\ w[n] \notin RestingAt(p)
  OBVIOUS
<1>5. ListInv
  BY Zenon DEF EngineInv
<1>6. CASE n = 0
  <2>1. w[n] = head[p]
    BY <1>6, WalkSteps
  <2>2. QED
    BY <2>1, <1>4, <1>5, Zenon DEF ListInv, HeadInv, RestingAt
<1>7. CASE n # 0
  <2>1. n \in 1 .. PoolCapacity /\ n - 1 \in 0 .. PoolCapacity /\ ~(n <= n - 1)
    BY <1>4, <1>7, PoolAssumption
  <2>2. w[n] = IF w[n - 1] = NULL THEN NULL ELSE next_order[w[n - 1]]
    BY <2>1, WalkSteps, Zenon
  <2>3. w[n - 1] # NULL /\ w[n] = next_order[w[n - 1]]
    BY <2>2, <1>4, Zenon
  <2>4. n - 1 \notin B
    BY <1>3, <2>1
  <2>5. w[n - 1] \in RestingAt(p)
    BY <2>1, <2>3, <2>4
  <2> HIDE DEF w
  <2>6. QED
    BY <2>3, <2>5, <1>4, <1>5, ZenonT(40) DEF ListInv, LinkInv, RestingAt
<1>8. QED
  BY <1>6, <1>7

\* A step of the walk leads to a later order, whose prev_order leads back.
LEMMA WalkLinks ==
  ASSUME EngineInv, NEW p \in Ticks, NEW n \in 1 .. PoolCapacity, Walk(p)[n] # NULL
  PROVE  /\ Walk(p)[n - 1] \in RestingAt(p)
         /\ id[Walk(p)[n - 1]] < id[Walk(p)[n]]
         /\ prev_order[Walk(p)[n]] = Walk(p)[n - 1]
<1> DEFINE w == Walk(p)
<1>1. n - 1 \in 0 .. PoolCapacity
  BY PoolAssumption
<1>2. w[n] = IF w[n - 1] = NULL THEN NULL ELSE next_order[w[n - 1]]
  BY WalkSteps, Zenon
<1>3. w[n - 1] # NULL /\ w[n] = next_order[w[n - 1]]
  BY <1>2, Zenon
<1>4. w[n - 1] \in RestingAt(p)
  BY <1>1, <1>3, WalkRests
<1> HIDE DEF w
<1>5. QED
  BY <1>3, <1>4, Zenon DEF w, EngineInv, ListInv, LinkInv, RestingAt

\* Its orders come in the order of their ids, so it finds none of them twice.
LEMMA WalkSorted ==
  ASSUME EngineInv, NEW p \in Ticks, NEW k \in 0 .. PoolCapacity, Walk(p)[k] # NULL,
         NEW m \in 0 .. PoolCapacity, m < k
  PROVE  Walk(p)[m] # NULL /\ id[Walk(p)[m]] < id[Walk(p)[k]]
<1> DEFINE w == Walk(p)
           sorted(n) == w[m] # NULL /\ id[w[m]] < id[w[n]]
           B == {n \in 0 .. PoolCapacity : m < n /\ w[n] # NULL /\ ~sorted(n)}
<1>1. SUFFICES ASSUME k \in B PROVE FALSE
  OBVIOUS
<1>2. B \in SUBSET Nat /\ B # {}
  BY <1>1, PoolAssumption
<1>3. PICK n \in B : \A i \in B : n <= i
  <2> HIDE DEF B
  <2>1. QED
    BY <1>2, LeastNumber
<1>4. n \in 0 .. PoolCapacity /\ m < n /\ w[n] # NULL /\ ~sorted(n)
  OBVIOUS
<1>5. n \in 1 .. PoolCapacity /\ n - 1 \in 0 .. PoolCapacity /\ ~(n <= n - 1) /\ m <= n - 1
  BY <1>4, PoolAssumption
<1>6. w[n - 1] \in RestingAt(p) /\ id[w[n - 1]] < id[w[n]] /\ w[n] \in RestingAt(p)
  BY <1>4, <1>5, WalkLinks, WalkRests
<1>7. NULL \notin Slots /\ TypeOK /\ RestingAt(p) \subseteq Resting
  BY PoolAssumption, Zenon DEF Slots, EngineInv, RestingAt
<1>8. \A x \in RestingAt(p) : x # NULL /\ id[x] \in Int
  <2>1. \A x \in RestingAt(p) : x # NULL /\ id[x] \in Nat
    BY <1>7, RestingOK, Zenon
  <2>2. QED
    BY <2>1
<1>9. CASE m = n - 1
  BY <1>4, <1>6, <1>8, <1>9
<1>10. CASE m # n - 1
  <2>1. m < n - 1
    BY <1>5, <1>10
  <2>2. n - 1 \notin B
    BY <1>3, <1>5
  <2>3. w[m] # NULL /\ id[w[m]] < id[w[n - 1]]
    BY <1>5, <1>6, <1>8, <2>1, <2>2
  <2>4. w[m] \in RestingAt(p)
    BY <2>3, WalkRests
  <2>5. QED
    BY <2>3, <2>4, <1>4, <1>6, <1>8
<1>11. QED
  BY <1>9, <1>10

\* The walk reaches nullptr within the pool's capacity, and what it found before is Level.
LEMMA WalkEnds ==
  ASSUME EngineInv, NEW p \in Ticks
  PROVE  \E n \in 0 .. PoolCapacity :
           /\ Walk(p)[n] = NULL
           /\ \A i \in 0 .. n - 1 : Walk(p)[i] # NULL
           /\ Level(p) = [i \in 1 .. n |-> Walk(p)[i - 1]]
<1> DEFINE w == Walk(p)
           B == {n \in 0 .. PoolCapacity : w[n] = NULL}
<1>1. PoolCapacity \in Nat
  BY PoolAssumption
<1>2. \A n \in 0 .. PoolCapacity : w[n] # NULL => w[n] \in Slots /\ id[w[n]] \in Nat
  <2>1. TypeOK
    BY DEF EngineInv
  <2>2. QED
    BY <2>1, WalkRests, RestingOK, Zenon DEF RestingAt
<1>3. B # {}
  <2> SUFFICES ASSUME \A n \in 0 .. PoolCapacity : w[n] # NULL PROVE FALSE
    OBVIOUS
  <2> DEFINE f == [n \in 0 .. PoolCapacity |-> w[n]]
  <2>1. f \in [0 .. PoolCapacity -> Slots]
    BY <1>2
  <2>2. /\ IsFiniteSet(0 .. PoolCapacity) /\ Cardinality(0 .. PoolCapacity) = PoolCapacity + 1
        /\ IsFiniteSet(Slots) /\ Cardinality(Slots) = PoolCapacity
    <3>1. /\ IsFiniteSet(0 .. PoolCapacity)
          /\ Cardinality(0 .. PoolCapacity) =
               IF 0 > PoolCapacity THEN 0 ELSE PoolCapacity - 0 + 1
      BY FS_Interval, <1>1
    <3>2. /\ IsFiniteSet(0 .. PoolCapacity - 1)
          /\ Cardinality(0 .. PoolCapacity - 1) =
               IF 0 > PoolCapacity - 1 THEN 0 ELSE PoolCapacity - 1 - 0 + 1
      BY FS_Interval, <1>1
    <3>3. QED
      BY <3>1, <3>2, <1>1 DEF Slots
  <2>3. Cardinality(Slots) < Cardinality(0 .. PoolCapacity)
    BY <2>2, <1>1
  <2> HIDE DEF f
  <2>4. PICK i, j \in 0 .. PoolCapacity : i # j /\ f[i] = f[j]
    BY ZenonT(40), <2>1, <2>2, <2>3, FS_PigeonHole
  <2>5. w[i] = w[j]
    BY <2>4 DEF f
  <2>6. id[w[i]] \in Nat /\ i \in Int /\ j \in Int
    BY <1>1, <1>2
  <2>7. CASE i < j
    <3>1. id[w[i]] < id[w[j]]
      BY <2>7, WalkSorted
    <3>2. QED
      BY <2>5, <2>6, <3>1
  <2>8. CASE j < i
    <3>1. id[w[j]] < id[w[i]]
      BY <2>8, WalkSorted
    <3>2. QED
      BY <2>5, <2>6, <3>1
  <2>9. QED
    BY <2>4, <2>6, <2>7, <2>8
<1>4. B \in SUBSET Nat
  BY <1>1
<1>5. PICK n \in B : \A m \in B : n <= m
  <2> HIDE DEF B
  <2>1. QED
    BY <1>3, <1>4, LeastNumber
<1>6. n \in 0 .. PoolCapacity /\ w[n] = NULL
  OBVIOUS
<1>7. \A i \in 0 .. n - 1 : i \in 0 .. PoolCapacity /\ w[i] # NULL
  BY <1>1, <1>5, <1>6
<1>8. \A i \in 0 .. PoolCapacity : w[i] # NULL => i \in 0 .. n - 1
  <2> SUFFICES ASSUME NEW i \in 0 .. PoolCapacity, w[i] # NULL, n < i PROVE FALSE
    BY <1>1, <1>6
  <2>1. QED
    BY <1>6, WalkSorted
<1>9. {i \in 0 .. PoolCapacity : w[i] # NULL} = 0 .. n - 1
  BY <1>7, <1>8
<1>10. Cardinality(0 .. n - 1) = n
  <2>1. Cardinality(0 .. n - 1) = IF 0 > n - 1 THEN 0 ELSE n - 1 - 0 + 1
    BY FS_Interval, <1>1, <1>6
  <2>2. QED
    BY <2>1, <1>1, <1>6
<1>11. Level(p) = [i \in 1 .. n |-> w[i - 1]]
  BY <1>9, <1>10, LevelIsWalk, Zenon
<1>12. QED
  BY <1>6, <1>7, <1>11, Zenon

\* The levels are sound: each one, walked from head, holds the resting orders of its
\* price in the order in which they arrived, and ends at tail.
LEMMA LevelSound ==
  ASSUME EngineInv, NEW p \in Ticks
  PROVE  LET lv == Level(p)
         IN  /\ Range(lv) = RestingAt(p)
             /\ \A i \in 1 .. Len(lv) - 1 : id[lv[i]] < id[lv[i + 1]]
             /\ tail[p] = IF lv = <<>> THEN NULL ELSE lv[Len(lv)]
             /\ \A i \in 1 .. Len(lv) : prev_order[lv[i]] = IF i = 1 THEN NULL ELSE lv[i - 1]
<1> DEFINE w == Walk(p)
           lv == Level(p)
<1>1. PICK n \in 0 .. PoolCapacity : /\ w[n] = NULL
                                     /\ \A i \in 0 .. n - 1 : w[i] # NULL
                                     /\ lv = [i \in 1 .. n |-> w[i - 1]]
  BY WalkEnds, Zenon
<1>2. TypeOK /\ LiveInv /\ ListInv
  BY Zenon DEF EngineInv
<1>3. PoolCapacity \in Nat /\ n \in Nat
  BY PoolAssumption
<1>4. w[0] = head[p]
  BY WalkSteps
<1>5. \A i \in 1 .. n : w[i] = next_order[w[i - 1]]
  <2> SUFFICES ASSUME NEW i \in 1 .. n PROVE w[i] = next_order[w[i - 1]]
    BY Zenon
  <2>1. i \in 1 .. PoolCapacity /\ i - 1 \in 0 .. n - 1
    BY <1>3
  <2>2. w[i] = IF w[i - 1] = NULL THEN NULL ELSE next_order[w[i - 1]]
    BY <2>1, WalkSteps, Zenon
  <2>3. QED
    BY <2>1, <2>2, <1>1, Zenon
<1>6. \A i \in 0 .. n - 1 : w[i] \in RestingAt(p)
  <2> TAKE i \in 0 .. n - 1
  <2>1. i \in 0 .. PoolCapacity
    BY <1>3
  <2>2. QED
    BY <2>1, <1>1, WalkRests
<1>7. \A i \in 1 .. n - 1 : /\ id[w[i - 1]] < id[w[i]]
                            /\ prev_order[w[i]] = w[i - 1]
  <2> TAKE i \in 1 .. n - 1
  <2>1. i \in 1 .. PoolCapacity /\ i \in 0 .. n - 1
    BY <1>3
  <2>2. QED
    BY <2>1, <1>1, WalkLinks
<1> HIDE DEF w, lv
<1>8. Len(lv) = n /\ DOMAIN lv = 1 .. n /\ \A i \in 1 .. n : lv[i] = w[i - 1]
  BY <1>1, <1>3
<1>9. ASSUME NEW o \in RestingAt(p)
      PROVE  \E i \in 0 .. n - 1 : w[i] = o
  <2> SUFFICES ASSUME \A i \in 0 .. n - 1 : w[i] # o PROVE FALSE
    OBVIOUS
  <2>1. o \in Resting /\ price[o] = p /\ o \in LiveSlots
    BY <1>2, RestingOK DEF RestingAt
  <2>2. head[p] # NULL /\ id[head[p]] <= id[o]
    BY <1>2, <2>1, Zenon DEF ListInv, FirstInv
  <2>3. n # 0
    BY <1>1, <1>4, <2>2
  <2>4. \A x \in RestingAt(p) : /\ x \in Resting /\ x \in LiveSlots /\ price[x] = p
                                /\ id[x] \in Int
    <3>1. \A x \in RestingAt(p) : x \in Resting /\ price[x] = p
      BY DEF RestingAt
    <3>2. \A x \in Resting : x \in LiveSlots /\ id[x] \in Int
      BY <1>2, RestingOK, TicksAreIntegers, Zenon
    <3>3. QED
      BY <3>1, <3>2, Zenon
  <2>5. \A i \in 0 .. n - 1 : id[w[i]] # id[o]
    BY <1>2, <1>6, <2>1, <2>4, Zenon DEF LiveInv
  <2> DEFINE B == {i \in 0 .. n - 1 : ~(id[w[i]] < id[o])}
  <2>6. B = {}
    <3> SUFFICES ASSUME B # {} PROVE FALSE
      OBVIOUS
    <3>1. B \in SUBSET Nat
      BY <1>3
    <3>2. PICK i \in B : \A j \in B : i <= j
      <4> HIDE DEF B
      <4>1. QED
        BY <3>1, LeastNumber
    <3>3. i \in 0 .. n - 1 /\ ~(id[w[i]] < id[o])
      OBVIOUS
    <3>4. id[w[i]] \in Int /\ id[o] \in Int /\ id[w[i]] # id[o]
      BY <3>3, <1>6, <2>4, <2>5
    <3>5. CASE i = 0
      BY SMTT(30), <3>3, <3>4, <3>5, <1>4, <2>2
    <3>6. CASE i # 0
      <4>1. i - 1 \in 0 .. n - 1 /\ i \in 1 .. n /\ ~(i <= i - 1)
        BY <3>3, <3>6, <1>3
      <4>2. i - 1 \notin B
        BY <3>2, <4>1
      <4>3. id[w[i - 1]] < id[o] /\ w[i - 1] \in RestingAt(p)
        BY <4>1, <4>2, <1>6
      <4>4. id[next_order[w[i - 1]]] <= id[o]
        BY <4>3, <1>2, <2>1, <2>4, Zenon DEF ListInv, NextInv
      <4>5. id[w[i]] <= id[o]
        BY <4>1, <4>4, <1>5, Zenon
      <4>6. QED
        BY <4>5, <3>3, <3>4
    <3>7. QED
      BY <3>5, <3>6
  <2>7. n - 1 \in 0 .. n - 1 /\ n \in 1 .. n
    BY <1>3, <2>3
  <2>8. id[w[n - 1]] < id[o] /\ w[n - 1] \in RestingAt(p)
    BY <2>6, <2>7, <1>6
  <2>9. next_order[w[n - 1]] # NULL
    BY <2>8, <1>2, <2>1, <2>4, Zenon DEF ListInv, NextInv
  <2>10. QED
    BY <2>7, <2>9, <1>1, <1>5, Zenon DEF w
<1>10. Range(lv) = RestingAt(p)
  <2>1. \A i \in 1 .. n : lv[i] \in RestingAt(p)
    <3> TAKE i \in 1 .. n
    <3>1. i - 1 \in 0 .. n - 1
      BY <1>3
    <3>2. QED
      BY <3>1, <1>6, <1>8
  <2>2. \A o \in RestingAt(p) : \E i \in 1 .. n : lv[i] = o
    <3> TAKE o \in RestingAt(p)
    <3>1. PICK j \in 0 .. n - 1 : w[j] = o
      BY <1>9
    <3>2. j + 1 \in 1 .. n /\ (j + 1) - 1 = j
      BY <1>3
    <3>3. lv[j + 1] = o
      BY <3>1, <3>2, <1>8
    <3>4. QED
      BY <3>2, <3>3
  <2>3. QED
    BY <2>1, <2>2, <1>8, ZenonT(40) DEF Range
<1>11. \A i \in 1 .. Len(lv) - 1 : id[lv[i]] < id[lv[i + 1]]
  <2> SUFFICES ASSUME NEW i \in 1 .. Len(lv) - 1 PROVE id[lv[i]] < id[lv[i + 1]]
    BY Zenon
  <2>1. i \in 1 .. n - 1 /\ i \in 1 .. n /\ i + 1 \in 1 .. n /\ (i + 1) - 1 = i
    BY <1>3, <1>8
  <2>2. lv[i] = w[i - 1] /\ lv[i + 1] = w[i]
    BY <2>1, <1>8
  <2>3. QED
    BY <2>1, <2>2, <1>7
<1>12. tail[p] = IF lv = <<>> THEN NULL ELSE lv[Len(lv)]
  <2>1. CASE n = 0
    <3>1. lv = <<>>
      BY <2>1, <1>1
    <3>2. head[p] = NULL
      BY <2>1, <1>1, <1>4 DEF w
    <3>3. QED
      BY <3>1, <3>2, <1>2, Zenon DEF ListInv, EmptyInv
  <2>2. CASE n # 0
    <3>1. n \in 1 .. n /\ n - 1 \in 0 .. n - 1
      BY <2>2, <1>3
    <3>2. w[n - 1] \in RestingAt(p) /\ next_order[w[n - 1]] = NULL
      BY <3>1, <1>1, <1>5, <1>6 DEF w
    <3>3. tail[p] = w[n - 1]
      BY <3>2, <1>2, Zenon DEF ListInv, LinkInv, RestingAt
    <3>4. lv # <<>>
      BY <3>1, <1>8
    <3>5. lv[Len(lv)] = w[n - 1]
      BY <3>1, <1>8
    <3>6. QED
      BY <3>3, <3>4, <3>5
  <2>3. QED
    BY <2>1, <2>2
<1>13. \A i \in 1 .. Len(lv) : prev_order[lv[i]] = IF i = 1 THEN NULL ELSE lv[i - 1]
  <2> TAKE i \in 1 .. Len(lv)
  <2>1. i \in 1 .. n
    BY <1>8
  <2>2. CASE i = 1
    <3>1. lv[i] = head[p] /\ 0 \in 0 .. n - 1
      BY <2>1, <2>2, <1>3, <1>4, <1>8
    <3>2. head[p] # NULL
      BY <3>1, <1>1, <1>4 DEF w
    <3>3. QED
      BY <2>2, <3>1, <3>2, <1>2, Zenon DEF ListInv, HeadInv
  <2>3. CASE i # 1
    <3>1. i - 1 \in 1 .. n - 1 /\ i - 1 \in 1 .. n
      BY <2>1, <2>3, <1>3
    <3>2. prev_order[w[i - 1]] = w[(i - 1) - 1] /\ lv[i - 1] = w[(i - 1) - 1]
      BY <3>1, <1>7, <1>8
    <3>3. QED
      BY <2>1, <2>3, <3>2, <1>8
  <2>4. QED
    BY <2>2, <2>3
<1>14. QED
  BY <1>10, <1>11, <1>12, <1>13 DEF lv

\* The intrusive lists are sound in every reachable state.
THEOREM ListsSound == Spec => []LevelsAreFifo
<1>1. EngineInv => LevelsAreFifo
  BY LevelSound, Zenon DEF LevelsAreFifo, RestingAt
<1>2. QED
  BY <1>1, EngineInvariant, PTL

\* What is linked into the book are the resting orders.
LEMMA BookIsResting ==
  ASSUME EngineInv
  PROVE  /\ \A p \in Ticks : OnLevel(p) = RestingAt(p)
         /\ OnBook = Resting
<1>1. \A p \in Ticks : OnLevel(p) = RestingAt(p)
  BY LevelSound, Zenon DEF OnLevel
<1>2. \A o \in Resting : price[o] \in Ticks /\ o \in RestingAt(price[o])
  BY RestingOK DEF EngineInv, RestingAt
<1>3. \A p \in Ticks : RestingAt(p) \subseteq Resting
  BY DEF RestingAt
<1>4. OnBook = Resting
  BY <1>1, <1>2, <1>3, Zenon DEF OnBook
<1>5. QED
  BY <1>1, <1>4

-----------------------------------------------------------------------------
(***************************************************************************)
(* The pool's accounts.                                                    *)
(***************************************************************************)

\* used_count counts the slots that are handed out.
LEMMA UsedIsLive == ASSUME PoolInv PROVE used_count = Cardinality(LiveSlots)
<1> DEFINE f == [i \in 0 .. top |-> free_indices[i]]
<1>1. /\ PoolCapacity \in Nat /\ top \in -1 .. PoolCapacity - 1
      /\ used_count \in Nat /\ used_count + top + 1 = PoolCapacity
      /\ 0 .. top \subseteq Slots
  BY PoolAssumption DEF PoolInv, PoolTypeOK, StackOK, Slots
<1>2. IsFiniteSet(0 .. top) /\ Cardinality(0 .. top) = top + 1
  <2>1. IsFiniteSet(0 .. top) /\ Cardinality(0 .. top) = IF 0 > top THEN 0 ELSE top - 0 + 1
    BY <1>1, FS_Interval
  <2>2. QED
    BY <1>1, <2>1
<1>3. IsFiniteSet(Slots) /\ Cardinality(Slots) = PoolCapacity
  <2>1. /\ IsFiniteSet(0 .. PoolCapacity - 1)
        /\ Cardinality(0 .. PoolCapacity - 1) =
             IF 0 > PoolCapacity - 1 THEN 0 ELSE PoolCapacity - 1 - 0 + 1
    BY <1>1, FS_Interval
  <2>2. QED
    BY <1>1, <2>1 DEF Slots
<1>4. f \in Surjection(0 .. top, FreeSlots) /\ f \in Injection(0 .. top, FreeSlots)
  BY Zenon DEF Surjection, Injection, IsInjective, FreeSlots, PoolInv, StackOK
<1> HIDE DEF f
<1>5. IsFiniteSet(FreeSlots) /\ Cardinality(FreeSlots) = top + 1
  BY <1>2, <1>4, FS_Surjection
<1>6. FreeSlots \subseteq Slots
  BY <1>1 DEF FreeSlots, PoolInv, PoolTypeOK
<1>7. Cardinality(LiveSlots) = Cardinality(Slots) - Cardinality(Slots \cap FreeSlots)
  BY <1>3, FS_Difference DEF LiveSlots
<1>8. Slots \cap FreeSlots = FreeSlots
  BY <1>6
<1>9. Cardinality(LiveSlots) = PoolCapacity - (top + 1)
  BY Zenon, <1>3, <1>5, <1>7, <1>8
<1>10. QED
  BY <1>1, <1>9

\* No order is lost or released twice.
THEOREM PoolAccounts == Spec => []PoolAccountsForOrders
<1>1. EngineInv => PoolAccountsForOrders
  <2> SUFFICES ASSUME EngineInv PROVE PoolAccountsForOrders
    OBVIOUS
  <2>1. PoolInv /\ StackOK
    BY Zenon DEF EngineInv, TypeOK, PoolInv
  <2>2. ASSUME pc = "idle" PROVE LiveSlots = OnBook
    <3>1. \A o \in LiveSlots : quantity[o] > 0
      <4> TAKE o \in LiveSlots
      <4>1. trash_q = <<>>
        BY <2>2 DEF EngineInv, CallInv
      <4>2. ~\E i \in 1 .. Len(trash_q) : trash_q[i] = o
        BY <4>1
      <4>3. QED
        BY <2>2, <4>2, Zenon DEF EngineInv, LiveInv
    <3>2. Resting = LiveSlots
      BY <2>2, <3>1, Zenon DEF Resting
    <3>3. QED
      BY <3>2, BookIsResting
  <2>3. QED
    BY <2>1, <2>2, UsedIsLive, Zenon DEF PoolAccountsForOrders, StackOK
<1>2. QED
  BY <1>1, EngineInvariant, PTL

-----------------------------------------------------------------------------
(***************************************************************************)
(* The fixed queues.                                                       *)
(***************************************************************************)

\* While there is something to match, every trade so far has filled its resting order:
\* only the last trade of a call can leave one.
FixedQueueInv ==
  /\ Len(trash_q) <= Len(exec_q)
  /\ pc = "match" => Len(exec_q) = Len(trash_q) \/ quantity[incoming] = 0

\* The filled orders that wait in trash_q, the incoming order and one more that is not
\* filled are different orders in use.
LEMMA TrashIsUsed ==
  ASSUME EngineInv, incoming \in LiveSlots, NEW r \in LiveSlots, r # incoming, quantity[r] > 0
  PROVE  Len(trash_q) + 2 <= used_count
<1> DEFINE n == Len(trash_q)
           others == (LiveSlots \ {incoming}) \ {r}
<1>1. trash_q \in Seq(Slots) /\ n \in Nat /\ used_count \in Nat
  BY DEF EngineInv, TypeOK, BookTypeOK, PoolTypeOK
<1>2. IsFiniteSet(LiveSlots) /\ Cardinality(LiveSlots) = used_count
  <2>1. IsFiniteSet(Slots)
    <3>1. PoolCapacity - 1 \in Int BY PoolAssumption
    <3> QED BY <3>1, FS_Interval DEF Slots
  <2>2. LiveSlots \in SUBSET Slots BY DEF LiveSlots
  <2>3. PoolInv BY Zenon DEF EngineInv, TypeOK, PoolInv
  <2> QED BY Zenon, <2>1, <2>2, <2>3, FS_Subset, UsedIsLive
<1>3. /\ IsFiniteSet(LiveSlots \ {incoming})
      /\ Cardinality(LiveSlots \ {incoming}) = used_count - 1
  BY Zenon, <1>2, FS_RemoveElement
<1>4. IsFiniteSet(others) /\ Cardinality(others) = used_count - 2
  <2>1. r \in LiveSlots \ {incoming} OBVIOUS
  <2>2. (used_count - 1) - 1 = used_count - 2 BY <1>1
  <2> QED BY Zenon, <2>1, <2>2, <1>3, FS_RemoveElement
<1>5. \A i \in 1 .. n : trash_q[i] \in others
  <2> SUFFICES ASSUME NEW i \in 1 .. n PROVE trash_q[i] \in others OBVIOUS
  <2>1. trash_q[i] \in LiveSlots /\ quantity[trash_q[i]] = 0 /\ trash_q[i] # incoming
    BY DEF EngineInv, TrashInv
  <2>2. trash_q[i] # r BY <2>1
  <2> QED BY <2>1, <2>2
<1>6. trash_q \in Injection(1 .. n, others)
  BY <1>1, <1>5 DEF Injection, IsInjective, EngineInv, TrashInv
<1>7. Cardinality(1 .. n) <= Cardinality(others)
  BY <1>4, <1>6, FS_Injection
<1> HIDE DEF n, others
<1>8. Cardinality(1 .. n) = n
  <2>1. 1 \in Int /\ n \in Int /\ (1 > n => n = 0) /\ (n - 1) + 1 = n BY <1>1
  <2> QED BY <2>1, FS_Interval
<1>9. n + 2 <= used_count
  BY <1>1, <1>4, <1>7, <1>8
<1> QED BY <1>9 DEF n

\* A trade with something left to match.
LEMMA TradeFixedQueues == ASSUME EngineInv, FixedQueueInv, MatchTrade PROVE FixedQueueInv'
<1> DEFINE r == RestingOrder(incoming)
           q == trade_quantity(incoming, r)
<1>1. /\ TypeOK /\ pc = "match" /\ pc' = pc /\ incoming' = incoming
      /\ incoming \in Slots
      /\ quantity[incoming] > 0 /\ r # NULL /\ Touch(incoming) \in Ticks
  BY Zenon DEF MatchTrade, Trade, Matching, EngineInv, CallInv, LiveSlots, callVars, TypeOK, BookTypeOK, Touch
<1>2. r \in Resting
  BY <1>1 DEF RestingOrder, EngineInv, ListInv, HeadInv
<1>3. r \in Slots /\ r # incoming /\ quantity[r] > 0
  BY <1>1, <1>2 DEF Resting, LiveSlots
<1>5. /\ quantity \in [Slots -> 0 .. U32 - 1] /\ U32 \in Nat
      /\ trash_q \in Seq(Slots) /\ exec_q \in Seq(Trades)
  BY <1>1, OrderBookAssumption DEF TypeOK, BookTypeOK
<1>6. Len(exec_q) = Len(trash_q)
  BY <1>1, <1>5 DEF FixedQueueInv
<1>7. /\ exec_q' = Append(exec_q, Execution(incoming, r, q))
      /\ quantity' = [quantity EXCEPT ![incoming] = @ - q, ![r] = @ - q]
      /\ IF quantity[r] = q THEN trash_q' = Append(trash_q, r) ELSE trash_q' = trash_q
  BY DEF MatchTrade, Trade, TradeWith
<1>8. quantity[r] = q \/ quantity[incoming] = q
  BY DEF trade_quantity
<1>9. quantity'[incoming] = quantity[incoming] - q
  BY <1>1, <1>3, <1>5, <1>7
<1> HIDE DEF r, q
<1>10. Len(exec_q') = Len(exec_q) + 1
  BY <1>5, <1>7
<1>11. CASE quantity[r] = q
  <2>1. Len(trash_q') = Len(trash_q) + 1 BY <1>3, <1>5, <1>7, <1>11
  <2> QED BY <2>1, <1>5, <1>6, <1>10 DEF FixedQueueInv
<1>12. CASE quantity[r] # q
  <2>1. quantity'[incoming] = 0 BY <1>1, <1>5, <1>8, <1>9, <1>12
  <2>2. trash_q' = trash_q BY <1>7, <1>12
  <2> QED BY SMTT(30), <2>1, <2>2, <1>1, <1>5, <1>6, <1>10 DEF FixedQueueInv
<1> QED BY Zenon, <1>11, <1>12

\* Every other step pushes nothing.
LEMMA FixedQueuesNext == EngineInv /\ FixedQueueInv /\ [Next]_vars => FixedQueueInv'
<1> SUFFICES ASSUME EngineInv, FixedQueueInv, [Next]_vars PROVE FixedQueueInv'
  OBVIOUS
<1>0. trash_q \in Seq(Slots) /\ exec_q \in Seq(Trades)
  BY DEF EngineInv, TypeOK, BookTypeOK
<1>1. CASE RejectOrder
  BY <1>1 DEF RejectOrder, CallerReady, FixedQueueInv, tradeVars, callVars
<1>2. ASSUME NEW l \in Limits, NEW q \in Quantities, NEW t \in Traders,
             AcceptOrder(l[1], l[2], q, t)
      PROVE  FixedQueueInv'
  <2>1. exec_q = <<>> /\ trash_q = <<>> /\ exec_q' = exec_q /\ trash_q' = trash_q
    BY ZenonT(40), <1>2 DEF AcceptOrder, CallerReady, tradeVars, EngineInv, CallInv
  <2> QED BY Zenon, <2>1 DEF FixedQueueInv
<1>3. CASE MatchSkip
  BY <1>3 DEF MatchSkip, SkipLevel, FixedQueueInv, tradeVars, callVars
<1>4. CASE MatchTrade
  BY <1>4, TradeFixedQueues
<1>5. CASE MatchEnd
  BY <1>5 DEF MatchEnd, EndMatch, FixedQueueInv, tradeVars
<1>6. CASE ReleaseDead
  <2>1. /\ pc' = "reclaim" /\ exec_q' = exec_q /\ trash_q # <<>>
        /\ Len(trash_q') = Len(trash_q) - 1
    BY <1>0, <1>6 DEF ReleaseDead
  <2> QED BY <2>1, <1>0 DEF FixedQueueInv
<1>7. CASE Return
  BY <1>7 DEF Return, FixedQueueInv, tradeVars
<1>8. CASE clear_execution_queue
  <2>1. exec_q' = <<>> /\ trash_q' = <<>> /\ pc' = "idle"
    BY <1>8 DEF clear_execution_queue, EngineInv, CallInv
  <2> QED BY <2>1 DEF FixedQueueInv
<1>9. CASE UNCHANGED vars
  BY <1>9 DEF vars, tradeVars, callVars, FixedQueueInv
<1> QED
  BY Zenon, <1>1, <1>2, <1>3, <1>4, <1>5, <1>6, <1>7, <1>8, <1>9 DEF Next, submit_order, CallStep

\* Before an overrun as many orders wait in trash_q as the queues have slots.
LEMMA OverrunUses == ASSUME EngineInv, FixedQueueInv PROVE OverrunNeedsDeepBook
<1> SUFFICES ASSUME Overrun PROVE used_count > FixedCapacity + 1
  BY DEF OverrunNeedsDeepBook
<1> DEFINE r == RestingOrder(incoming)
<1>1. /\ TypeOK /\ pc = "match" /\ incoming \in LiveSlots
      /\ quantity[incoming] > 0 /\ r # NULL /\ Touch(incoming) \in Ticks
  BY Zenon DEF Overrun, Overruns, Matching, EngineInv, CallInv, TypeOK, BookTypeOK, Touch
<1>2. r \in Resting
  BY <1>1 DEF RestingOrder, EngineInv, ListInv, HeadInv
<1>3. r \in LiveSlots /\ r # incoming /\ quantity[r] > 0
  BY Zenon, <1>1, <1>2 DEF Resting
<1>4. Len(trash_q) + 2 <= used_count
  BY Zenon, <1>1, <1>3, TrashIsUsed
<1>5. Len(exec_q) >= FixedCapacity \/ Len(trash_q) >= FixedCapacity
  BY Zenon DEF Overrun, Overruns
<1>6. /\ Len(trash_q) \in Nat /\ Len(exec_q) \in Nat /\ used_count \in Nat
      /\ FixedCapacity \in Nat /\ quantity[incoming] # 0
  BY <1>1, OrderBookAssumption DEF TypeOK, BookTypeOK, PoolTypeOK
<1>7. Len(exec_q) = Len(trash_q)
  BY Zenon, <1>1, <1>6 DEF FixedQueueInv
<1> QED BY ONLY <1>4, <1>5, <1>6, <1>7

\* Whatever is submitted, a call writes past the fixed queues (FixedQueue.hpp, 16) only if the
\* book holds more orders than a queue has slots.
THEOREM QueuesSuffice == Spec => []OverrunNeedsDeepBook
<1>1. Init => FixedQueueInv
  BY DEF Init, BookInit, FixedQueueInv
<1> QED
  BY <1>1, OverrunUses, FixedQueuesNext, EngineInvariant, PTL DEF Spec

\* With a pool that has at most one order more than the fixed queues have slots, no call
\* overruns them.  The engine of main.cpp (line 96) has a pool of 1000000 above queues of 10000.
THEOREM PoolRulesOutOverrun ==
  ASSUME PoolCapacity <= FixedCapacity + 1
  PROVE  Spec => []~Overrun
<1>1. EngineInv /\ OverrunNeedsDeepBook => ~Overrun
  <2> SUFFICES ASSUME EngineInv, used_count > FixedCapacity + 1 PROVE FALSE
    BY DEF OverrunNeedsDeepBook
  <2>1. /\ used_count \in Nat /\ top \in -1 .. PoolCapacity - 1
        /\ used_count + top + 1 = PoolCapacity
    BY DEF EngineInv, TypeOK, PoolTypeOK, StackOK
  <2>2. PoolCapacity \in Nat /\ FixedCapacity \in Nat
    BY PoolAssumption, OrderBookAssumption
  <2> QED BY ONLY <2>1, <2>2, PoolCapacity <= FixedCapacity + 1, used_count > FixedCapacity + 1
<1> QED
  BY <1>1, EngineInvariant, QueuesSuffice, PTL

-----------------------------------------------------------------------------
(***************************************************************************)
(* The volumes and the quantities.                                         *)
(***************************************************************************)

\* The volume of a level, and what is left of the incoming order.
VolumeInv == \A p \in Ticks : volume[p] = Sum(RestingAt(p)) % U32
TakerLeft == IF pc = "match" THEN quantity[incoming] ELSE 0

\* Sums of quantities are sums of integers over finite sets.
LEMMA RestingFinite ==
  ASSUME TypeOK
  PROVE  /\ IsFiniteSet(Resting)
         /\ \A o \in Slots : quantity[o] \in Int
         /\ \A p : IsFiniteSet(RestingAt(p))
<1>1. IsFiniteSet(Slots)
  BY FS_Interval, PoolAssumption DEF Slots
<1>2. Resting \in SUBSET Slots /\ \A p : RestingAt(p) \in SUBSET Slots
  <2>1. Resting \in SUBSET Slots
    BY RestingOK
  <2>2. QED
    BY <2>1, Zenon DEF RestingAt
<1>3. \A o \in Slots : quantity[o] \in Int
  BY OrderBookAssumption DEF TypeOK, BookTypeOK
<1>4. QED
  BY <1>1, <1>2, <1>3, FS_Subset

\* Only a trade and the end of match_order change what rests.
LEMMA BookKept ==
  ASSUME EngineInv, [Next]_vars, ~MatchTrade, ~MatchEnd
  PROVE  /\ Resting' = Resting /\ volume' = volume /\ total_volume' = total_volume
         /\ \A o \in Resting : price'[o] = price[o] /\ quantity'[o] = quantity[o]
         /\ total_orders' = total_orders => TakerLeft' = TakerLeft
<1>1. CASE RejectOrder \/ MatchSkip \/ clear_execution_queue \/ UNCHANGED vars
  <2>1. /\ UNCHANGED <<free_indices, top, orderVars, quantity, pc, callVars>>
        /\ volume' = volume /\ total_volume' = total_volume
    BY <1>1 DEF RejectOrder, acquire_fails, MatchSkip, SkipLevel, clear_execution_queue,
                vars, poolVars, bookVars, tradeVars
  <2>2. Resting' = Resting
    BY Zenon, <2>1 DEF Resting, LiveSlots, FreeSlots, callVars
  <2>3. TakerLeft' = TakerLeft
    BY Zenon, <2>1 DEF TakerLeft, callVars
  <2>4. QED
    BY Zenon, <2>1, <2>2, <2>3 DEF orderVars
<1>2. CASE ReleaseDead \/ Return
  <2>1. UNCHANGED <<orderVars, quantity>> /\ volume' = volume /\ total_volume' = total_volume
    BY <1>2 DEF ReleaseDead, Return, bookVars, tradeVars
  <2>2. Resting' = Resting /\ TakerLeft' = TakerLeft
    BY Zenon, <1>2, ReclaimKeeps DEF TakerLeft
  <2>3. QED
    BY Zenon, <2>1, <2>2 DEF orderVars
<1>3. ASSUME NEW l \in Limits, NEW q \in Quantities, NEW t \in Traders,
             AcceptOrder(l[1], l[2], q, t)
      PROVE  /\ Resting' = Resting /\ volume' = volume /\ total_volume' = total_volume
             /\ \A o \in Resting : price'[o] = price[o] /\ quantity'[o] = quantity[o]
             /\ total_orders' # total_orders
  <2>1. PICK o \in Slots : /\ acquire(o)
                           /\ incoming' = o
                           /\ price' = [price EXCEPT ![o] = l[2]]
                           /\ quantity' = [quantity EXCEPT ![o] = q]
    BY ZenonT(40), <1>3 DEF AcceptOrder
  <2>2. o \notin LiveSlots /\ LiveSlots' = LiveSlots \cup {o}
    BY <2>1, AcquireOK DEF EngineInv, TypeOK, PoolInv
  <2>3. /\ pc = "idle" /\ pc' = "match" /\ volume' = volume /\ total_volume' = total_volume
        /\ total_orders' = total_orders + 1
    BY Zenon, <1>3 DEF AcceptOrder, CallerReady, tradeVars
  <2>4. \A x \in LiveSlots : /\ x # o
                             /\ price'[x] = price[x]
                             /\ quantity'[x] = quantity[x]
    BY ZenonT(40), <2>1, <2>2 DEF EngineInv, TypeOK, BookTypeOK, LiveSlots
  <2>5. Resting' = Resting
    BY SMTT(30), <2>1, <2>2, <2>3, <2>4 DEF Resting
  <2>6. total_orders' # total_orders
    BY <2>3 DEF EngineInv, TypeOK
  <2>7. QED
    BY Zenon, <2>3, <2>4, <2>5, <2>6 DEF Resting
<1>4. QED
  BY Zenon, <1>1, <1>2, <1>3 DEF Next, submit_order, CallStep

\* The end of match_order adds what is left of the incoming order to its level.
LEMMA EndEffect ==
  ASSUME EngineInv, MatchEnd
  PROVE  LET o == incoming
         IN  /\ o \in Slots /\ o \notin Resting /\ price[o] \in Ticks /\ quantity[o] \in Nat
             /\ pc = "match" /\ pc' = "reclaim"
             /\ UNCHANGED <<price, quantity, total_volume>>
             /\ Resting' = IF quantity[o] > 0 THEN Resting \cup {o} ELSE Resting
             /\ volume' = IF quantity[o] > 0
                            THEN [volume EXCEPT ![price[o]] = (@ + quantity[o]) % U32]
                            ELSE volume
<1> DEFINE o == incoming
<1>1. /\ pc = "match" /\ pc' = "reclaim" /\ UNCHANGED <<price, quantity, total_volume>>
      /\ LiveSlots' = LiveSlots
  BY ZenonT(40) DEF MatchEnd, EndMatch, orderVars, tradeVars, poolVars, LiveSlots, FreeSlots
<1>2. o \in LiveSlots /\ o \notin Resting /\ o \in Slots
  BY <1>1 DEF EngineInv, CallInv, Resting, LiveSlots
<1>3. price[o] \in Ticks /\ quantity[o] \in Nat
  BY <1>2, OrderBookAssumption DEF EngineInv, TypeOK, BookTypeOK
<1>4. \A x : x \in Resting' <=> x \in Resting \/ (x = o /\ quantity[o] > 0)
  BY ZenonT(40), <1>1, <1>2 DEF Resting
<1>5. Resting' = IF quantity[o] > 0 THEN Resting \cup {o} ELSE Resting
  BY <1>4
<1>6. volume' = IF quantity[o] > 0
                  THEN [volume EXCEPT ![price[o]] = (@ + quantity[o]) % U32]
                  ELSE volume
  BY Zenon DEF MatchEnd, EndMatch, insert_order, bookVars
<1>7. QED
  BY ZenonT(40), <1>1, <1>2, <1>3, <1>5, <1>6

\* What a trade does to a set of orders: with A the resting orders, or those of the
\* level, it takes q off the sum.
LEMMA TradeTakes ==
  ASSUME EngineInv, MatchTrade, NEW A \in SUBSET Resting, NEW B \in SUBSET Resting,
         RestingOrder(incoming) \in A,
         B = IF quantity'[RestingOrder(incoming)] = 0 THEN A \ {RestingOrder(incoming)} ELSE A
  PROVE  /\ SumFunctionOnSet(quantity', B) =
              SumFunctionOnSet(quantity, A) - trade_quantity(incoming, RestingOrder(incoming))
         /\ SumFunctionOnSet(quantity, A) \in Int
<1>1. PICK o, r : o = incoming /\ r = RestingOrder(incoming)
  BY Zenon
<1>2. PICK q : q = trade_quantity(o, r)
  BY Zenon
<1>3. /\ o \notin Resting /\ r \in Slots /\ q \in Nat
      /\ quantity'[r] = quantity[r] - q
      /\ \A x \in Slots : x # o /\ x # r => quantity'[x] = quantity[x]
  BY ZenonT(40), <1>1, <1>2, TradeEffect
<1>4. TypeOK /\ A \subseteq Slots /\ IsFiniteSet(A)
  <2>1. TypeOK
    BY Zenon DEF EngineInv
  <2>2. QED
    BY <2>1, RestingOK, RestingFinite, FS_Subset
<1>5. r \in A /\ quantity[r] \in Int /\ quantity'[r] \in Int
  BY <1>1, <1>3, <1>4, RestingFinite
<1>6. \A x \in A : /\ quantity[x] \in Int
                   /\ x # r => quantity'[x] = quantity[x]
  BY Zenon, <1>3, <1>4, RestingFinite
<1>7. \A x \in A : quantity'[x] \in Int
  BY Zenon, <1>5, <1>6
<1> DEFINE a == SumFunctionOnSet(quantity, A)
           b == SumFunctionOnSet(quantity', A)
<1>8. a \in Int /\ b = a + (quantity'[r] - quantity[r])
  <2>1. a \in Int
    BY <1>4, <1>6, SumType
  <2>2. \A y \in A : quantity[y] \in Int /\ quantity'[y] \in Int
    BY Zenon, <1>6, <1>7
  <2>3. \A y \in A : y # r => quantity[y] = quantity'[y]
    BY Zenon, <1>6
  <2>4. b = a + (quantity'[r] - quantity[r])
    BY SMTT(30), <2>2, <2>3, <1>4, <1>5, SumChange
  <2>5. QED
    BY <2>1, <2>4
<1>9. SumFunctionOnSet(quantity', B) = b
  <2>1. CASE quantity'[r] = 0
    <3>1. B = A \ {r}
      BY <2>1, <1>1
    <3>2. QED
      BY SMTT(30), <2>1, <3>1, <1>4, <1>5, <1>7, SumZero
  <2>2. CASE quantity'[r] # 0
    BY <2>2, <1>1
  <2>3. QED
    BY <2>1, <2>2
<1> HIDE DEF a, b
<1>10. SumFunctionOnSet(quantity', B) = a - q
  BY <1>3, <1>5, <1>8, <1>9
<1>11. QED
  BY <1>1, <1>2, <1>8, <1>10 DEF a

\* A trade takes off the level what it takes off the order.
LEMMA TradeVolume == ASSUME EngineInv, VolumeInv, MatchTrade PROVE VolumeInv'
<1>1. PICK o, r : o = incoming /\ r = RestingOrder(incoming)
  BY Zenon
<1>2. PICK q : q = trade_quantity(o, r)
  BY Zenon
<1>3. PICK t : t = Touch(o)
  BY Zenon
<1>4. /\ o \notin Resting /\ o \in Slots /\ r \in Resting /\ r \in Slots
      /\ price[r] = t /\ t \in Ticks
      /\ q \in Nat /\ q <= quantity[r] /\ quantity'[r] = quantity[r] - q
      /\ \A x \in Slots : x # o /\ x # r => quantity'[x] = quantity[x]
      /\ Resting' = IF quantity[r] = q THEN Resting \ {r} ELSE Resting
  BY Zenon, <1>1, <1>2, <1>3, TradeEffect
<1>5. volume' = [volume EXCEPT ![t] = (@ - q) % U32] /\ price' = price
  BY Zenon, <1>1, <1>2, <1>3 DEF MatchTrade, Trade, TradeWith, VolumeAfter, orderVars
<1>6. TypeOK /\ volume \in [Ticks -> 0 .. U32 - 1]
  BY Zenon DEF EngineInv, TypeOK, BookTypeOK
<1>7. Resting' = IF quantity'[r] = 0 THEN Resting \ {r} ELSE Resting
  <2>1. quantity[r] \in Int
    BY <1>4, <1>6, RestingFinite
  <2>2. quantity'[r] = 0 <=> quantity[r] = q
    BY <2>1, <1>4
  <2>3. QED
    BY Zenon, <2>2, <1>4
<1>8. RestingAt(t)' = IF quantity'[r] = 0 THEN RestingAt(t) \ {r} ELSE RestingAt(t)
  BY <1>5, <1>7 DEF RestingAt
<1>9. \A p \in Ticks : p # t => RestingAt(p)' = RestingAt(p) /\ r \notin RestingAt(p)
  BY <1>4, <1>5, <1>7 DEF RestingAt
<1>10. volume'[t] = Sum(RestingAt(t))' % U32
  <2>1. RestingAt(t) \in SUBSET Resting /\ r \in RestingAt(t)
    BY <1>4 DEF RestingAt
  <2>2. RestingAt(t)' \in SUBSET Resting
    BY <2>1, <1>8
  <2> DEFINE a == SumFunctionOnSet(quantity, RestingAt(t))
             b == SumFunctionOnSet(quantity', RestingAt(t)')
  <2>3. b = a - q /\ a \in Int
    BY SMTT(30), <2>1, <2>2, <1>1, <1>2, <1>8, TradeTakes
  <2>4. volume'[t] = (volume[t] - q) % U32
    BY Zenon, <1>4, <1>5, <1>6
  <2>5. volume[t] = a % U32
    BY Zenon, <1>4 DEF VolumeInv, Sum
  <2>6. Sum(RestingAt(t))' = b
    BY Zenon DEF Sum
  <2> HIDE DEF a, b
  <2>7. ((a % U32) + (-q)) % U32 = (a + (-q)) % U32
    <3>1. -q \in Int /\ U32 \in Nat \ {0}
      BY <1>4, OrderBookAssumption
    <3>2. QED
      BY Zenon, <2>3, <3>1, RemainderAdd
  <2>8. a % U32 \in Int
    BY <2>3, OrderBookAssumption
  <2>9. (a % U32) + (-q) = (a % U32) - q /\ a + (-q) = a - q
    BY <2>3, <2>8, <1>4
  <2>10. QED
    BY Zenon, <2>3, <2>4, <2>5, <2>6, <2>7, <2>9
<1>11. ASSUME NEW p \in Ticks, p # t PROVE volume'[p] = Sum(RestingAt(p))' % U32
  <2>1. volume'[p] = volume[p]
    BY Zenon, <1>5, <1>6, <1>11
  <2>2. RestingAt(p)' = RestingAt(p) /\ r \notin RestingAt(p)
    BY <1>9, <1>11
  <2>3. \A x \in RestingAt(p) : quantity[x] = quantity'[x]
    <3>1. \A x \in RestingAt(p) : x \in Resting /\ x \in Slots
      BY SMTT(30), <1>6, RestingOK DEF RestingAt
    <3>2. QED
      BY ZenonT(40), <2>2, <3>1, <1>4
  <2>4. IsFiniteSet(RestingAt(p))
    BY SMTT(30), <1>6, RestingFinite
  <2>5. SumFunctionOnSet(quantity, RestingAt(p)) = SumFunctionOnSet(quantity', RestingAt(p))
    BY SMTT(30), <2>3, <2>4, SumSame
  <2>6. Sum(RestingAt(p))' = Sum(RestingAt(p))
    BY Zenon, <2>2, <2>5 DEF Sum
  <2>7. QED
    BY Zenon, <2>1, <2>6 DEF VolumeInv
<1>12. QED
  BY Zenon, <1>10, <1>11 DEF VolumeInv

\* insert_order adds what is left to the volume of the level.
LEMMA EndVolume == ASSUME EngineInv, VolumeInv, MatchEnd PROVE VolumeInv'
<1>1. PICK o : o = incoming
  BY Zenon
<1>2. /\ o \in Slots /\ o \notin Resting /\ price[o] \in Ticks /\ quantity[o] \in Nat
      /\ UNCHANGED <<price, quantity>>
      /\ Resting' = IF quantity[o] > 0 THEN Resting \cup {o} ELSE Resting
      /\ volume' = IF quantity[o] > 0
                     THEN [volume EXCEPT ![price[o]] = (@ + quantity[o]) % U32]
                     ELSE volume
  BY Zenon, <1>1, EndEffect
<1>3. CASE ~(quantity[o] > 0)
  <2>1. UNCHANGED <<price, quantity, volume>> /\ Resting' = Resting
    BY Zenon, <1>2, <1>3
  <2>2. QED
    BY Zenon, <2>1 DEF VolumeInv, RestingAt, Sum
<1>4. CASE quantity[o] > 0
  <2>1. PICK t : t = price[o]
    BY Zenon
  <2>2. TypeOK /\ volume \in [Ticks -> 0 .. U32 - 1] /\ t \in Ticks
    BY Zenon, <1>2, <2>1 DEF EngineInv, TypeOK, BookTypeOK
  <2>3. Resting' = Resting \cup {o} /\ volume' = [volume EXCEPT ![t] = (@ + quantity[o]) % U32]
    BY Zenon, <1>2, <1>4, <2>1
  <2>4. RestingAt(t)' = RestingAt(t) \cup {o} /\ o \notin RestingAt(t)
    BY <1>2, <2>1, <2>3 DEF RestingAt
  <2>5. \A p \in Ticks : p # t => RestingAt(p)' = RestingAt(p)
    BY <1>2, <2>1, <2>3 DEF RestingAt
  <2>6. volume'[t] = Sum(RestingAt(t))' % U32
    <3> DEFINE a == SumFunctionOnSet(quantity, RestingAt(t))
               b == SumFunctionOnSet(quantity, RestingAt(t) \cup {o})
    <3>1. IsFiniteSet(RestingAt(t)) /\ \A x \in RestingAt(t) \cup {o} : quantity[x] \in Int
      <4>1. RestingAt(t) \cup {o} \subseteq Slots
        BY SMTT(30), <1>2, <2>2, RestingOK DEF RestingAt
      <4>2. QED
        BY <4>1, <2>2, RestingFinite
    <3>2. b = quantity[o] + a /\ a \in Int
      BY <3>1, <2>4, SumAdd, SumType
    <3>3. volume'[t] = (volume[t] + quantity[o]) % U32
      BY Zenon, <2>2, <2>3
    <3>4. volume[t] = a % U32 /\ Sum(RestingAt(t))' = b
      BY ZenonT(40), <1>2, <2>2, <2>4 DEF VolumeInv, Sum
    <3> HIDE DEF a, b
    <3>5. ((a % U32) + quantity[o]) % U32 = (a + quantity[o]) % U32
      <4>1. U32 \in Nat \ {0} BY Zenon, OrderBookAssumption
      <4>2. quantity[o] \in Int BY <1>2
      <4> QED BY Zenon, <3>2, <4>1, <4>2, RemainderAdd
    <3>6. a + quantity[o] = quantity[o] + a
      BY <3>2, <1>2
    <3>7. QED
      BY Zenon, <3>2, <3>3, <3>4, <3>5, <3>6
  <2>7. ASSUME NEW p \in Ticks, p # t PROVE volume'[p] = Sum(RestingAt(p))' % U32
    <3>1. volume'[p] = volume[p]
      BY Zenon, <2>2, <2>3, <2>7
    <3>2. Sum(RestingAt(p))' = Sum(RestingAt(p))
      BY Zenon, <1>2, <2>5, <2>7 DEF Sum
    <3>3. QED
      BY Zenon, <3>1, <3>2 DEF VolumeInv
  <2>8. QED
    BY Zenon, <2>6, <2>7 DEF VolumeInv
<1>5. QED
  BY <1>3, <1>4

\* Every other step leaves the volumes and the orders they count alone.
LEMMA VolumeNext == EngineInv /\ VolumeInv /\ [Next]_vars => VolumeInv'
<1> SUFFICES ASSUME EngineInv, VolumeInv, [Next]_vars, ~MatchTrade, ~MatchEnd
             PROVE  VolumeInv'
  BY Zenon, TradeVolume, EndVolume
<1>1. /\ Resting' = Resting /\ volume' = volume
      /\ \A o \in Resting : price'[o] = price[o] /\ quantity'[o] = quantity[o]
  BY Zenon, BookKept
<1>2. TypeOK
  BY Zenon DEF EngineInv
<1>3. ASSUME NEW p \in Ticks PROVE volume'[p] = Sum(RestingAt(p))' % U32
  <2>1. RestingAt(p)' = RestingAt(p)
    BY <1>1 DEF RestingAt
  <2>2. IsFiniteSet(RestingAt(p)) /\ \A x \in RestingAt(p) : quantity[x] = quantity'[x]
    BY ZenonT(40), <1>1, <1>2, RestingFinite DEF RestingAt
  <2>3. SumFunctionOnSet(quantity, RestingAt(p)) = SumFunctionOnSet(quantity', RestingAt(p))
    BY <2>2, SumSame
  <2>4. Sum(RestingAt(p))' = Sum(RestingAt(p))
    BY Zenon, <2>1, <2>3 DEF Sum
  <2>5. QED
    BY Zenon, <1>1, <2>4 DEF VolumeInv
<1>4. QED
  BY Zenon, <1>3 DEF VolumeInv

\* The volume of every level is what its orders have left, modulo the counter's width.
THEOREM VolumesFollow == Spec => []VolumeTracksLevel
<1>1. Init => VolumeInv
  <2> SUFFICES ASSUME Init, NEW p \in Ticks PROVE volume[p] = Sum(RestingAt(p)) % U32
    BY DEF VolumeInv
  <2>1. LiveSlots = {}
    BY PoolInitOK DEF Init
  <2>2. RestingAt(p) = {}
    BY <2>1 DEF Resting, RestingAt
  <2>3. Sum(RestingAt(p)) = 0 /\ volume[p] = 0
    BY <2>2, SumEmpty DEF Sum, Init, BookInit
  <2>4. 0 % U32 = 0
    BY OrderBookAssumption
  <2>5. QED
    BY Zenon, <2>3, <2>4
<1>2. EngineInv /\ VolumeInv => VolumeTracksLevel
  BY Zenon, BookIsResting DEF VolumeInv, VolumeTracksLevel
<1>3. QED
  BY <1>1, <1>2, VolumeNext, EngineInvariant, PTL DEF Spec

\* What is open before and after a step that accepts no order.
LEMMA StepConserves ==
  ASSUME EngineInv, [Next]_vars, total_orders' = total_orders
  PROVE  (Sum(Resting) + TakerLeft)' + 2 * total_volume' =
           (Sum(Resting) + TakerLeft) + 2 * total_volume
<1>1. TypeOK /\ total_volume \in Nat
  BY Zenon DEF EngineInv, TypeOK, BookTypeOK
<1>2. IsFiniteSet(Resting) /\ \A o \in Resting : quantity[o] \in Int
  BY <1>1, RestingOK, RestingFinite
<1> DEFINE a == SumFunctionOnSet(quantity, Resting)
           b == SumFunctionOnSet(quantity', Resting')
<1>3. a \in Int
  BY <1>2, SumType
<1>4. Sum(Resting) = a /\ Sum(Resting)' = b
  BY Zenon DEF Sum
<1>5. CASE MatchTrade
  <2>1. PICK o, r : o = incoming /\ r = RestingOrder(incoming)
    BY Zenon
  <2>2. PICK q : q = trade_quantity(o, r)
    BY Zenon
  <2>3. /\ o \in Slots /\ r \in Resting /\ r \in Slots /\ q \in Nat
        /\ quantity'[o] = quantity[o] - q /\ quantity'[r] = quantity[r] - q
        /\ Resting' = IF quantity[r] = q THEN Resting \ {r} ELSE Resting
    BY Zenon, <1>5, <2>1, <2>2, TradeEffect
  <2>4. /\ pc = "match" /\ pc' = "match" /\ incoming' = o
        /\ total_volume' = total_volume + q
    BY Zenon, <1>5, <2>1, <2>2 DEF MatchTrade, Trade, TradeWith, callVars
  <2>5. quantity[o] \in Int /\ quantity[r] \in Int
    BY <1>1, <2>3, RestingFinite
  <2>6. Resting' = IF quantity'[r] = 0 THEN Resting \ {r} ELSE Resting
    <3>1. quantity'[r] = 0 <=> quantity[r] = q
      BY <2>3, <2>5
    <3>2. QED
      BY Zenon, <2>3, <3>1
  <2>7. Resting \in SUBSET Resting /\ Resting' \in SUBSET Resting
    BY <2>6
  <2>8. b = a - q
    BY <1>5, <2>1, <2>2, <2>3, <2>6, <2>7, TradeTakes
  <2>9. TakerLeft = quantity[o] /\ TakerLeft' = quantity[o] - q
    BY Zenon, <2>1, <2>3, <2>4 DEF TakerLeft
  <2> HIDE DEF a, b
  <2>10. QED
    BY SMTT(30), <1>1, <1>3, <1>4, <2>3, <2>4, <2>5, <2>8, <2>9
<1>6. CASE MatchEnd
  <2>1. PICK o : o = incoming
    BY Zenon
  <2>2. /\ o \in Slots /\ o \notin Resting /\ quantity[o] \in Nat
        /\ pc = "match" /\ pc' = "reclaim"
        /\ UNCHANGED <<quantity, total_volume>>
        /\ Resting' = IF quantity[o] > 0 THEN Resting \cup {o} ELSE Resting
    BY Zenon, <1>6, <2>1, EndEffect
  <2>3. TakerLeft = quantity[o] /\ TakerLeft' = 0
    BY <2>1, <2>2 DEF TakerLeft
  <2>4. b = a + quantity[o]
    <3>1. CASE quantity[o] > 0
      <4>1. b = SumFunctionOnSet(quantity, Resting \cup {o})
        BY Zenon, <2>2, <3>1
      <4>2. \A y \in Resting \cup {o} : quantity[y] \in Int
        BY SMTT(30), <1>2, <2>2
      <4>3. b = quantity[o] + a
        BY SMTT(30), <4>1, <4>2, <1>2, <2>2, SumAdd
      <4> HIDE DEF a, b
      <4>4. QED
        BY <4>3, <1>3, <2>2
    <3>2. CASE ~(quantity[o] > 0)
      <4>1. b = a /\ quantity[o] = 0
        BY <2>2, <3>2
      <4> HIDE DEF a, b
      <4>2. QED
        BY <4>1, <1>3
    <3>3. QED
      BY <3>1, <3>2
  <2> HIDE DEF a, b
  <2>5. QED
    BY SMTT(30), <1>1, <1>3, <1>4, <2>2, <2>3, <2>4
<1>7. CASE ~MatchTrade /\ ~MatchEnd
  <2>1. /\ Resting' = Resting /\ total_volume' = total_volume
        /\ \A o \in Resting : quantity'[o] = quantity[o]
        /\ TakerLeft' = TakerLeft
    BY Zenon, <1>7, BookKept
  <2>2. \A o \in Resting : quantity[o] = quantity'[o]
    BY Zenon, <2>1
  <2>3. SumFunctionOnSet(quantity, Resting) = SumFunctionOnSet(quantity', Resting)
    BY <1>2, <2>2, SumSame
  <2>4. b = a
    BY Zenon, <2>1, <2>3
  <2> HIDE DEF a, b
  <2>5. QED
    BY Zenon, <1>4, <2>1, <2>4
<1>8. QED
  BY Zenon, <1>5, <1>6, <1>7

\* Nothing is lost between the incoming order, the lists and the trades.
THEOREM QuantityKept == Spec => QuantityConserved
<1>1. EngineInv => OpenQuantity = Sum(Resting) + TakerLeft
  BY Zenon, BookIsResting DEF OpenQuantity, TakerLeft
<1>2. (EngineInv => OpenQuantity = Sum(Resting) + TakerLeft)'
  BY <1>1, PTL
<1> DEFINE Kept == total_orders' = total_orders =>
                     OpenQuantity' + 2 * total_volume' = OpenQuantity + 2 * total_volume
<1>3. EngineInv /\ EngineInv' /\ [Next]_vars => Kept
  BY Zenon, <1>1, <1>2, StepConserves
<1>4. EngineInv /\ EngineInv' /\ [Next]_vars => [Kept]_vars
  <2> HIDE DEF Kept
  <2>1. QED
    BY <1>3
<1>5. QED
  BY <1>4, EngineInvariant, PTL DEF Spec, QuantityConserved

-----------------------------------------------------------------------------
(***************************************************************************)
(* The length of a call.                                                   *)
(***************************************************************************)

\* The terms of StepsLeft are natural numbers, and it is their sum.
StepsFacts ==
  /\ Len(trash_q) \in Nat /\ IsFiniteSet(Resting) /\ Cardinality(Resting) \in Nat
  /\ LevelsAhead \in 0 .. MaxPriceTicks
  /\ pc = "idle" => StepsLeft = 0
  /\ pc = "reclaim" => StepsLeft = Len(trash_q) + 1
  /\ pc = "match" /\ quantity[incoming] > 0 =>
       StepsLeft = Len(trash_q) + 2 + (LevelsAhead + 2 * Cardinality(Resting))
  /\ pc = "match" /\ ~(quantity[incoming] > 0) => StepsLeft = Len(trash_q) + 2

\* StepsFacts holds in every state of the engine.
LEMMA StepsKnown == EngineInv => StepsFacts
<1> SUFFICES ASSUME EngineInv PROVE StepsFacts OBVIOUS
<1>1. TypeOK BY Zenon DEF EngineInv
<1>2. Len(trash_q) \in Nat
  <2>1. trash_q \in Seq(Slots) BY Zenon, <1>1 DEF TypeOK, BookTypeOK
  <2> QED BY <2>1
<1>3. IsFiniteSet(Resting) BY Zenon, <1>1, RestingFinite
<1>4. Cardinality(Resting) \in Nat BY Zenon, <1>3, FS_CardinalityType
<1>5. LevelsAhead \in 0 .. MaxPriceTicks
  <2>1. best_ask \in 0 .. MaxPriceTicks /\ best_bid \in 0 .. MaxPriceTicks
    BY Zenon, <1>1 DEF TypeOK, BookTypeOK, Ticks
  <2>2. MaxPriceTicks \in Nat BY OrderBookAssumption
  <2>3. MaxPriceTicks - best_ask \in 0 .. MaxPriceTicks BY <2>1, <2>2
  <2> QED BY Zenon, <2>1, <2>3 DEF LevelsAhead
<1>6. pc = "idle" => StepsLeft = 0 BY DEF StepsLeft
<1>7. pc = "reclaim" => StepsLeft = Len(trash_q) + 1 BY DEF StepsLeft
<1>8. pc = "match" => StepsLeft = Len(trash_q) + 2 + IF quantity[incoming] > 0
                                       THEN LevelsAhead + 2 * Cardinality(Resting) ELSE 0
  BY DEF StepsLeft
<1>9. pc = "match" /\ ~(quantity[incoming] > 0) => StepsLeft = Len(trash_q) + 2
  <2>1. Len(trash_q) + 2 + 0 = Len(trash_q) + 2 BY <1>2
  <2> QED BY Zenon, <1>8, <2>1
<1> QED BY Zenon, <1>2, <1>3, <1>4, <1>5, <1>6, <1>7, <1>8, <1>9 DEF StepsFacts

\* And in the next one.
LEMMA StepsKnownNext == EngineInv' => StepsFacts'
BY StepsKnown, PTL

\* An iteration of the matching loop that skips a level brings the end of the call nearer.
LEMMA SkipNearer ==
  ASSUME EngineInv, StepsFacts, StepsFacts', MatchSkip
  PROVE  StepsLeft' \in 0 .. StepsLeft - 1
<1>1. /\ pc = "match" /\ pc' = "match" /\ incoming' = incoming /\ quantity' = quantity
      /\ side' = side /\ trash_q' = trash_q /\ quantity[incoming] > 0
      /\ free_indices' = free_indices /\ top' = top
  BY Zenon DEF MatchSkip, SkipLevel, Matching, orderVars, tradeVars, poolVars, callVars
<1>2. Resting' = Resting
  <2>1. LiveSlots' = LiveSlots BY Zenon, <1>1 DEF LiveSlots, FreeSlots
  <2> QED BY <1>1, <2>1 DEF Resting
<1>3. LevelsAhead' = LevelsAhead - 1
  <2>1. best_ask \in Int /\ best_bid \in Int /\ MaxPriceTicks \in Int
    BY OrderBookAssumption DEF EngineInv, TypeOK, BookTypeOK, Ticks
  <2>2. /\ best_ask' = IF side[incoming] = 0 THEN best_ask + 1 ELSE best_ask
        /\ best_bid' = IF side[incoming] = 0 THEN best_bid ELSE best_bid - 1
    BY Zenon DEF MatchSkip, SkipLevel
  <2> QED BY SMTT(30), <1>1, <2>1, <2>2 DEF LevelsAhead
<1> DEFINE n == Len(trash_q)
           l == LevelsAhead
           k == Cardinality(Resting)
<1>4. /\ n \in Nat /\ l \in Int /\ k \in Nat /\ l - 1 >= 0
      /\ StepsLeft = n + 2 + (l + 2 * k) /\ StepsLeft' = n + 2 + ((l - 1) + 2 * k)
  <2>1. LevelsAhead \in 0 .. MaxPriceTicks /\ LevelsAhead' \in 0 .. MaxPriceTicks
    BY Zenon DEF StepsFacts
  <2>2. MaxPriceTicks \in Nat BY OrderBookAssumption
  <2>3. l \in Int /\ l - 1 >= 0 BY <1>3, <2>1, <2>2
  <2>4. /\ StepsLeft = n + 2 + (l + 2 * k)
        /\ StepsLeft' = n + 2 + (LevelsAhead' + 2 * k)
    BY Zenon, <1>1, <1>2 DEF StepsFacts
  <2> QED BY Zenon, <1>3, <2>3, <2>4 DEF StepsFacts
<1> HIDE DEF n, l, k
<1> QED BY <1>4

\* One that trades does too: it leaves an order behind, or nothing of the incoming one.
LEMMA TradeNearer ==
  ASSUME EngineInv, StepsFacts, StepsFacts', MatchTrade
  PROVE  StepsLeft' \in 0 .. StepsLeft - 1
<1>0. PICK o, r, q : o = incoming /\ r = RestingOrder(incoming) /\ q = trade_quantity(o, r)
  BY Zenon
<1>1. /\ r \in Resting /\ r # o /\ o \in Slots /\ r \in Slots
      /\ q \in Nat /\ q > 0 /\ q <= quantity[o] /\ q <= quantity[r]
      /\ quantity'[o] = quantity[o] - q
      /\ Resting' = IF quantity[r] = q THEN Resting \ {r} ELSE Resting
  BY Zenon, <1>0, TradeEffect
<1>2. /\ pc = "match" /\ pc' = "match" /\ incoming' = incoming /\ quantity[o] > 0
      /\ side' = side /\ best_ask' = best_ask /\ best_bid' = best_bid
      /\ IF quantity[r] = q THEN trash_q' = Append(trash_q, r) ELSE trash_q' = trash_q
  BY Zenon, <1>0 DEF MatchTrade, Trade, TradeWith, Matching, orderVars, callVars
<1>3. LevelsAhead' = LevelsAhead BY Zenon, <1>2 DEF LevelsAhead
<1> DEFINE n == Len(trash_q)
           l == LevelsAhead
           k == Cardinality(Resting)
<1>4. n \in Nat /\ l \in Nat /\ k \in Nat
  <2>1. LevelsAhead \in 0 .. MaxPriceTicks /\ MaxPriceTicks \in Nat
    BY Zenon, OrderBookAssumption DEF StepsFacts
  <2>2. l \in Nat BY <2>1
  <2> QED BY Zenon, <2>2 DEF StepsFacts
<1>5. StepsLeft = n + 2 + (l + 2 * k) BY Zenon, <1>0, <1>2 DEF StepsFacts
<1>6. IsFiniteSet(Resting) BY Zenon DEF StepsFacts
<1>7. k >= 1 /\ Cardinality(Resting \ {r}) = k - 1
  <2>1. Cardinality(Resting \ {r}) = k - 1 /\ IsFiniteSet(Resting \ {r})
    BY <1>1, <1>6, FS_RemoveElement
  <2>2. k # 0
    BY Zenon, <1>1, <1>6, FS_EmptySet
  <2> QED BY SMTT(30), <1>4, <2>1, <2>2
<1>8. CASE quantity[r] = q
  <2>1. Len(trash_q') = n + 1
    <3>1. trash_q \in Seq(Slots) BY Zenon DEF EngineInv, TypeOK, BookTypeOK
    <3>2. trash_q' = Append(trash_q, r) BY Zenon, <1>2, <1>8
    <3> QED BY SMTT(30), <1>1, <3>1, <3>2
  <2>2. Cardinality(Resting') = k - 1 BY Zenon, <1>1, <1>7, <1>8
  <2>3. \/ StepsLeft' = (n + 1) + 2 + (l + 2 * (k - 1))
        \/ StepsLeft' = (n + 1) + 2
    BY Zenon, <1>2, <1>3, <2>1, <2>2 DEF StepsFacts
  <2> HIDE DEF n, l, k
  <2> QED BY SMTT(30), <1>4, <1>5, <1>7, <2>3
<1>9. CASE quantity[r] # q
  <2>1. trash_q' = trash_q BY Zenon, <1>2, <1>9
  <2>2. ~(quantity'[o] > 0)
    <3>1. q = quantity[o] BY Zenon, <1>0, <1>9 DEF trade_quantity
    <3> QED BY <1>1, <3>1
  <2>3. StepsLeft' = n + 2 BY Zenon, <1>0, <1>2, <2>1, <2>2 DEF StepsFacts
  <2> HIDE DEF n, l, k
  <2> QED BY <1>4, <1>5, <1>7, <2>3
<1> QED BY <1>8, <1>9

\* So does the end of the matching loop, each release, and the end of the call.
LEMMA RestNearer ==
  ASSUME EngineInv, StepsFacts, StepsFacts', MatchEnd \/ ReleaseDead \/ Return
  PROVE  StepsLeft' \in 0 .. StepsLeft - 1
<1> DEFINE n == Len(trash_q)
<1>0. n \in Nat BY Zenon DEF StepsFacts
<1>1. CASE MatchEnd
  <2>1. pc = "match" /\ pc' = "reclaim" /\ trash_q' = trash_q
    BY Zenon, <1>1 DEF MatchEnd, EndMatch, tradeVars
  <2> DEFINE l == LevelsAhead
             k == Cardinality(Resting)
  <2>2. l \in Nat /\ k \in Nat
    <3>1. LevelsAhead \in 0 .. MaxPriceTicks /\ MaxPriceTicks \in Nat
      BY Zenon, OrderBookAssumption DEF StepsFacts
    <3>2. l \in Nat BY <3>1
    <3> QED BY Zenon, <3>2 DEF StepsFacts
  <2>3. StepsLeft' = n + 1 /\ (StepsLeft = n + 2 + (l + 2 * k) \/ StepsLeft = n + 2)
    BY Zenon, <2>1 DEF StepsFacts
  <2> HIDE DEF n, l, k
  <2> QED BY SMTT(30), <1>0, <2>2, <2>3
<1>2. CASE ReleaseDead
  <2>1. pc = "reclaim" /\ pc' = "reclaim" /\ trash_q # <<>> /\ trash_q' = Tail(trash_q)
    BY Zenon, <1>2 DEF ReleaseDead
  <2>2. Len(trash_q') = n - 1 /\ n >= 1
    <3>1. trash_q \in Seq(Slots) BY Zenon DEF EngineInv, TypeOK, BookTypeOK
    <3> QED BY <2>1, <3>1
  <2>3. StepsLeft = n + 1 /\ StepsLeft' = (n - 1) + 1 BY Zenon, <2>1, <2>2 DEF StepsFacts
  <2> HIDE DEF n
  <2> QED BY <1>0, <2>2, <2>3
<1>3. CASE Return
  <2>1. pc = "reclaim" /\ pc' = "idle" BY Zenon, <1>3 DEF Return
  <2>2. StepsLeft = n + 1 /\ StepsLeft' = 0 BY Zenon, <2>1 DEF StepsFacts
  <2> HIDE DEF n
  <2> QED BY <1>0, <2>2
<1> QED BY <1>1, <1>2, <1>3

\* A call begins with MaxCallSteps ahead at most: the levels are those of the book, and the
\* orders those of the pool but its own.
LEMMA CallBegins ==
  ASSUME EngineInv, EngineInv', StepsFacts', pc = "idle", pc' = "match", trash_q' = trash_q
  PROVE  StepsLeft' \in 0 .. MaxCallSteps
<1> DEFINE k == Cardinality(Resting')
           l == LevelsAhead'
<1>0. /\ k \in Nat /\ l \in 0 .. MaxPriceTicks
      /\ StepsLeft' = Len(trash_q') + 2 + (l + 2 * k) \/ StepsLeft' = Len(trash_q') + 2
  BY Zenon DEF StepsFacts
<1>1. Len(trash_q') = 0
  <2>1. trash_q' = <<>> BY Zenon DEF EngineInv, CallInv
  <2> QED BY <2>1
<1>2. PoolCapacity \in Nat \ {0} /\ MaxPriceTicks \in Nat
  <2>1. incoming' \in Slots BY Zenon DEF EngineInv, TypeOK
  <2> QED BY <2>1, PoolAssumption, OrderBookAssumption DEF Slots
<1>3. k <= PoolCapacity - 1
  <2>1. IsFiniteSet(Slots) /\ Cardinality(Slots) = PoolCapacity
    <3>1. 0 \in Int /\ PoolCapacity - 1 \in Int BY <1>2
    <3>2. /\ IsFiniteSet(0 .. PoolCapacity - 1)
          /\ Cardinality(0 .. PoolCapacity - 1) =
               IF 0 > PoolCapacity - 1 THEN 0 ELSE (PoolCapacity - 1) - 0 + 1
      BY Zenon, <3>1, FS_Interval
    <3> QED BY <1>2, <3>2 DEF Slots
  <2>2. incoming' \in Slots /\ Resting' \subseteq Slots \ {incoming'}
    BY Zenon DEF EngineInv, TypeOK, Resting, LiveSlots
  <2>3. /\ IsFiniteSet(Slots \ {incoming'})
        /\ Cardinality(Slots \ {incoming'}) = PoolCapacity - 1
    BY <2>1, <2>2, FS_RemoveElement
  <2>4. k <= Cardinality(Slots \ {incoming'}) BY Zenon, <2>2, <2>3, FS_Subset
  <2> QED BY Zenon, <2>3, <2>4
<1> HIDE DEF k, l
<1> QED BY <1>0, <1>1, <1>2, <1>3 DEF MaxCallSteps

\* A call of submit_order makes at most MaxCallSteps iterations, for every book, pool and
\* order.
THEOREM CallsAreBounded == Spec => CallBounded
<1> DEFINE Nearer == StepsLeft' \in 0 .. (IF pc = "idle" THEN MaxCallSteps ELSE StepsLeft - 1)
<1>1. ASSUME EngineInv, EngineInv', Next PROVE Nearer
  <2>0. StepsFacts /\ StepsFacts' BY Zenon, <1>1, StepsKnown, StepsKnownNext
  <2>1. CASE CallStep
    <3>1. pc # "idle"
      BY Zenon, <2>1 DEF CallStep, MatchSkip, MatchTrade, MatchEnd, ReleaseDead, Return
    <3>2. StepsLeft' \in 0 .. StepsLeft - 1
      BY Zenon, <1>1, <2>0, <2>1, SkipNearer, TradeNearer, RestNearer DEF CallStep
    <3> QED BY Zenon, <3>1, <3>2
  <2>2. CASE RejectOrder \/ clear_execution_queue
    <3>1. pc = "idle" /\ pc' = "idle"
      BY Zenon, <2>2 DEF RejectOrder, CallerReady, clear_execution_queue
    <3>2. StepsLeft' = 0 BY Zenon, <2>0, <3>1 DEF StepsFacts
    <3>3. 0 \in 0 .. MaxCallSteps
      BY PoolAssumption, OrderBookAssumption DEF MaxCallSteps
    <3> QED BY Zenon, <3>1, <3>2, <3>3
  <2>3. ASSUME NEW l \in Limits, NEW q \in Quantities, NEW t \in Traders,
               AcceptOrder(l[1], l[2], q, t)
        PROVE  Nearer
    <3>1. pc = "idle" /\ pc' = "match" /\ trash_q' = trash_q
      BY Zenon, <2>3 DEF AcceptOrder, CallerReady, tradeVars
    <3>2. StepsLeft' \in 0 .. MaxCallSteps BY Zenon, <1>1, <2>0, <3>1, CallBegins
    <3> QED BY Zenon, <3>1, <3>2
  <2> HIDE DEF Nearer
  <2> QED BY Zenon, <1>1, <2>1, <2>2, <2>3 DEF Next, submit_order
<1>2. EngineInv /\ EngineInv' /\ [Next]_vars => [Nearer]_vars
  <2> HIDE DEF Nearer
  <2> QED BY Zenon, <1>1
<1> QED BY <1>2, EngineInvariant, PTL DEF Spec, CallBounded
=============================================================================
