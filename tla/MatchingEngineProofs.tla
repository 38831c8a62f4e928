------------------------ MODULE MatchingEngineProofs ------------------------
(***************************************************************************)
(* Theorems about MatchingEngine for every pool capacity, price range, set *)
(* of inputs and bound.  EngineInv, the inductive invariant, is in         *)
(* MatchingEngine.  The lemmas on single steps come first: the pool and    *)
(* the steps that leave the lists of the book alone, a trade, and the      *)
(* insertion that ends match_order.                                        *)
(***************************************************************************)
EXTENDS MatchingEngine, TLAPS

-----------------------------------------------------------------------------
(***************************************************************************)
(* The pool.                                                               *)
(***************************************************************************)

PoolInv == PoolTypeOK /\ StackOK

\* The ticks, and the numbers of orders, can be compared.
LEMMA TicksAreIntegers == Ticks \subseteq Int /\ Nat \subseteq Int
BY OrderBookAssumption DEF Ticks

\* The pool is what it was when nothing is acquired or released.
LEMMA PoolFrame == ASSUME PoolInv, UNCHANGED poolVars PROVE PoolInv'
<1>1. PoolTypeOK' BY DEF PoolInv, PoolTypeOK, poolVars
<1>2. Arranged' BY Zenon DEF PoolInv, StackOK, Arranged, poolVars, Slots
<1>3. QED
  BY <1>1, <1>2 DEF PoolInv, StackOK, poolVars

\* ObjectPool(cap): every index is on the stack.
LEMMA PoolInitOK == PoolInit => PoolInv /\ LiveSlots = {}
<1> SUFFICES ASSUME PoolInit PROVE PoolInv /\ LiveSlots = {} OBVIOUS
<1>1. Arranged
  <2>1. /\ free_indices \in [Slots -> Slots]
        /\ \A o \in Slots : free_indices[o] = o
    BY PoolAssumption DEF PoolInit, Slots
  <2>2. QED
    BY Zenon, <2>1 DEF Arranged
<1>2. QED
  BY <1>1, PoolAssumption DEF PoolInit, PoolInv, PoolTypeOK, StackOK, Slots, LiveSlots, FreeSlots

\* A slot that is handed out has room on the stack, release never writes past the end
\* of free_indices, and putting it on the stack keeps the slots arranged: it changes
\* places with the slot that was above the top.
LEMMA RoomOnStack ==
  ASSUME PoolInv, NEW o \in LiveSlots
  PROVE  /\ top + 1 \in Slots
         /\ release(o) => Arranged'
<1> USE DEF PoolInv
<1> DEFINE t == top + 1
<1>1. o \in Slots /\ \A i \in 0 .. top : free_indices[i] # o
  BY Zenon DEF LiveSlots, FreeSlots
<1>2. PICK p \in [Slots -> Slots] : /\ \A i \in 0 .. top : p[i] = free_indices[i]
                                  /\ \A x \in Slots : \E i \in Slots : p[i] = x
  BY Zenon DEF StackOK, Arranged
<1>3. PICK k \in Slots : p[k] = o
  BY Zenon, <1>1, <1>2
<1>4. k \notin 0 .. top
  BY Zenon, <1>1, <1>2, <1>3
<1>5. t \in Slots /\ t \notin 0 .. top
  BY <1>4, PoolAssumption DEF PoolTypeOK, Slots
<1>6. ASSUME release(o) PROVE Arranged'
  <2> DEFINE q == [i \in Slots |-> IF i = t THEN o ELSE IF i = k THEN p[t] ELSE p[i]]
  <2>1. free_indices' = [free_indices EXCEPT ![t] = o] /\ top' = t
    BY <1>6 DEF release
  <2>2. /\ \A i \in 0 .. top' : i \in 0 .. top \/ i = t
        /\ 0 .. top \subseteq Slots /\ free_indices \in [Slots -> Slots]
    BY <2>1, PoolAssumption DEF PoolTypeOK, Slots
  <2> HIDE DEF t
  <2>3. q \in [Slots -> Slots]
    BY <1>1, <1>2, <1>5
  <2>4. \A i \in 0 .. top' : q[i] = free_indices'[i]
    BY <1>2, <1>4, <1>5, <2>1, <2>2
  <2>5. \A x \in Slots : \E i \in Slots : q[i] = x
    <3> TAKE x \in Slots
    <3>1. PICK i \in Slots : p[i] = x
      BY <1>2
    <3>2. CASE i = t BY <1>3, <1>5, <3>1, <3>2
    <3>3. CASE i = k BY <1>3, <1>5, <3>1, <3>3
    <3>4. CASE i # t /\ i # k BY <3>1, <3>4
    <3>5. QED
      BY <3>2, <3>3, <3>4
  <2> HIDE DEF q
  <2>6. QED
    BY Zenon, <2>3, <2>4, <2>5 DEF Arranged, Slots
<1>7. QED
  BY <1>5, <1>6

\* acquire() hands out a slot that was free.
LEMMA AcquireOK ==
  ASSUME PoolInv, NEW o, acquire(o)
  PROVE  /\ PoolInv'
         /\ o \in Slots
         /\ o \notin LiveSlots
         /\ LiveSlots' = LiveSlots \cup {o}
<1> USE PoolAssumption DEF PoolInv, acquire, Slots
<1>1. o \in FreeSlots /\ o \in Slots
  BY DEF FreeSlots, PoolTypeOK
<1>2. FreeSlots' = FreeSlots \ {o}
  <2>1. 0 .. top = (0 .. top') \cup {top} /\ top \notin 0 .. top'
    BY DEF PoolTypeOK
  <2>2. \A i \in 0 .. top' : free_indices[i] # o
    BY <2>1 DEF StackOK
  <2>3. QED
    BY <2>1, <2>2 DEF FreeSlots
<1>3. PoolTypeOK'
  BY DEF PoolTypeOK
<1>4. StackOK'
  <2>1. \A i \in 0 .. top' : i \in 0 .. top
    BY DEF PoolTypeOK
  <2>2. \A i, j \in 0 .. top' : free_indices'[i] = free_indices'[j] => i = j
    BY <2>1 DEF StackOK
  <2>3. (used_count' + top') + 1 = PoolCapacity /\ used_count' <= peak_usage'
    BY DEF StackOK, PoolTypeOK
  <2>4. Arranged'
    BY Zenon, <2>1 DEF StackOK, Arranged
  <2>5. QED
    BY Zenon, <2>2, <2>3, <2>4 DEF StackOK
<1>5. QED
  BY Zenon, <1>1, <1>2, <1>3, <1>4 DEF LiveSlots

\* release(o) makes o, and only o, free again.
LEMMA ReleaseOK ==
  ASSUME PoolInv, NEW o \in LiveSlots, release(o)
  PROVE  /\ PoolInv'
         /\ LiveSlots' = LiveSlots \ {o}
<1> USE PoolAssumption DEF PoolInv, release
<1>1. top + 1 \in Slots /\ Arranged'
  BY Zenon, RoomOnStack
<1>2. o \in Slots /\ o \notin FreeSlots
  BY DEF LiveSlots
<1>3. \A i \in 0 .. top : free_indices'[i] = free_indices[i]
  BY <1>1 DEF PoolTypeOK, Slots
<1>4. free_indices'[top + 1] = o
  BY <1>1 DEF PoolTypeOK
<1>5. FreeSlots' = FreeSlots \cup {o}
  <2>1. 0 .. top' = (0 .. top) \cup {top + 1}
    BY DEF PoolTypeOK
  <2>2. QED
    BY <2>1, <1>3, <1>4 DEF FreeSlots
<1>6. PoolTypeOK'
  BY <1>1, <1>2 DEF PoolTypeOK, StackOK, Slots
<1>7. StackOK'
  <2>1. \A i \in 0 .. top : free_indices[i] # o
    BY <1>2 DEF FreeSlots
  <2>2. ASSUME NEW i \in 0 .. top', NEW j \in 0 .. top', free_indices'[i] = free_indices'[j]
        PROVE  i = j
    <3>1. (i \in 0 .. top \/ i = top + 1) /\ (j \in 0 .. top \/ j = top + 1)
      BY DEF PoolTypeOK
    <3>2. QED
      BY Zenon, <2>1, <2>2, <3>1, <1>3, <1>4 DEF StackOK
  <2>3. used_count' + top' + 1 = PoolCapacity /\ used_count' <= peak_usage'
    BY DEF StackOK, PoolTypeOK
  <2>4. QED
    BY Zenon, <1>1, <2>2, <2>3 DEF StackOK
<1>8. QED
  BY Zenon, <1>2, <1>5, <1>6, <1>7 DEF LiveSlots

-----------------------------------------------------------------------------
(***************************************************************************)
(* Steps that leave the resting orders and their links alone.              *)
(***************************************************************************)

\* A resting order is a slot with a price level.
LEMMA RestingOK ==
  ASSUME TypeOK
  PROVE  /\ Resting \subseteq LiveSlots
         /\ Resting \subseteq Slots
         /\ \A o \in Resting : price[o] \in Ticks /\ id[o] \in Nat
BY DEF TypeOK, BookTypeOK, Resting, LiveSlots

\* The links of the resting orders survive a step that touches neither.
LEMMA ListFrame ==
  ASSUME TypeOK, ListInv, Resting' = Resting, head' = head, tail' = tail,
         \A o \in Resting : /\ id'[o] = id[o]
                            /\ price'[o] = price[o]
                            /\ next_order'[o] = next_order[o]
                            /\ prev_order'[o] = prev_order[o]
  PROVE  ListInv'
<1> USE DEF ListInv
<1>1. HeadInv'
  BY DEF HeadInv
<1>2. TailInv'
  BY DEF TailInv
<1>3. EmptyInv'
  BY DEF EmptyInv
<1>4. FirstInv'
  <2>. SUFFICES ASSUME NEW o \in Resting'
                PROVE  head'[price'[o]] # NULL /\ id'[head'[price'[o]]] <= id'[o]
    BY DEF FirstInv
  <2>1. head[price[o]] # NULL /\ id[head[price[o]]] <= id[o]
    BY DEF FirstInv
  <2>2. head[price[o]] \in Resting
    BY <2>1, RestingOK DEF HeadInv
  <2>3. QED
    BY <2>1, <2>2
<1>5. LinkInv'
  BY DEF LinkInv
<1>6. NextInv'
  BY DEF NextInv, LinkInv
<1>7. QED
  BY ZenonT(40), <1>1, <1>2, <1>3, <1>4, <1>5, <1>6

\* So does the rest of the invariant, if the slots handed out stay the same and
\* the call goes on as before.
LEMMA QuietStep ==
  ASSUME EngineInv,
         UNCHANGED <<free_indices, top, used_count, peak_usage, orderVars, quantity,
                     bookVars, total_trades, total_volume, trash_q, pc, callVars>>,
         alloc_failures' \in Nat, exec_q' \in Seq(Trades)
  PROVE  EngineInv'
<1> USE DEF EngineInv, orderVars, bookVars, listVars, callVars
<1>1. LiveSlots' = LiveSlots
  BY DEF LiveSlots, FreeSlots
<1>2. Resting' = Resting
  BY <1>1 DEF Resting
<1>3. TypeOK'
  BY Zenon DEF TypeOK, PoolTypeOK, BookTypeOK, Pointers
<1>4. StackOK'
  BY DEF StackOK, Arranged
<1>5. LiveInv' /\ CallInv' /\ TrashInv'
  <2>1. LiveInv'
    BY <1>1 DEF LiveInv
  <2>2. CallInv'
    BY <1>1 DEF CallInv
  <2>3. TrashInv'
    BY <1>1 DEF TrashInv
  <2>4. QED
    BY Zenon, <2>1, <2>2, <2>3
<1>6. ListInv'
  BY <1>2, ListFrame
<1>7. BestBoundsHold'
  BY <1>2 DEF BestBoundsHold
<1>8. QED
  BY <1>3, <1>4, <1>5, <1>6, <1>7

\* submit_order on an exhausted pool.
LEMMA RejectOK == ASSUME EngineInv, RejectOrder PROVE EngineInv'
<1>1. alloc_failures' \in Nat /\ exec_q' \in Seq(Trades)
  BY DEF EngineInv, TypeOK, PoolTypeOK, BookTypeOK, RejectOrder, acquire_fails, tradeVars
<1>2. QED
  BY <1>1, QuietStep DEF RejectOrder, acquire_fails, tradeVars

\* The caller clears exec_q.
LEMMA ClearOK == ASSUME EngineInv, clear_execution_queue PROVE EngineInv'
<1>1. alloc_failures' \in Nat /\ exec_q' \in Seq(Trades)
  BY DEF EngineInv, TypeOK, PoolTypeOK, clear_execution_queue, poolVars
<1>2. QED
  BY <1>1, QuietStep DEF clear_execution_queue, poolVars

\* A step that changes nothing keeps the invariant.
LEMMA StutterOK == ASSUME EngineInv, UNCHANGED vars PROVE EngineInv'
<1>1. alloc_failures' \in Nat /\ exec_q' \in Seq(Trades)
  BY DEF EngineInv, TypeOK, PoolTypeOK, BookTypeOK, vars, poolVars, tradeVars
<1>2. QED
  BY <1>1, QuietStep DEF vars, poolVars, tradeVars

\* match_order moves a bound past an empty level.
LEMMA SkipOK == ASSUME EngineInv, MatchSkip PROVE EngineInv'
<1> USE DEF EngineInv, MatchSkip, SkipLevel, orderVars, listVars, tradeVars, poolVars, callVars
<1>1. LiveSlots' = LiveSlots
  BY DEF LiveSlots, FreeSlots
<1>2. Resting' = Resting
  BY <1>1 DEF Resting
<1>3. incoming \in Slots
  BY DEF TypeOK
<1>4. best_ask' \in Ticks /\ best_bid' \in Ticks
  BY <1>3, OrderBookAssumption DEF TypeOK, BookTypeOK, Ticks, LastLevel, Touch
<1>5. TypeOK'
  BY ZenonT(40), <1>4 DEF TypeOK, PoolTypeOK, BookTypeOK, Pointers
<1>6. StackOK'
  BY DEF StackOK, Arranged
<1>7. LiveInv' /\ CallInv' /\ TrashInv'
  <2>1. LiveInv'
    BY ZenonT(40), <1>1 DEF LiveInv
  <2>2. CallInv'
    BY <1>1 DEF CallInv
  <2>3. TrashInv'
    BY <1>1 DEF TrashInv
  <2>4. QED
    BY ZenonT(40), <2>1, <2>2, <2>3
<1>8. ListInv'
  BY Zenon, <1>2, ListFrame
<1>9. BestBoundsHold'
  <2>. SUFFICES ASSUME NEW o \in Resting
                PROVE  /\ side[o] = 0 => price[o] <= best_bid'
                       /\ side[o] = 1 => price[o] >= best_ask'
    BY <1>2 DEF BestBoundsHold
  <2>1. price[o] \in Ticks /\ price[o] # Touch(incoming)
    BY RestingOK DEF ListInv, FirstInv
  <2>2. price[o] \in Int /\ best_bid \in Int /\ best_ask \in Int
    BY SMTT(30), <2>1, OrderBookAssumption DEF TypeOK, BookTypeOK, Ticks
  <2>3. /\ side[o] = 0 => price[o] <= best_bid
        /\ side[o] = 1 => price[o] >= best_ask
    BY DEF BestBoundsHold
  <2>4. CASE side[incoming] = 0
    <3>1. best_bid' = best_bid /\ best_ask' = best_ask + 1 /\ price[o] # best_ask
      BY <2>1, <2>4 DEF Touch
    <3>2. QED
      BY <2>2, <2>3, <3>1
  <2>5. CASE side[incoming] # 0
    <3>1. best_bid' = best_bid - 1 /\ best_ask' = best_ask /\ price[o] # best_bid
      BY <2>1, <2>5 DEF Touch
    <3>2. QED
      BY <2>2, <2>3, <3>1
  <2>6. QED
    BY Zenon, <2>4, <2>5
<1>10. QED
  BY <1>5, <1>6, <1>7, <1>8, <1>9

-----------------------------------------------------------------------------
(***************************************************************************)
(* Steps that hand out or take back a slot.                                *)
(***************************************************************************)

\* submit_order obtains an order.
LEMMA AcceptOK ==
  ASSUME EngineInv, NEW l \in Limits, NEW q \in Quantities, NEW t \in Traders,
         AcceptOrder(l[1], l[2], q, t)
  PROVE  EngineInv'
<1> USE DEF EngineInv, AcceptOrder, CallerReady, tradeVars
<1>1. PICK o \in Slots :
        /\ acquire(o)
        /\ incoming' = o
        /\ id' = [id EXCEPT ![o] = next_order_id]
        /\ trader_id' = [trader_id EXCEPT ![o] = t]
        /\ price' = [price EXCEPT ![o] = l[2]]
        /\ quantity' = [quantity EXCEPT ![o] = q]
        /\ side' = [side EXCEPT ![o] = l[1]]
        /\ prev_order' = [prev_order EXCEPT ![o] = NULL]
        /\ next_order' = [next_order EXCEPT ![o] = NULL]
  BY ZenonT(40)
<1>2. PoolInv
  BY DEF TypeOK, PoolInv
<1>3. PoolInv' /\ o \notin LiveSlots /\ LiveSlots' = LiveSlots \cup {o}
  BY <1>1, <1>2, AcquireOK
<1>4. l[1] \in 0 .. 255 /\ l[2] \in Ticks /\ <<l[1], l[2]>> \in Limits /\ q \in 0 .. U32 - 1
  BY EngineAssumption
<1>5. TypeOK'
  <2>1. PoolTypeOK'
    BY <1>3 DEF PoolInv
  <2>2. BookTypeOK'
    BY ZenonT(40), <1>1, <1>4 DEF TypeOK, BookTypeOK, Pointers
  <2>3. QED
    BY <1>1, <2>1, <2>2 DEF TypeOK, Pointers
<1>6. StackOK'
  BY Zenon, <1>3 DEF PoolInv
<1>7. \A x \in LiveSlots : /\ x # o
                           /\ id'[x] = id[x]
                           /\ trader_id'[x] = trader_id[x]
                           /\ price'[x] = price[x]
                           /\ quantity'[x] = quantity[x]
                           /\ side'[x] = side[x]
                           /\ prev_order'[x] = prev_order[x]
                           /\ next_order'[x] = next_order[x]
  BY <1>1, <1>3 DEF TypeOK, BookTypeOK, LiveSlots
<1>8. Resting' = Resting
  BY ZenonT(40), <1>1, <1>3, <1>7 DEF Resting
<1>9. /\ id'[o] = next_order_id
      /\ trader_id'[o] = t
      /\ price'[o] = l[2]
      /\ side'[o] = l[1]
  BY <1>1 DEF TypeOK, BookTypeOK
<1>10. LiveInv'
  <2>1. \A x \in LiveSlots : id[x] \in Nat /\ id[x] < next_order_id
    BY Zenon DEF LiveInv, TypeOK, BookTypeOK, LiveSlots
  <2>2. \A x, y \in LiveSlots' : id'[x] = id'[y] => x = y
    BY <2>1, <1>3, <1>7, <1>9 DEF LiveInv, TypeOK
  <2>3. ASSUME NEW x \in LiveSlots
        PROVE  /\ trader_id'[x] \in Traders
               /\ <<side'[x], price'[x]>> \in Limits
               /\ id'[x] < next_order_id'
               /\ quantity'[x] > 0
    <3>1. pc = "idle" /\ trash_q = <<>>
      BY DEF CallInv
    <3>2. ~\E i \in 1 .. Len(trash_q) : trash_q[i] = x
      BY <3>1
    <3>3. trader_id[x] \in Traders /\ <<side[x], price[x]>> \in Limits /\ quantity[x] > 0
      BY Zenon, <3>1, <3>2 DEF LiveInv
    <3>4. id[x] < next_order_id'
      BY <2>1 DEF TypeOK
    <3>5. QED
      BY <3>3, <3>4, <1>7
  <2>4. /\ trader_id'[o] \in Traders
        /\ <<side'[o], price'[o]>> \in Limits
        /\ id'[o] < next_order_id'
        /\ pc' # "idle" /\ o = incoming'
    BY <1>1, <1>4, <1>9 DEF TypeOK
  <2>5. QED
    BY <2>2, <2>3, <2>4, <1>3 DEF LiveInv
<1>11. CallInv'
  BY <1>1, <1>3, <1>9 DEF CallInv, TypeOK
<1>12. TrashInv'
  BY DEF CallInv, TrashInv
<1>13. ListInv'
  BY Zenon, <1>7, <1>8, RestingOK, ListFrame
<1>14. BestBoundsHold'
  BY <1>7, <1>8, RestingOK DEF BestBoundsHold
<1>15. QED
  BY <1>5, <1>6, <1>10, <1>11, <1>12, <1>13, <1>14

\* The loop over trash_q releases a filled order.
LEMMA ReleaseDeadOK == ASSUME EngineInv, ReleaseDead PROVE EngineInv'
<1> USE DEF EngineInv, ReleaseDead, orderVars, bookVars, listVars, callVars
<1> DEFINE o == Head(trash_q)
<1>1. /\ trash_q \in Seq(Slots)
      /\ Len(trash_q) \in Nat \ {0}
      /\ o = trash_q[1]
      /\ trash_q' \in Seq(Slots)
      /\ Len(trash_q') = Len(trash_q) - 1
      /\ \A i \in 1 .. Len(trash_q') : trash_q'[i] = trash_q[i + 1]
  BY DEF TypeOK, BookTypeOK
<1>2. o \in LiveSlots /\ quantity[o] = 0 /\ o # incoming
  BY <1>1 DEF TrashInv
<1>3. PoolInv
  BY DEF TypeOK, PoolInv
<1>4. PoolInv' /\ LiveSlots' = LiveSlots \ {o}
  BY <1>2, <1>3, ReleaseOK
<1>5. TypeOK'
  BY Zenon, <1>1, <1>4 DEF TypeOK, BookTypeOK, Pointers, PoolInv
<1>6. StackOK'
  BY <1>4 DEF PoolInv
<1>7. Resting' = Resting
  BY <1>2, <1>4 DEF Resting
<1>8. LiveInv'
  <2>1. ASSUME NEW x \in LiveSlots', NEW i \in 1 .. Len(trash_q), trash_q[i] = x
        PROVE  \E j \in 1 .. Len(trash_q') : trash_q'[j] = x
    <3>1. i # 1
      BY <1>1, <1>4, <2>1
    <3>2. i - 1 \in 1 .. Len(trash_q') /\ trash_q'[i - 1] = trash_q[i]
      BY <1>1, <3>1
    <3>3. QED
      BY Zenon, <2>1, <3>2
  <2>2. QED
    BY <2>1, <1>4 DEF LiveInv
<1>9. CallInv'
  BY <1>2, <1>4 DEF CallInv
<1>10. TrashInv'
  <2>1. \A i \in 1 .. Len(trash_q') : i + 1 \in 1 .. Len(trash_q) /\ i + 1 # 1
    BY <1>1
  <2>2. 1 \in 1 .. Len(trash_q)
    BY <1>1
  <2>3. \A i \in 1 .. Len(trash_q') : trash_q'[i] # o
    BY <2>1, <2>2, <1>1 DEF TrashInv
  <2>4. ASSUME NEW i \in 1 .. Len(trash_q'), NEW j \in 1 .. Len(trash_q'),
               trash_q'[i] = trash_q'[j]
        PROVE  i = j
    <3>1. i + 1 = j + 1
      BY <2>1, <2>4, <1>1 DEF TrashInv
    <3>2. QED
      BY <3>1
  <2>5. QED
    BY <2>1, <2>3, <2>4, <1>1, <1>4 DEF TrashInv
<1>11. ListInv'
  BY <1>7, ListFrame
<1>12. BestBoundsHold'
  BY <1>7 DEF BestBoundsHold
<1>13. QED
  BY Zenon, <1>5, <1>6, <1>8, <1>9, <1>10, <1>11, <1>12

\* submit_order returns, releasing a filled incoming order.
LEMMA ReturnOK == ASSUME EngineInv, Return PROVE EngineInv'
<1> USE DEF EngineInv, Return, orderVars, bookVars, listVars, tradeVars, callVars
<1>1. incoming \in LiveSlots /\ PoolInv
  BY DEF CallInv, TypeOK, PoolInv
<1>2. /\ PoolInv'
      /\ LiveSlots' = IF quantity[incoming] = 0 THEN LiveSlots \ {incoming} ELSE LiveSlots
  <2>1. CASE quantity[incoming] = 0
    <3>1. release(incoming)
      BY <2>1
    <3>2. QED
      BY <1>1, <2>1, <3>1, ReleaseOK
  <2>2. CASE quantity[incoming] # 0
    <3>1. UNCHANGED poolVars
      BY <2>2
    <3>2. PoolInv'
      BY <1>1, <3>1, PoolFrame
    <3>3. LiveSlots' = LiveSlots
      BY ZenonT(40), <3>1 DEF poolVars, LiveSlots, FreeSlots
    <3>4. QED
      BY <2>2, <3>2, <3>3
  <2>3. QED
    BY <2>1, <2>2
<1>3. TypeOK'
  BY Zenon, <1>2 DEF TypeOK, BookTypeOK, Pointers, PoolInv
<1>4. Resting' = Resting
  BY <1>1, <1>2 DEF Resting
<1>5. LiveInv'
  <2>1. quantity[incoming] \in Nat
    BY <1>1 DEF TypeOK, BookTypeOK, LiveSlots
  <2>2. ASSUME NEW x \in LiveSlots' PROVE quantity[x] > 0
    <3>1. x \in LiveSlots /\ (x = incoming => quantity[incoming] # 0)
      BY <1>2
    <3>2. CASE x = incoming
      BY <2>1, <3>1, <3>2
    <3>3. CASE x # incoming
      <4>1. ~\E i \in 1 .. Len(trash_q) : trash_q[i] = x
        OBVIOUS
      <4>2. QED
        BY Zenon, <3>1, <3>3, <4>1 DEF LiveInv
    <3>4. QED
      BY <3>2, <3>3
  <2>3. QED
    BY ZenonT(40), <2>2, <1>2 DEF LiveInv
<1>6. CallInv' /\ TrashInv' /\ StackOK'
  BY <1>2 DEF CallInv, TrashInv, PoolInv
<1>7. ListInv'
  BY <1>4, ListFrame
<1>8. BestBoundsHold'
  BY <1>4 DEF BestBoundsHold
<1>9. QED
  BY <1>3, <1>5, <1>6, <1>7, <1>8

-----------------------------------------------------------------------------
(***************************************************************************)
(* A trade.                                                                *)
(***************************************************************************)

\* remove_order(r) of the first order of a level.
LEMMA RemoveHeadOK ==
  ASSUME TypeOK, LiveInv, ListInv, NEW r \in Resting, head[price[r]] = r, remove_order(r),
         UNCHANGED <<id, price>>, Resting' = Resting \ {r}
  PROVE  ListInv'
<1> DEFINE p == price[r]
           n == next_order[r]
<1> USE DEF ListInv
<1>1. r \in Slots /\ r # NULL /\ p \in Ticks /\ prev_order[r] = NULL /\ NULL \notin Slots
  BY Zenon, RestingOK, PoolAssumption DEF HeadInv, Slots
<1>2. /\ head' = [head EXCEPT ![p] = n]
      /\ tail' = [tail EXCEPT ![p] = IF n = NULL THEN NULL ELSE @]
      /\ \A s \in Slots : next_order'[s] = next_order[s]
      /\ \A s \in Slots : prev_order'[s] = IF s = n THEN NULL ELSE prev_order[s]
  BY Zenon, <1>1 DEF remove_order
<1>3. head'[p] = n /\ \A t \in Ticks : t # p => head'[t] = head[t]
  BY Zenon, <1>1, <1>2 DEF TypeOK, BookTypeOK
<1>4. /\ tail'[p] = IF n = NULL THEN NULL ELSE tail[p]
      /\ \A t \in Ticks : t # p => tail'[t] = tail[t]
  BY Zenon, <1>1, <1>2 DEF TypeOK, BookTypeOK
<1>5. IF n = NULL THEN tail[p] = r
                  ELSE n \in Resting /\ price[n] = p /\ prev_order[n] = r /\ id[r] < id[n]
  BY Zenon DEF LinkInv
<1>6. \A x \in Resting : x \in Slots /\ price[x] \in Ticks /\ id[x] \in Nat
  BY Zenon, RestingOK
<1>7. HeadInv'
  <2> SUFFICES ASSUME NEW t \in Ticks, head'[t] # NULL
               PROVE  /\ head'[t] \in Resting \ {r}
                      /\ price[head'[t]] = t
                      /\ prev_order'[head'[t]] = NULL
    BY Zenon DEF HeadInv
  <2>1. CASE t = p
    BY SMTT(30), <2>1, <1>2, <1>3, <1>5, <1>6
  <2>2. CASE t # p
    <3>1. head'[t] = head[t] /\ head[t] \in Resting /\ price[head[t]] = t /\ prev_order[head[t]] = NULL
      BY Zenon, <2>2, <1>3 DEF HeadInv
    <3>2. QED
      BY Zenon, <2>2, <3>1, <1>2, <1>6
  <2>3. QED
    BY Zenon, <2>1, <2>2
<1>8. TailInv'
  <2> SUFFICES ASSUME NEW t \in Ticks, tail'[t] # NULL
               PROVE  /\ tail'[t] \in Resting \ {r}
                      /\ price[tail'[t]] = t
                      /\ next_order'[tail'[t]] = NULL
    BY Zenon DEF TailInv
  <2>1. tail'[t] = tail[t] /\ (t = p => n # NULL)
    BY <1>4
  <2>2. tail[t] \in Resting /\ price[tail[t]] = t /\ next_order[tail[t]] = NULL
    BY Zenon, <2>1 DEF TailInv
  <2>3. QED
    BY Zenon, <2>1, <2>2, <1>2, <1>6
<1>9. EmptyInv'
  BY Zenon, <1>1, <1>3, <1>4 DEF EmptyInv
<1>10. FirstInv'
  <2> SUFFICES ASSUME NEW x \in Resting, x # r
               PROVE  head'[price[x]] # NULL /\ id[head'[price[x]]] <= id[x]
    BY Zenon DEF FirstInv
  <2>1. CASE price[x] = p
    <3>1. id[r] <= id[x] /\ id[r] # id[x]
      BY Zenon, <2>1, RestingOK DEF FirstInv, LiveInv
    <3>2. n # NULL /\ id[n] <= id[x]
      BY SMTT(30), <2>1, <3>1, <1>6 DEF NextInv
    <3>3. QED
      BY Zenon, <2>1, <3>2, <1>3
  <2>2. CASE price[x] # p
    BY Zenon, <2>2, <1>3, <1>6 DEF FirstInv
  <2>3. QED
    BY Zenon, <2>1, <2>2
<1>11. LinkInv'
  <2> SUFFICES ASSUME NEW x \in Resting, x # r
               PROVE  IF next_order'[x] = NULL
                        THEN tail'[price[x]] = x
                        ELSE /\ next_order'[x] \in Resting \ {r}
                             /\ price[next_order'[x]] = price[x]
                             /\ prev_order'[next_order'[x]] = x
                             /\ id[x] < id[next_order'[x]]
    BY Zenon DEF LinkInv
  <2>1. next_order'[x] = next_order[x] /\ x # NULL
    BY Zenon, <1>1, <1>2, <1>6
  <2>2. CASE next_order[x] = NULL
    <3>1. tail[price[x]] = x
      BY Zenon, <2>2 DEF LinkInv
    <3>2. QED
      BY Zenon, <2>1, <2>2, <3>1, <1>4, <1>5, <1>6
  <2>3. CASE next_order[x] # NULL
    <3>1. /\ next_order[x] \in Resting
          /\ price[next_order[x]] = price[x]
          /\ prev_order[next_order[x]] = x
          /\ id[x] < id[next_order[x]]
      BY Zenon, <2>3 DEF LinkInv
    <3>2. next_order[x] # r /\ next_order[x] # n
      BY ZenonT(40), <2>1, <2>3, <3>1, <1>1, <1>5
    <3>3. QED
      BY Zenon, <2>1, <2>3, <3>1, <3>2, <1>2, <1>6
  <2>4. QED
    BY Zenon, <2>2, <2>3
<1>12. NextInv'
  BY SMTT(30), <1>2, <1>6 DEF NextInv
<1>13. QED
  BY Zenon, <1>7, <1>8, <1>9, <1>10, <1>11, <1>12

\* What a trade does, in the terms of the invariant: the incoming order and the
\* first order r of the level give up the same positive quantity.
LEMMA TradeEffect ==
  ASSUME EngineInv, MatchTrade
  PROVE  LET o == incoming
             r == RestingOrder(o)
             q == trade_quantity(o, r)
         IN  /\ o \in LiveSlots /\ o \notin Resting /\ o \in Slots
             /\ r \in Resting /\ r \in Slots /\ r # o
             /\ price[r] = Touch(o) /\ Touch(o) \in Ticks /\ head[price[r]] = r
             /\ q \in Nat /\ q > 0 /\ q <= quantity[o] /\ q <= quantity[r]
             /\ LiveSlots' = LiveSlots
             /\ quantity'[o] = quantity[o] - q
             /\ quantity'[r] = quantity[r] - q
             /\ \A x \in Slots : x # o /\ x # r => quantity'[x] = quantity[x]
             /\ Resting' = IF quantity[r] = q THEN Resting \ {r} ELSE Resting
<1> DEFINE o == incoming
           r == RestingOrder(o)
           q == trade_quantity(o, r)
<1> USE DEF EngineInv, MatchTrade, Trade, TradeWith
<1>1. o \in LiveSlots /\ o \notin Resting /\ o \in Slots
  BY Zenon DEF CallInv, Resting, LiveSlots
<1>2. Touch(o) \in Ticks
  BY Zenon DEF TypeOK, BookTypeOK, Touch
<1>3. r \in Resting /\ price[r] = Touch(o) /\ head[price[r]] = r
  BY Zenon, <1>2 DEF RestingOrder, ListInv, HeadInv
<1>4. r \in Slots /\ r # o /\ quantity[r] > 0 /\ quantity[o] > 0
  BY ZenonT(40), <1>1, <1>3, RestingOK DEF Resting, Matching
<1>5. quantity[o] \in Nat /\ quantity[r] \in Nat
  BY SMTT(30), <1>1, <1>4 DEF TypeOK, BookTypeOK
<1>6. q \in Nat /\ q > 0 /\ q <= quantity[o] /\ q <= quantity[r]
  BY SMTT(30), <1>4, <1>5 DEF trade_quantity
<1>7. LiveSlots' = LiveSlots
  BY ZenonT(40) DEF LiveSlots, FreeSlots, poolVars
<1>8. quantity' = [quantity EXCEPT ![o] = @ - q, ![r] = @ - q]
  BY Zenon
<1>9. /\ quantity'[o] = quantity[o] - q
      /\ quantity'[r] = quantity[r] - q
      /\ \A x \in Slots : x # o /\ x # r => quantity'[x] = quantity[x]
  BY Zenon, <1>1, <1>4, <1>8 DEF TypeOK, BookTypeOK
<1>10. pc = "match" /\ pc' = pc /\ incoming' = incoming
  BY DEF callVars
<1>11. Resting' = IF quantity[r] = q THEN Resting \ {r} ELSE Resting
  <2>1. ASSUME NEW x \in LiveSlots, x # o, x # r
        PROVE  x \in Resting' <=> x \in Resting
    BY ZenonT(40), <2>1, <1>7, <1>9, <1>10 DEF Resting, LiveSlots
  <2>2. o \notin Resting'
    BY Zenon, <1>10 DEF Resting
  <2>3. r \in Resting' <=> quantity[r] # q
    <3>1. r \in LiveSlots'
      BY Zenon, <1>3, <1>7 DEF Resting
    <3>2. quantity'[r] > 0 <=> quantity[r] # q
      BY <1>5, <1>6, <1>9
    <3>3. QED
      BY Zenon, <3>1, <3>2, <1>4, <1>10 DEF Resting
  <2>4. Resting' \subseteq LiveSlots /\ Resting \subseteq LiveSlots
    BY ZenonT(40), <1>7 DEF Resting
  <2>5. \A x : x \in Resting' <=> x \in Resting /\ ~(x = r /\ quantity[r] = q)
    BY ZenonT(40), <2>1, <2>2, <2>3, <2>4, <1>1, <1>3
  <2>6. QED
    BY Zenon, <2>5
<1>12. QED
  BY ZenonT(40), <1>1, <1>2, <1>3, <1>4, <1>6, <1>7, <1>9, <1>11

\* match_order trades with the first order of the level.
LEMMA TradeOK == ASSUME EngineInv, MatchTrade PROVE EngineInv'
<1> DEFINE o == incoming
           r == RestingOrder(o)
           q == trade_quantity(o, r)
<1>1. /\ o \in LiveSlots /\ o \notin Resting /\ o \in Slots
      /\ r \in Resting /\ r \in Slots /\ r # o
      /\ price[r] = Touch(o) /\ Touch(o) \in Ticks /\ head[price[r]] = r
      /\ q \in Nat /\ q > 0 /\ q <= quantity[o] /\ q <= quantity[r]
      /\ LiveSlots' = LiveSlots
      /\ quantity'[o] = quantity[o] - q
      /\ quantity'[r] = quantity[r] - q
      /\ \A x \in Slots : x # o /\ x # r => quantity'[x] = quantity[x]
      /\ Resting' = IF quantity[r] = q THEN Resting \ {r} ELSE Resting
  BY TradeEffect
<1>2. /\ TradeWith(o, r, q)
      /\ pc = "match" /\ pc' = pc
      /\ UNCHANGED <<poolVars, callVars>>
  BY DEF MatchTrade, Trade
<1> HIDE DEF o, r, q
<1>3. /\ UNCHANGED <<orderVars, best_bid, best_ask>>
      /\ total_trades' = total_trades + 1
      /\ total_volume' = total_volume + q
      /\ exec_q' = Append(exec_q, Execution(o, r, q))
      /\ quantity' = [quantity EXCEPT ![o] = @ - q, ![r] = @ - q]
      /\ volume' = VolumeAfter(o, q)
      /\ quantity[r] = q => trash_q' = Append(trash_q, r) /\ remove_order(r)
      /\ quantity[r] # q => UNCHANGED <<trash_q, listVars>>
  BY <1>2 DEF TradeWith
<1>4. TypeOK /\ StackOK /\ LiveInv /\ CallInv /\ TrashInv /\ ListInv /\ BestBoundsHold
  BY Zenon DEF EngineInv
<1>5. r \in LiveSlots
  BY <1>1 DEF Resting
<1>6. TypeOK'
  <2>1. PoolTypeOK'
    BY SMTT(30), <1>2, <1>4 DEF TypeOK, PoolTypeOK, poolVars
  <2>2. Execution(o, r, q) \in Trades
    BY ZenonT(40), <1>1, <1>4, <1>5 DEF Execution, Trades, LiveInv, TypeOK, BookTypeOK
  <2>3. exec_q' \in Seq(Trades)
    BY <2>2, <1>3, <1>4 DEF TypeOK, BookTypeOK
  <2>4. volume' \in [Ticks -> 0 .. U32 - 1]
    <3>1. volume[Touch(o)] - q \in Int
      BY SMTT(30), <1>1, <1>4, OrderBookAssumption DEF TypeOK, BookTypeOK
    <3>2. (volume[Touch(o)] - q) % U32 \in 0 .. U32 - 1
      BY <3>1, OrderBookAssumption
    <3>3. QED
      BY ZenonT(40), <3>2, <1>1, <1>3, <1>4 DEF TypeOK, BookTypeOK, VolumeAfter
  <2>5. quantity' \in [Slots -> 0 .. U32 - 1]
    <3>1. /\ quantity[o] - q \in 0 .. U32 - 1
          /\ quantity[r] - q \in 0 .. U32 - 1
      BY SMTT(30), <1>1, <1>4, OrderBookAssumption DEF TypeOK, BookTypeOK
    <3>2. QED
      BY ZenonT(40), <3>1, <1>1, <1>3, <1>4 DEF TypeOK, BookTypeOK
  <2>6. trash_q' \in Seq(Slots)
    <3>1. trash_q \in Seq(Slots)
      BY <1>4 DEF TypeOK, BookTypeOK
    <3>2. trash_q' = Append(trash_q, r) \/ trash_q' = trash_q
      BY <1>3
    <3>3. QED
      BY <3>1, <3>2, <1>1
  <2>7. /\ prev_order' \in [Slots -> Pointers]
        /\ next_order' \in [Slots -> Pointers]
        /\ head' \in [Ticks -> Pointers]
        /\ tail' \in [Ticks -> Pointers]
    <3>1. CASE quantity[r] = q
      <4>1. /\ prev_order[r] \in Pointers /\ next_order[r] \in Pointers
            /\ prev_order \in [Slots -> Pointers] /\ next_order \in [Slots -> Pointers]
            /\ head \in [Ticks -> Pointers] /\ tail \in [Ticks -> Pointers]
        BY Zenon, <1>1, <1>4 DEF TypeOK, BookTypeOK
      <4>2. remove_order(r)
        BY SMTT(30), <3>1, <1>3
      <4>3. QED
        BY Zenon, <4>1, <4>2, <1>1 DEF remove_order
    <3>2. CASE quantity[r] # q
      BY ZenonT(40), <3>2, <1>3, <1>4 DEF TypeOK, BookTypeOK, listVars
    <3>3. QED
      BY Zenon, <3>1, <3>2
  <2>8. total_trades' \in Nat /\ total_volume' \in Nat
    BY SMTT(30), <1>1, <1>3, <1>4 DEF TypeOK, BookTypeOK
  <2>9. BookTypeOK'
    BY ZenonT(40), <2>3, <2>4, <2>5, <2>6, <2>7, <2>8, <1>3, <1>4 DEF TypeOK, BookTypeOK, orderVars
  <2>10. QED
    BY <2>1, <2>9, <1>2, <1>4 DEF TypeOK, callVars, Pointers
<1>7. StackOK'
  BY <1>2, <1>4 DEF StackOK, Arranged, poolVars
<1>8. /\ trash_q \in Seq(Slots)
      /\ quantity[r] = q =>
           /\ Len(trash_q') = Len(trash_q) + 1
           /\ trash_q'[Len(trash_q) + 1] = r
           /\ \A i \in 1 .. Len(trash_q) : trash_q'[i] = trash_q[i]
      /\ quantity[r] # q => trash_q' = trash_q
  <2>1. trash_q \in Seq(Slots)
    BY <1>4 DEF TypeOK, BookTypeOK
  <2>2. CASE quantity[r] = q
    <3>1. trash_q' = Append(trash_q, r)
      BY Zenon, <2>2, <1>3
    <3>2. r \in Slots BY Zenon, <1>1
    <3>3. QED
      BY ONLY SMTT(30), <2>1, <2>2, <3>1, <3>2
  <2>3. CASE quantity[r] # q
    BY ZenonT(40), <2>1, <2>3, <1>3
  <2>4. QED
    BY ZenonT(40), <2>2, <2>3
<1>9. /\ quantity[r] = q => quantity'[r] = 0
      /\ quantity[r] # q => quantity'[r] > 0
  BY SMTT(30), <1>1, <1>4 DEF TypeOK, BookTypeOK
<1>10. LiveInv'
  <2>1. ASSUME NEW x \in LiveSlots
        PROVE  \/ quantity'[x] > 0
               \/ pc' # "idle" /\ x = incoming'
               \/ \E i \in 1 .. Len(trash_q') : trash_q'[i] = x
    <3>1. CASE x = o
      BY ZenonT(40), <3>1, <1>2 DEF callVars, o
    <3>2. CASE x = r
      BY SMTT(30), <3>2, <1>8, <1>9
    <3>3. CASE x # o /\ x # r
      <4>1. x \in Slots /\ quantity'[x] = quantity[x]
        BY <3>3, <1>1 DEF LiveSlots
      <4>2. (\E i \in 1 .. Len(trash_q) : trash_q[i] = x)
               => \E i \in 1 .. Len(trash_q') : trash_q'[i] = x
        BY <1>8
      <4>3. QED
        BY ZenonT(40), <3>3, <4>1, <4>2, <1>2, <1>4 DEF LiveInv, o
    <3>4. QED
      BY ZenonT(40), <3>1, <3>2, <3>3
  <2>2. QED
    BY ZenonT(40), <2>1, <1>1, <1>2, <1>3, <1>4 DEF LiveInv, orderVars, callVars
<1>11. CallInv'
  BY Zenon, <1>1, <1>2, <1>3, <1>4 DEF CallInv, callVars, orderVars
<1>12. TrashInv'
  <2>1. \A i \in 1 .. Len(trash_q) : /\ trash_q[i] \in LiveSlots
                                     /\ trash_q[i] # o /\ trash_q[i] # r
                                     /\ quantity'[trash_q[i]] = 0
    <3>1. ASSUME NEW i \in 1 .. Len(trash_q)
          PROVE  trash_q[i] \in LiveSlots /\ trash_q[i] # o /\ quantity[trash_q[i]] = 0
      BY Zenon, <1>4 DEF TrashInv, o
    <3>2. quantity[r] # 0
      BY SMTT(30), <1>1, <1>4 DEF TypeOK, BookTypeOK
    <3>3. QED
      BY Zenon, <3>1, <3>2, <1>1 DEF LiveSlots
  <2>2. incoming' = o /\ LiveSlots' = LiveSlots /\ r \in LiveSlots /\ r # o
    BY ZenonT(40), <1>1, <1>2, <1>4, <1>5 DEF callVars, o
  <2>3. \A i, j \in 1 .. Len(trash_q) : trash_q[i] = trash_q[j] => i = j
    BY SMTT(30), <1>4 DEF TrashInv
  <2>4. CASE quantity[r] = q
    <3>1. Len(trash_q) \in Nat
      BY <1>8
    <3>2. \A i \in 1 .. Len(trash_q') :
            \/ i \in 1 .. Len(trash_q) /\ trash_q'[i] = trash_q[i]
            \/ i = Len(trash_q) + 1 /\ trash_q'[i] = r
      BY ONLY <3>1, <2>4, <1>8
    <3>3. ASSUME NEW i \in 1 .. Len(trash_q')
          PROVE  trash_q'[i] \in LiveSlots' /\ quantity'[trash_q'[i]] = 0 /\ trash_q'[i] # incoming'
      BY Zenon, <3>2, <2>1, <2>2, <2>4, <1>9
    <3>4. ASSUME NEW i \in 1 .. Len(trash_q'), NEW j \in 1 .. Len(trash_q'),
                 trash_q'[i] = trash_q'[j]
          PROVE  i = j
      BY Zenon, <3>2, <3>4, <2>1, <2>3
    <3>5. QED
      BY ZenonT(40), <3>3, <3>4 DEF TrashInv
  <2>5. CASE quantity[r] # q
    BY Zenon, <2>1, <2>2, <2>3, <2>5, <1>8 DEF TrashInv
  <2>6. QED
    BY Zenon, <2>4, <2>5
<1>13. ListInv'
  <2>1. CASE quantity[r] = q
    BY Zenon, <2>1, <1>1, <1>3, <1>4, RemoveHeadOK DEF orderVars
  <2>2. CASE quantity[r] # q
    BY ZenonT(40), <2>2, <1>1, <1>3, <1>4, ListFrame DEF orderVars, listVars
  <2>3. QED
    BY <2>1, <2>2
<1>14. BestBoundsHold'
  BY <1>1, <1>3, <1>4 DEF BestBoundsHold, orderVars
<1>15. QED
  BY ZenonT(40), <1>6, <1>7, <1>10, <1>11, <1>12, <1>13, <1>14 DEF EngineInv

-----------------------------------------------------------------------------
(***************************************************************************)
(* The end of match_order: what is left of the incoming order rests.       *)
(***************************************************************************)

\* insert_order(o) of an order that arrived after all resting ones.
LEMMA InsertOK ==
  ASSUME TypeOK, ListInv, NEW o \in Slots, o \notin Resting, insert_order(o),
         UNCHANGED <<id, price>>, Resting' = Resting \cup {o},
         \A x \in Resting : id[x] < id[o]
  PROVE  ListInv'
<1> DEFINE p == price[o]
           last == tail[p]
<1> USE DEF ListInv
<1>1. p \in Ticks /\ o # NULL /\ NULL \notin Slots /\ id[o] \in Nat
  BY ZenonT(40), PoolAssumption DEF TypeOK, BookTypeOK, Slots
<1>2. \A x \in Resting : x \in Slots /\ x # o /\ x # NULL /\ price[x] \in Ticks /\ id[x] \in Nat
  BY <1>1, RestingOK
<1>3. head'[p] = (IF head[p] = NULL THEN o ELSE head[p])
      /\ \A t \in Ticks : t # p => head'[t] = head[t]
  BY <1>1 DEF insert_order, TypeOK, BookTypeOK
<1>4. tail'[p] = o /\ \A t \in Ticks : t # p => tail'[t] = tail[t]
  BY SMTT(30), <1>1 DEF insert_order, TypeOK, BookTypeOK
<1>5. /\ prev_order'[o] = IF head[p] = NULL THEN NULL ELSE last
      /\ \A x \in Slots : x # o => prev_order'[x] = prev_order[x]
  BY SMTT(30), <1>1 DEF insert_order, TypeOK, BookTypeOK
<1>6. /\ next_order'[o] = NULL
      /\ \A x \in Slots : x # o => next_order'[x] = IF head[p] # NULL /\ x = last
                                                      THEN o ELSE next_order[x]
  BY Zenon, <1>1 DEF insert_order
<1>7. head[p] # NULL => /\ last \in Resting /\ price[last] = p /\ next_order[last] = NULL
                        /\ head[p] \in Resting /\ price[head[p]] = p /\ prev_order[head[p]] = NULL
  BY SMTT(30), <1>1 DEF EmptyInv, TailInv, HeadInv
<1>8. \A x \in Resting : price[x] = p => head[p] # NULL
  BY DEF FirstInv
<1> HIDE DEF last, p
<1>9. HeadInv'
  <2> SUFFICES ASSUME NEW t \in Ticks, head'[t] # NULL
               PROVE  /\ head'[t] \in Resting \cup {o}
                      /\ price[head'[t]] = t
                      /\ prev_order'[head'[t]] = NULL
    BY DEF HeadInv
  <2>1. CASE t = p
    <3>1. CASE head[p] = NULL
      BY <2>1, <3>1, <1>3, <1>5 DEF p
    <3>2. CASE head[p] # NULL
      BY Zenon, <2>1, <3>2, <1>2, <1>3, <1>5, <1>7
    <3>3. QED
      BY <3>1, <3>2
  <2>2. CASE t # p
    <3>1. head'[t] = head[t] /\ head[t] \in Resting /\ price[head[t]] = t /\ prev_order[head[t]] = NULL
      BY Zenon, <2>2, <1>3 DEF HeadInv
    <3>2. QED
      BY Zenon, <3>1, <1>2, <1>5
  <2>3. QED
    BY <2>1, <2>2
<1>10. TailInv'
  <2> SUFFICES ASSUME NEW t \in Ticks, tail'[t] # NULL
               PROVE  /\ tail'[t] \in Resting \cup {o}
                      /\ price[tail'[t]] = t
                      /\ next_order'[tail'[t]] = NULL
    BY DEF TailInv
  <2>1. CASE t = p
    BY Zenon, <2>1, <1>4, <1>6 DEF p
  <2>2. CASE t # p
    <3>1. tail'[t] = tail[t] /\ tail[t] \in Resting /\ price[tail[t]] = t /\ next_order[tail[t]] = NULL
      BY ZenonT(40), <2>2, <1>4 DEF TailInv
    <3>2. QED
      BY <2>2, <3>1, <1>2, <1>6, <1>7
  <2>3. QED
    BY <2>1, <2>2
<1>11. EmptyInv'
  BY ZenonT(40), <1>1, <1>3, <1>4 DEF EmptyInv
<1>12. FirstInv'
  <2> SUFFICES ASSUME NEW x \in Resting \cup {o}
               PROVE  head'[price[x]] # NULL /\ id[head'[price[x]]] <= id[x]
    BY DEF FirstInv
  <2>1. CASE x = o
    <3>1. head'[p] # NULL /\ id[head'[p]] <= id[o]
      <4>1. CASE head[p] = NULL
        BY <4>1, <1>1, <1>3
      <4>2. CASE head[p] # NULL
        <5>1. head'[p] = head[p] /\ head[p] \in Resting
          BY SMTT(30), <4>2, <1>3, <1>7
        <5>2. id[head[p]] < id[o] /\ id[head[p]] \in Nat
          BY <5>1, <1>2
        <5>3. QED
          BY <4>2, <5>1, <5>2, <1>1
      <4>3. QED
        BY <4>1, <4>2
    <3>2. QED
      BY <2>1, <3>1 DEF p
  <2>2. CASE x # o
    <3>1. x \in Resting /\ price[x] \in Ticks
      BY <2>2, <1>2
    <3>2. head'[price[x]] = head[price[x]]
      BY <3>1, <1>3, <1>8
    <3>3. QED
      BY <3>1, <3>2 DEF FirstInv
  <2>3. QED
    BY <2>1, <2>2
<1>13. LinkInv'
  <2> SUFFICES ASSUME NEW x \in Resting \cup {o}
               PROVE  IF next_order'[x] = NULL
                        THEN tail'[price[x]] = x
                        ELSE /\ next_order'[x] \in Resting \cup {o}
                             /\ price[next_order'[x]] = price[x]
                             /\ prev_order'[next_order'[x]] = x
                             /\ id[x] < id[next_order'[x]]
    BY ZenonT(40), <1>2 DEF LinkInv
  <2>1. CASE x = o
    BY <2>1, <1>4, <1>6 DEF p
  <2>2. CASE x # o /\ head[p] # NULL /\ x = last
    <3>1. next_order'[x] = o /\ prev_order'[o] = x
      BY ZenonT(40), <2>2, <1>2, <1>5, <1>6, <1>7
    <3>2. o # NULL /\ price[o] = price[x] /\ id[x] < id[o]
      BY <2>2, <1>1, <1>7 DEF p
    <3>3. QED
      BY Zenon, <3>1, <3>2
  <2>3. CASE x # o /\ ~(head[p] # NULL /\ x = last)
    <3>1. x \in Resting /\ next_order'[x] = next_order[x]
      BY <2>3, <1>2, <1>6
    <3>2. CASE next_order[x] = NULL
      <4>1. tail[price[x]] = x
        BY <3>1, <3>2 DEF LinkInv
      <4>2. price[x] # p
        BY <2>3, <3>1, <4>1, <1>8 DEF last
      <4>3. QED
        BY Zenon, <3>1, <3>2, <4>1, <4>2, <1>2, <1>4
    <3>3. CASE next_order[x] # NULL
      <4>1. /\ next_order[x] \in Resting
            /\ price[next_order[x]] = price[x]
            /\ prev_order[next_order[x]] = x
            /\ id[x] < id[next_order[x]]
        BY <3>1, <3>3 DEF LinkInv
      <4>2. QED
        BY SMTT(30), <3>1, <3>3, <4>1, <1>2, <1>5
    <3>4. QED
      BY ZenonT(40), <3>2, <3>3
  <2>4. QED
    BY Zenon, <2>1, <2>2, <2>3
<1>14. NextInv'
  <2> SUFFICES ASSUME NEW x \in Resting \cup {o}, NEW y \in Resting \cup {o},
                      price[x] = price[y], id[x] < id[y]
               PROVE  next_order'[x] # NULL /\ id[next_order'[x]] <= id[y]
    BY DEF NextInv
  <2>1. x \in Resting
    BY <1>1, <1>2
  <2>2. CASE y = o
    <3>1. CASE x = last /\ head[p] # NULL
      BY <2>1, <2>2, <3>1, <1>1, <1>2, <1>6
    <3>2. CASE ~(x = last /\ head[p] # NULL)
      <4>1. next_order'[x] = next_order[x]
        BY <2>1, <3>2, <1>2, <1>6
      <4>2. head[p] # NULL /\ x # tail[price[x]]
        BY <2>1, <2>2, <3>2, <1>8 DEF p, last
      <4>3. next_order[x] # NULL /\ next_order[x] \in Resting
        BY <2>1, <4>2 DEF LinkInv
      <4>4. QED
        BY <2>2, <4>1, <4>3, <1>1, <1>2
    <3>3. QED
      BY <3>1, <3>2
  <2>3. CASE y # o
    <3>1. next_order[x] # NULL /\ id[next_order[x]] <= id[y]
      BY ZenonT(40), <2>1, <2>3 DEF NextInv
    <3>2. next_order'[x] = next_order[x]
      BY <2>1, <3>1, <1>2, <1>6, <1>7
    <3>3. QED
      BY <3>1, <3>2
  <2>4. QED
    BY <2>2, <2>3
<1>15. QED
  BY Zenon, <1>9, <1>10, <1>11, <1>12, <1>13, <1>14

\* match_order ends.
LEMMA EndOK == ASSUME EngineInv, MatchEnd PROVE EngineInv'
<1> DEFINE o == incoming
<1>1. TypeOK /\ StackOK /\ LiveInv /\ CallInv /\ TrashInv /\ ListInv /\ BestBoundsHold
  BY DEF EngineInv
<1>2. /\ pc = "match" /\ pc' = "reclaim" /\ UNCHANGED <<poolVars, callVars>>
      /\ UNCHANGED <<orderVars, quantity, tradeVars>>
      /\ quantity[o] > 0 => insert_order(o)
      /\ ~(quantity[o] > 0) => UNCHANGED bookVars
  BY DEF MatchEnd, EndMatch
<1>3. o \in LiveSlots /\ o \in Slots /\ o \notin Resting /\ incoming' = o
  BY <1>1, <1>2 DEF CallInv, Resting, LiveSlots, callVars
<1>4. LiveSlots' = LiveSlots
  BY <1>2 DEF LiveSlots, FreeSlots, poolVars
<1>5. Resting' = IF quantity[o] > 0 THEN Resting \cup {o} ELSE Resting
  <2>1. \A x : x \in Resting' <=> x \in Resting \/ (x = o /\ quantity[o] > 0)
    BY <1>2, <1>3, <1>4 DEF Resting
  <2>2. QED
    BY <2>1
<1>6. id[o] \in Nat /\ price[o] \in Ticks /\ quantity[o] \in 0 .. U32 - 1
  BY <1>1, <1>3 DEF TypeOK, BookTypeOK
<1>7. TypeOK'
  <2>1. PoolTypeOK'
    BY <1>1, <1>2 DEF TypeOK, PoolTypeOK, poolVars
  <2>2. /\ prev_order' \in [Slots -> Pointers] /\ next_order' \in [Slots -> Pointers]
        /\ head' \in [Ticks -> Pointers] /\ tail' \in [Ticks -> Pointers]
        /\ volume' \in [Ticks -> 0 .. U32 - 1]
        /\ best_bid' \in Ticks /\ best_ask' \in Ticks
    <3>1. /\ prev_order \in [Slots -> Pointers] /\ next_order \in [Slots -> Pointers]
          /\ head \in [Ticks -> Pointers] /\ tail \in [Ticks -> Pointers]
          /\ volume \in [Ticks -> 0 .. U32 - 1]
          /\ best_bid \in Ticks /\ best_ask \in Ticks
      BY <1>1 DEF TypeOK, BookTypeOK
    <3>2. CASE ~(quantity[o] > 0)
      BY <3>1, <3>2, <1>2 DEF bookVars, listVars
    <3>3. CASE quantity[o] > 0
      <4>1. insert_order(o)
        BY <3>3, <1>2
      <4>2. volume[price[o]] + quantity[o] \in Int
        BY <3>1, <1>6, OrderBookAssumption
      <4>3. (volume[price[o]] + quantity[o]) % U32 \in 0 .. U32 - 1
        BY <4>2, OrderBookAssumption
      <4>4. volume' \in [Ticks -> 0 .. U32 - 1]
        BY <3>1, <4>1, <4>3, <1>6 DEF insert_order
      <4>5. /\ head' \in [Ticks -> Pointers] /\ tail' \in [Ticks -> Pointers]
            /\ prev_order' \in [Slots -> Pointers]
        BY <3>1, <4>1, <1>3, <1>6 DEF insert_order, Pointers
      <4>6. next_order' \in [Slots -> Pointers]
        BY <3>1, <4>1, <1>3, <1>6 DEF insert_order, Pointers
      <4>7. best_bid' \in Ticks /\ best_ask' \in Ticks
        BY <3>1, <4>1, <1>6 DEF insert_order, BidAfter, AskAfter
      <4>8. QED
        BY <4>4, <4>5, <4>6, <4>7
    <3>4. QED
      BY <3>2, <3>3
  <2>3. BookTypeOK'
    BY Zenon, <2>2, <1>1, <1>2 DEF TypeOK, BookTypeOK, orderVars, tradeVars
  <2>4. QED
    BY <2>1, <2>3, <1>1, <1>2, <1>3 DEF TypeOK, callVars, Pointers
<1>8. StackOK'
  BY <1>1, <1>2 DEF StackOK, Arranged, poolVars
<1>9. LiveInv' /\ CallInv' /\ TrashInv'
  <2>1. LiveInv'
    BY <1>1, <1>2, <1>4 DEF LiveInv, orderVars, tradeVars, callVars
  <2>2. CallInv'
    BY <1>1, <1>2, <1>4 DEF CallInv, orderVars, tradeVars, callVars
  <2>3. TrashInv'
    BY <1>1, <1>2, <1>4 DEF TrashInv, tradeVars, callVars
  <2>4. QED
    BY SMTT(30), <2>1, <2>2, <2>3
<1>10. ListInv'
  <2>1. CASE quantity[o] > 0
    <3>1. \A x \in Resting : id[x] < id[o]
      <4> SUFFICES ASSUME NEW x \in Resting PROVE id[x] < id[o]
        OBVIOUS
      <4>1. x \in LiveSlots /\ x # o /\ id[x] \in Nat
        BY <1>1, <1>3, RestingOK
      <4>2. id[x] < next_order_id /\ id[x] # id[o]
        BY Zenon, <4>1, <1>1, <1>3 DEF LiveInv
      <4>3. id[o] = next_order_id - 1
        BY <1>1, <1>2 DEF CallInv
      <4>4. next_order_id \in Nat
        BY <1>1 DEF TypeOK
      <4>5. QED
        BY <4>1, <4>2, <4>3, <4>4, <1>6
    <3>2. insert_order(o) /\ Resting' = Resting \cup {o} /\ UNCHANGED <<id, price>>
      BY Zenon, <2>1, <1>2, <1>5 DEF orderVars
    <3>3. QED
      BY <3>1, <3>2, <1>1, <1>3, InsertOK
  <2>2. CASE ~(quantity[o] > 0)
    BY <2>2, <1>1, <1>2, <1>5, ListFrame DEF orderVars, bookVars, listVars
  <2>3. QED
    BY <2>1, <2>2
<1>11. BestBoundsHold'
  <2> SUFFICES ASSUME NEW x \in Resting'
               PROVE  /\ side[x] = 0 => price[x] <= best_bid'
                      /\ side[x] = 1 => price[x] >= best_ask'
    BY <1>2 DEF BestBoundsHold, orderVars
  <2>1. best_bid \in Int /\ best_ask \in Int /\ price[o] \in Int
    BY <1>1, <1>6, OrderBookAssumption DEF TypeOK, BookTypeOK, Ticks
  <2>2. x \in Resting => price[x] \in Int
    BY <1>1, RestingOK, OrderBookAssumption DEF Ticks
  <2>3. CASE quantity[o] > 0
    <3>1. best_bid' = BidAfter(o) /\ best_ask' = AskAfter(o)
      BY <2>3, <1>2 DEF insert_order
    <3>2. CASE x = o
      BY <2>1, <3>1, <3>2 DEF BidAfter, AskAfter
    <3>3. CASE x \in Resting
      BY <2>1, <2>2, <3>1, <3>3, <1>1 DEF BidAfter, AskAfter, BestBoundsHold
    <3>4. QED
      BY <2>3, <3>2, <3>3, <1>5
  <2>4. CASE ~(quantity[o] > 0)
    BY <2>4, <1>1, <1>2, <1>5 DEF bookVars, BestBoundsHold
  <2>5. QED
    BY <2>3, <2>4
<1>12. QED
  BY <1>7, <1>8, <1>9, <1>10, <1>11 DEF EngineInv

-----------------------------------------------------------------------------
(***************************************************************************)
(* The invariant holds in every reachable state.                           *)
(***************************************************************************)

\* The invariant holds of the empty engine.
LEMMA EngineInvInit == Init => EngineInv
<1> SUFFICES ASSUME Init PROVE EngineInv
  OBVIOUS
<1> USE PoolAssumption, OrderBookAssumption DEF Init
<1>1. PoolTypeOK /\ StackOK /\ LiveSlots = {}
  BY PoolInitOK DEF PoolInv
<1>2. Resting = {}
  BY <1>1 DEF Resting
<1>3. TypeOK
  BY <1>1 DEF TypeOK, BookTypeOK, BookInit, Pointers, Ticks
<1>4. LiveInv /\ CallInv /\ TrashInv
  BY <1>1 DEF LiveInv, CallInv, TrashInv, BookInit
<1>5. ListInv
  BY <1>2 DEF ListInv, HeadInv, TailInv, EmptyInv, FirstInv, LinkInv, NextInv, BookInit
<1>6. BestBoundsHold
  BY <1>2 DEF BestBoundsHold
<1>7. QED
  BY <1>1, <1>3, <1>4, <1>5, <1>6 DEF EngineInv

\* Every step of the engine keeps the invariant.
LEMMA EngineInvNext == EngineInv /\ [Next]_vars => EngineInv'
<1> SUFFICES ASSUME EngineInv, [Next]_vars PROVE EngineInv'
  OBVIOUS
<1>1. CASE RejectOrder
  BY <1>1, RejectOK
<1>2. ASSUME NEW l \in Limits, NEW q \in Quantities, NEW t \in Traders,
             AcceptOrder(l[1], l[2], q, t)
      PROVE  EngineInv'
  BY Zenon, <1>2, AcceptOK
<1>3. CASE MatchSkip
  BY <1>3, SkipOK
<1>4. CASE MatchTrade
  BY <1>4, TradeOK
<1>5. CASE MatchEnd
  BY <1>5, EndOK
<1>6. CASE ReleaseDead
  BY <1>6, ReleaseDeadOK
<1>7. CASE Return
  BY <1>7, ReturnOK
<1>8. CASE clear_execution_queue
  BY <1>8, ClearOK
<1>9. CASE UNCHANGED vars
  BY <1>9, StutterOK
<1>10. QED
  BY <1>1, <1>2, <1>3, <1>4, <1>5, <1>6, <1>7, <1>8, <1>9 DEF Next, submit_order, CallStep

\* The inductive invariant: whatever is submitted, the pool, the linked lists and
\* the two best-price bounds of the engine stay consistent.
THEOREM EngineInvariant == Spec => []EngineInv
<1>1. QED
  BY EngineInvInit, EngineInvNext, PTL DEF Spec

\* Type correctness; trades name real traders, quantities never underflow and no
\* array is indexed outside its bounds.
THEOREM TypeCorrect == Spec => []TypeOK
<1>1. EngineInv => TypeOK
  BY DEF EngineInv
<1>2. QED
  BY <1>1, EngineInvariant, PTL

\* best_bid and best_ask bound the resting orders whatever is submitted: a level
\* is only skipped when nothing rests there.
THEOREM BestBounds == Spec => []BestBoundsHold
<1>1. EngineInv => BestBoundsHold
  BY DEF EngineInv
<1>2. QED
  BY <1>1, EngineInvariant, PTL

-----------------------------------------------------------------------------
(***************************************************************************)
(* With InteriorLimits the two sides of the book never meet.               *)
(***************************************************************************)

\* match_order leaves something of the incoming order only when that crosses nothing.
LEMMA RestCrossesNothing ==
  ASSUME InteriorLimits, EngineInv, MatchEnd, quantity[incoming] > 0
  PROVE  /\ ~Crosses(incoming)
         /\ \/ side[incoming] = 0 /\ price[incoming] < MaxPriceTicks
            \/ side[incoming] = 1 /\ price[incoming] > 0
<1> DEFINE o == incoming
<1>1. o \in LiveSlots /\ o \in Slots
  BY SMTT(30) DEF EngineInv, CallInv, MatchEnd, LiveSlots
<1>2. PICK l \in Limits : l = <<side[o], price[o]>>
  BY Zenon, <1>1 DEF EngineInv, LiveInv
<1>3. l[1] = side[o] /\ l[2] = price[o]
  BY <1>2
<1>4. \/ side[o] = 0 /\ price[o] < MaxPriceTicks
      \/ side[o] = 1 /\ price[o] > 0
  BY <1>3 DEF InteriorLimits
<1>5. price[o] \in Int /\ best_bid \in Int /\ best_ask \in Int
  BY <1>1, OrderBookAssumption DEF EngineInv, TypeOK, BookTypeOK, Ticks
<1>6. Crosses(o) => LastLevel(o)
  BY DEF MatchEnd, EndMatch, Matching
<1>7. ~Crosses(o)
  BY <1>4, <1>5, <1>6, OrderBookAssumption DEF Crosses, LastLevel, Touch
<1>8. QED
  BY <1>4, <1>7

\* With interior limits, a step keeps the two bounds apart.
LEMMA ApartNext ==
  ASSUME InteriorLimits, EngineInv, BoundsApart, [Next]_vars
  PROVE  BoundsApart'
<1>1. best_bid \in Int /\ best_ask \in Int
  BY OrderBookAssumption DEF EngineInv, TypeOK, BookTypeOK, Ticks
<1>2. CASE MatchSkip
  BY <1>1, <1>2 DEF MatchSkip, SkipLevel, BoundsApart
<1>3. CASE MatchEnd
  <2> DEFINE o == incoming
  <2>1. price[o] \in Int
    BY <1>3, OrderBookAssumption DEF EngineInv, CallInv, MatchEnd, LiveSlots, TypeOK, BookTypeOK, Ticks
  <2>2. CASE quantity[o] > 0
    <3>1. best_bid' = BidAfter(o) /\ best_ask' = AskAfter(o)
      BY <2>2, <1>3 DEF MatchEnd, EndMatch, insert_order
    <3>2. /\ ~Crosses(o)
          /\ \/ side[o] = 0 /\ price[o] < MaxPriceTicks
             \/ side[o] = 1 /\ price[o] > 0
      BY <2>2, <1>3, RestCrossesNothing
    <3>3. QED
      BY <2>1, <3>1, <3>2, <1>1 DEF Crosses, BidAfter, AskAfter, BoundsApart
  <2>3. CASE ~(quantity[o] > 0)
    BY <2>3, <1>3 DEF MatchEnd, EndMatch, bookVars, BoundsApart
  <2>4. QED
    BY <2>2, <2>3
<1>4. CASE ~MatchSkip /\ ~MatchEnd
  <2>1. UNCHANGED <<best_bid, best_ask>>
    BY <1>4 DEF Next, submit_order, CallStep, RejectOrder, AcceptOrder, MatchTrade, Trade, TradeWith,
                ReleaseDead, Return, clear_execution_queue, bookVars, vars
  <2>2. QED
    BY Zenon, <2>1 DEF BoundsApart
<1>5. QED
  BY <1>2, <1>3, <1>4

\* With interior limits, the two bounds are always apart.
LEMMA ApartInvariant == ASSUME InteriorLimits PROVE Spec => []BoundsApart
<1>1. Init => BoundsApart
  BY OrderBookAssumption DEF Init, BookInit, BoundsApart
<1>2. EngineInv /\ BoundsApart /\ [Next]_vars => BoundsApart'
  BY ApartNext
<1>3. QED
  BY <1>1, <1>2, EngineInvariant, PTL DEF Spec

\* No resting buy is priced at or above a resting sell, although both sides share
\* the array of levels.
THEOREM NeverCrossed == ASSUME InteriorLimits PROVE Spec => []BookUncrossed
<1>1. EngineInv /\ BoundsApart => BookUncrossed
  <2> SUFFICES ASSUME EngineInv, BoundsApart, NEW b \in Resting, NEW a \in Resting,
                      side[b] = 0, side[a] = 1
               PROVE  price[b] < price[a]
    BY DEF BookUncrossed
  <2>1. price[b] <= best_bid /\ best_ask <= price[a]
    BY DEF EngineInv, BestBoundsHold
  <2>2. price[b] \in Int /\ price[a] \in Int /\ best_bid \in Int /\ best_ask \in Int
    <3>1. TypeOK
      BY ZenonT(40) DEF EngineInv
    <3>2. price[b] \in Ticks /\ price[a] \in Ticks
      BY SMTT(30), <3>1, RestingOK
    <3>3. best_bid \in Ticks /\ best_ask \in Ticks
      BY Zenon, <3>1 DEF TypeOK, BookTypeOK
    <3>4. QED
      BY Zenon, <3>2, <3>3, TicksAreIntegers
  <2>3. QED
    BY <2>1, <2>2 DEF BoundsApart
<1>2. QED
  BY <1>1, EngineInvariant, ApartInvariant, PTL

\* Only a trade takes quantity from a resting order, and only from the first order
\* of the level the loop looks at.
LEMMA OnlyTradesTake ==
  ASSUME EngineInv, [Next]_vars, NEW o \in Resting, quantity'[o] < quantity[o]
  PROVE  MatchTrade /\ o = RestingOrder(incoming)
<1>1. o \in LiveSlots /\ o \in Slots /\ quantity[o] \in Int
  <2>1. TypeOK
    BY ZenonT(40) DEF EngineInv
  <2>2. o \in LiveSlots /\ o \in Slots
    BY ZenonT(40), <2>1, RestingOK
  <2>3. QED
    BY <2>1, <2>2, OrderBookAssumption DEF TypeOK, BookTypeOK
<1>2. CASE MatchTrade
  <2>1. /\ incoming \notin Resting
        /\ \A x \in Slots : x # incoming /\ x # RestingOrder(incoming) => quantity'[x] = quantity[x]
    BY ZenonT(40), <1>2, TradeEffect
  <2>2. o # RestingOrder(incoming) => quantity'[o] = quantity[o]
    BY Zenon, <2>1, <1>1
  <2>3. o = RestingOrder(incoming)
    <3> DEFINE x == quantity[o]
               y == quantity'[o]
    <3>1. x \in Int /\ y < x BY Zenon, <1>1
    <3> HIDE DEF x, y
    <3>2. y # x BY ONLY <3>1
    <3> QED BY Zenon, <2>2, <3>2 DEF x, y
  <2>4. QED
    BY ZenonT(40), <2>3, <1>2
<1>3. ASSUME NEW l \in Limits, NEW q \in Quantities, NEW t \in Traders,
             AcceptOrder(l[1], l[2], q, t)
      PROVE  FALSE
  <2>1. PICK s \in Slots : acquire(s) /\ quantity' = [quantity EXCEPT ![s] = q]
    BY ZenonT(40), <1>3 DEF AcceptOrder
  <2>2. s # o
    BY <2>1, <1>1, AcquireOK DEF EngineInv, TypeOK, PoolInv
  <2>3. QED
    BY <2>1, <2>2, <1>1 DEF EngineInv, TypeOK, BookTypeOK
<1>4. CASE RejectOrder \/ MatchSkip \/ MatchEnd \/ ReleaseDead \/ Return
             \/ clear_execution_queue \/ UNCHANGED vars
  <2>1. quantity' = quantity
    BY Zenon, <1>4 DEF RejectOrder, MatchSkip, SkipLevel, MatchEnd, EndMatch, ReleaseDead, Return,
                clear_execution_queue, vars
  <2>2. QED
    BY <2>1, <1>1
<1>5. QED
  BY ZenonT(40), <1>2, <1>3, <1>4 DEF Next, submit_order, CallStep

\* Facts about the order that a trade takes quantity from.
LEMMA TakenFrom ==
  ASSUME InteriorLimits, EngineInv, BoundsApart, [Next]_vars,
         NEW o \in Resting, quantity'[o] < quantity[o]
  PROVE  /\ price[o] = Touch(incoming) /\ head[price[o]] = o
         /\ \/ side[incoming] = 0 /\ side[o] = 1 /\ price[o] <= price[incoming]
            \/ side[incoming] = 1 /\ side[o] = 0 /\ price[o] >= price[incoming]
<1>1. MatchTrade /\ o = RestingOrder(incoming)
  BY Zenon, OnlyTradesTake
<1>2. price[o] = Touch(incoming) /\ head[price[o]] = o
  BY Zenon, <1>1, TradeEffect
<1>3. Crosses(incoming)
  BY <1>1 DEF MatchTrade, Trade, Matching
<1>4. <<side[o], price[o]>> \in Limits
  BY RestingOK DEF EngineInv, LiveInv
<1>5. side[o] \in {0, 1}
  BY <1>4 DEF InteriorLimits
<1>6. price[o] \in Int /\ best_bid \in Int /\ best_ask \in Int
  <2>1. TypeOK
    BY DEF EngineInv
  <2>2. price[o] \in Ticks
    BY <2>1, RestingOK
  <2>3. best_bid \in Ticks /\ best_ask \in Ticks
    BY <2>1 DEF TypeOK, BookTypeOK
  <2>4. QED
    BY <2>2, <2>3, OrderBookAssumption DEF Ticks
<1>7. /\ side[o] = 0 => price[o] <= best_bid
      /\ side[o] = 1 => price[o] >= best_ask
  BY Zenon DEF EngineInv, BestBoundsHold
<1>8. CASE side[incoming] = 0
  <2>1. price[o] = best_ask /\ best_ask <= price[incoming]
    BY <1>2, <1>3, <1>8 DEF Crosses, Touch
  <2>2. side[o] = 1
    BY <2>1, <1>5, <1>6, <1>7 DEF BoundsApart
  <2>3. QED
    BY <2>1, <2>2, <1>2, <1>8
<1>9. CASE side[incoming] = 1
  <2>1. price[o] = best_bid /\ best_bid >= price[incoming]
    BY <1>2, <1>3, <1>9 DEF Crosses, Touch
  <2>2. side[o] = 0
    BY <2>1, <1>5, <1>6, <1>7 DEF BoundsApart
  <2>3. QED
    BY <2>1, <2>2, <1>2, <1>9
<1>10. QED
  BY Zenon, <1>3, <1>8, <1>9 DEF Crosses

\* Every trade is between a buy and a sell, within the taker's limit.
THEOREM TwoSidedTrades == ASSUME InteriorLimits PROVE Spec => TradesAreTwoSided
<1> DEFINE TwoSided ==
      \A o \in Resting : quantity'[o] < quantity[o] =>
         \/ side[incoming] = 0 /\ side[o] = 1 /\ price[o] <= price[incoming]
         \/ side[incoming] = 1 /\ side[o] = 0 /\ price[o] >= price[incoming]
<1>1. ASSUME EngineInv, BoundsApart, [Next]_vars
      PROVE  TwoSided
  <2>1. TAKE o \in Resting
  <2>2. HAVE quantity'[o] < quantity[o]
  <2>3. QED
    BY Zenon, <1>1, <2>1, <2>2, TakenFrom
<1>2. EngineInv /\ BoundsApart /\ [Next]_vars => [TwoSided]_vars
  <2> HIDE DEF TwoSided
  <2> QED
    BY <1>1
<1>3. QED
  BY <1>2, EngineInvariant, ApartInvariant, PTL DEF Spec, TradesAreTwoSided

\* No order has priority over the one a trade takes quantity from.
LEMMA NoPriority ==
  ASSUME InteriorLimits, EngineInv, BoundsApart, [Next]_vars, NEW o \in Resting,
         quantity'[o] < quantity[o], NEW r \in Resting, side[r] = side[o]
  PROVE  ~HasPriority(r, o)
<1>1. /\ price[o] = Touch(incoming) /\ head[price[o]] = o
      /\ \/ side[incoming] = 0 /\ side[o] = 1
         \/ side[incoming] = 1 /\ side[o] = 0
  BY TakenFrom
<1>2. /\ price[r] \in Int /\ price[o] \in Int /\ id[r] \in Int /\ id[o] \in Int
      /\ best_bid \in Int /\ best_ask \in Int
  <2>1. TypeOK
    BY DEF EngineInv
  <2>2. /\ price[r] \in Ticks /\ price[o] \in Ticks /\ id[r] \in Nat /\ id[o] \in Nat
    BY Zenon, <2>1, RestingOK
  <2>3. best_bid \in Ticks /\ best_ask \in Ticks
    BY Zenon, <2>1 DEF TypeOK, BookTypeOK
  <2>4. QED
    BY <2>2, <2>3, OrderBookAssumption DEF Ticks
<1>3. /\ side[r] = 0 => price[r] <= best_bid
      /\ side[r] = 1 => price[r] >= best_ask
  BY Zenon DEF EngineInv, BestBoundsHold
<1>4. price[r] = price[o] => id[o] <= id[r]
  BY Zenon, <1>1 DEF EngineInv, ListInv, FirstInv
<1>5. ~(price[r] = price[o] /\ id[r] < id[o])
  BY <1>2, <1>4
<1>6. CASE side[incoming] = 0 /\ side[o] = 1
  <2>1. side[r] = 1 /\ price[o] = best_ask
    BY Zenon, <1>1, <1>6 DEF Touch
  <2>2. ~(price[r] < price[o])
    BY <2>1, <1>2, <1>3
  <2>3. QED
    BY <2>2, <1>5, <1>6 DEF HasPriority
<1>7. CASE side[incoming] = 1 /\ side[o] = 0
  <2>1. side[r] = 0 /\ price[o] = best_bid
    BY <1>1, <1>7 DEF Touch
  <2>2. ~(price[r] > price[o])
    BY <2>1, <1>2, <1>3
  <2>3. QED
    BY <2>2, <1>5, <1>7 DEF HasPriority
<1>8. QED
  BY Zenon, <1>1, <1>6, <1>7

\* Price-time priority: the order a trade takes from has the best price of its side
\* and arrived first among those of that price.
THEOREM PriceTimeOrder == ASSUME InteriorLimits PROVE Spec => PriceTimePriority
<1> DEFINE Prior ==
      \A o \in Resting : quantity'[o] < quantity[o] =>
         \A r \in Resting : side[r] = side[o] => ~HasPriority(r, o)
<1>1. ASSUME EngineInv, BoundsApart, [Next]_vars
      PROVE  Prior
  BY ZenonT(40), <1>1, NoPriority
<1>2. EngineInv /\ BoundsApart /\ [Next]_vars => [Prior]_vars
  <2> HIDE DEF Prior
  <2> QED
    BY <1>1
<1>3. QED
  BY <1>2, EngineInvariant, ApartInvariant, PTL DEF Spec, PriceTimePriority
-----------------------------------------------------------------------------
(***************************************************************************)
(* The engine implements PriceTimeBook.                                    *)
(***************************************************************************)

\* The state of the abstract book.
Open == {OrderOf(o) : o \in Resting}
Taker == IF pc = "match" THEN OrderOf(incoming) ELSE NULL

\* The fields of the order a slot stands for.
LEMMA OrderFields ==
  ASSUME NEW o
  PROVE  /\ OrderOf(o).id = id[o] /\ OrderOf(o).trader = trader_id[o] /\ OrderOf(o).side = side[o]
         /\ OrderOf(o).price = price[o] /\ OrderOf(o).quantity = quantity[o]
BY ZenonT(40) DEF OrderOf

\* A live slot holds an order; no two hold the same.
LEMMA OrdersDiffer ==
  ASSUME EngineInv
  PROVE  /\ \A o \in LiveSlots : OrderOf(o) \in Orders /\ OrderOf(o) # NULL
         /\ \A o, r \in LiveSlots : OrderOf(o) = OrderOf(r) => o = r
<1>1. ASSUME NEW o \in LiveSlots PROVE OrderOf(o) \in Orders
  <2>1. o \in Slots /\ trader_id[o] \in Traders BY ZenonT(40) DEF EngineInv, LiveInv, LiveSlots
  <2> QED BY <2>1 DEF EngineInv, TypeOK, BookTypeOK, OrderOf, Orders
<1>2. ASSUME NEW o \in LiveSlots, NEW r \in LiveSlots, OrderOf(o) = OrderOf(r) PROVE o = r
  <2>1. id[o] = id[r] BY ZenonT(40), <1>2 DEF OrderOf
  <2> QED BY ZenonT(40), <2>1 DEF EngineInv, LiveInv
<1> QED BY ZenonT(40), <1>1, <1>2, EngineAssumption

\* A step that changes no resting order leaves the abstract book as it is.
LEMMA OpenKept ==
  ASSUME Resting' = Resting,
         \A o \in Resting : /\ id'[o] = id[o] /\ trader_id'[o] = trader_id[o]
                            /\ side'[o] = side[o] /\ price'[o] = price[o]
                            /\ quantity'[o] = quantity[o]
  PROVE  Open' = Open
<1>1. \A o \in Resting : OrderOf(o)' = OrderOf(o) BY ZenonT(40) DEF OrderOf
<1> QED BY ZenonT(40), <1>1 DEF Open

\* An accepted order is an arrival.
LEMMA AcceptArrives ==
  ASSUME EngineInv, NEW l \in Limits, NEW q \in Quantities, NEW t \in Traders,
         AcceptOrder(l[1], l[2], q, t)
  PROVE  PTB!Arrive(l[1], l[2], q, t)
<1>1. PICK o \in Slots :
        /\ acquire(o)
        /\ incoming' = o
        /\ id' = [id EXCEPT ![o] = next_order_id]
        /\ trader_id' = [trader_id EXCEPT ![o] = t]
        /\ price' = [price EXCEPT ![o] = l[2]]
        /\ quantity' = [quantity EXCEPT ![o] = q]
        /\ side' = [side EXCEPT ![o] = l[1]]
  BY ZenonT(40) DEF AcceptOrder
<1>2. o \notin LiveSlots /\ LiveSlots' = LiveSlots \cup {o}
  BY <1>1, AcquireOK DEF EngineInv, TypeOK, PoolInv
<1>3. /\ pc = "idle" /\ pc' = "match" /\ exec_q = <<>> /\ exec_q' = exec_q
      /\ next_order_id' = next_order_id + 1
  BY Zenon DEF AcceptOrder, CallerReady, tradeVars
<1>4. \A x \in LiveSlots : /\ x # o /\ id'[x] = id[x] /\ trader_id'[x] = trader_id[x]
                           /\ side'[x] = side[x] /\ price'[x] = price[x]
                           /\ quantity'[x] = quantity[x]
  BY ZenonT(40), <1>1, <1>2 DEF EngineInv, TypeOK, BookTypeOK, LiveSlots
<1>5. Resting' = Resting BY SMTT(30), <1>1, <1>2, <1>3, <1>4 DEF Resting
<1>6. Open' = Open BY ZenonT(40), <1>4, <1>5, OpenKept DEF Resting
<1>7. Taker = NULL BY Zenon, <1>3 DEF Taker
<1>8. Taker' = [id |-> next_order_id, trader |-> t, side |-> l[1], price |-> l[2],
                quantity |-> q]
  <2>1. /\ id'[o] = next_order_id /\ trader_id'[o] = t /\ side'[o] = l[1]
        /\ price'[o] = l[2] /\ quantity'[o] = q
    BY <1>1 DEF EngineInv, TypeOK, BookTypeOK
  <2> QED BY ZenonT(40), <1>1, <1>3, <2>1 DEF Taker, OrderOf
<1> QED BY Zenon, <1>3, <1>6, <1>7, <1>8 DEF PTB!Arrive, Open, Taker

\* A trade takes the smaller of the two quantities, and something of it.
LEMMA TradeSmaller ==
  ASSUME EngineInv, NEW o \in Slots, NEW r \in Slots, trade_quantity(o, r) > 0,
         quantity'[r] = quantity[r] - trade_quantity(o, r)
  PROVE  /\ quantity[r] \in Nat /\ quantity'[r] < quantity[r]
         /\ trade_quantity(o, r) = IF quantity[r] < quantity[o] THEN quantity[r] ELSE quantity[o]
<1> DEFINE x == quantity[r]
           y == quantity[o]
           z == quantity'[r]
           q == trade_quantity(o, r)
<1>1. x \in 0 .. U32 - 1 /\ y \in 0 .. U32 - 1
  BY Zenon DEF EngineInv, TypeOK, BookTypeOK
<1>2. U32 \in Nat BY OrderBookAssumption
<1>3. q = (IF y < x THEN y ELSE x) /\ z = x - q /\ q > 0 BY Zenon DEF trade_quantity
<1> HIDE DEF x, y, z, q
<1>4. x \in Nat /\ z < x /\ q = IF x < y THEN x ELSE y BY ONLY SMTT(30), <1>1, <1>2, <1>3
<1> QED BY Zenon, <1>4 DEF x, y, z, q

\* A trade is a fill of the first order.
LEMMA TradeFills ==
  ASSUME InteriorLimits, EngineInv, BoundsApart, MatchTrade
  PROVE  \E m \in Open : PTB!Fill(m)
<1>0. PICK o, r : o = incoming /\ r = RestingOrder(incoming) BY Zenon
<1> DEFINE q == trade_quantity(o, r)
           m == OrderOf(r)
<1>1. /\ o \in LiveSlots /\ o \notin Resting /\ o \in Slots
      /\ r \in Resting /\ r \in Slots /\ r # o
      /\ q \in Nat /\ q > 0 /\ q <= quantity[o] /\ q <= quantity[r]
      /\ quantity'[o] = quantity[o] - q
      /\ quantity'[r] = quantity[r] - q
      /\ \A x \in Slots : x # o /\ x # r => quantity'[x] = quantity[x]
      /\ Resting' = IF quantity[r] = q THEN Resting \ {r} ELSE Resting
  BY Zenon, <1>0, TradeEffect
<1>2. /\ pc = "match" /\ pc' = "match" /\ incoming' = o /\ next_order_id' = next_order_id
      /\ UNCHANGED orderVars /\ quantity[o] > 0
      /\ exec_q' = Append(exec_q, Execution(o, r, q))
  BY <1>0 DEF MatchTrade, Trade, TradeWith, Matching, callVars
<1>3. q = IF quantity[r] < quantity[o] THEN quantity[r] ELSE quantity[o]
  BY Zenon, <1>1, TradeSmaller
<1>4. quantity'[r] < quantity[r] /\ quantity[r] \in Nat
  BY Zenon, <1>1, TradeSmaller
<1>5. [Next]_vars BY ZenonT(40) DEF Next, CallStep
<1>6. \/ side[o] = 0 /\ side[r] = 1 /\ price[r] <= price[o]
      \/ side[o] = 1 /\ side[r] = 0 /\ price[r] >= price[o]
  BY Zenon, <1>0, <1>1, <1>4, <1>5, TakenFrom
<1>7. \A x \in Resting : x # r => OrderOf(x)' = OrderOf(x)
  BY Zenon, <1>1, <1>2 DEF OrderOf, orderVars, Resting, LiveSlots
<1>8. OrderOf(r)' = [m EXCEPT !.quantity = @ - q]
  BY SMTT(30), <1>1, <1>2 DEF OrderOf, orderVars
<1>9. Taker = OrderOf(o) /\ Taker # NULL BY ZenonT(40), <1>0, <1>1, <1>2, OrdersDiffer DEF Taker
<1>10. Taker' = [Taker EXCEPT !.quantity = @ - q]
  <2>1. Taker' = [id |-> id[o], trader |-> trader_id[o], side |-> side[o], price |-> price[o],
                  quantity |-> quantity[o] - q]
    <3> HIDE DEF q
    <3> QED BY Zenon, <1>1, <1>2 DEF Taker, OrderOf, orderVars
  <2>2. Taker = [id |-> id[o], trader |-> trader_id[o], side |-> side[o], price |-> price[o],
                 quantity |-> quantity[o]]
    BY ZenonT(40), <1>9 DEF OrderOf
  <2> HIDE DEF q
  <2> QED BY ONLY <2>1, <2>2
<1>11. \A x \in Resting : x # r => OrderOf(x) # m BY ZenonT(40), <1>1, OrdersDiffer DEF Resting
<1>12. Open' = IF quantity[r] = q THEN Open \ {m}
                                  ELSE (Open \ {m}) \cup {[m EXCEPT !.quantity = @ - q]}
  <2>1. Open \ {m} = {OrderOf(x) : x \in Resting \ {r}} BY <1>11 DEF Open
  <2>2. CASE quantity[r] = q
    <3>1. Open' = {OrderOf(x)' : x \in Resting \ {r}} BY ZenonT(40), <1>1, <2>2 DEF Open
    <3> QED BY ZenonT(40), <1>7, <2>1, <2>2, <3>1
  <2>3. CASE quantity[r] # q
    <3>1. Open' = {OrderOf(x)' : x \in Resting} BY <1>1, <2>3 DEF Open
    <3>2. {OrderOf(x)' : x \in Resting \ {r}} = Open \ {m} BY <1>7, <2>1
    <3>3. Open' = {OrderOf(x)' : x \in Resting \ {r}} \cup {[m EXCEPT !.quantity = @ - q]}
      <4>1. r \in Resting BY <1>1
      <4>2. Open' = {OrderOf(x)' : x \in Resting \ {r}} \cup {OrderOf(r)'} BY ONLY ZenonT(40), <3>1, <4>1
      <4> QED BY Zenon, <1>8, <4>2
    <3> QED BY ZenonT(40), <2>3, <3>2, <3>3
  <2> QED BY <2>2, <2>3
<1>13. PTB!First(m)
  <2> SUFFICES ASSUME NEW x \in Resting, side[x] = side[r], x # r
               PROVE  PTB!Before(m, OrderOf(x))
    <3>1. \A x \in Resting : OrderOf(x).side = side[x] BY Zenon, OrderFields
    <3> HIDE DEF m
    <3>2. m.side = side[r] BY Zenon, OrderFields DEF m
    <3>3. \A x \in Resting : OrderOf(x) # m => x # r BY Zenon DEF m
    <3> QED BY Zenon, <3>1, <3>2, <3>3 DEF PTB!First
  <2>1. ~HasPriority(x, r) BY Zenon, <1>1, <1>4, <1>5, NoPriority
  <2>2. /\ price[x] \in Int /\ price[r] \in Int /\ id[x] \in Int /\ id[r] \in Int
    <3>1. price[x] \in Ticks /\ price[r] \in Ticks /\ id[x] \in Nat /\ id[r] \in Nat
      BY Zenon, <1>1, RestingOK DEF EngineInv
    <3> QED BY Zenon, <3>1, TicksAreIntegers
  <2>3. id[x] # id[r] BY ZenonT(40), <1>1 DEF EngineInv, LiveInv, Resting
  <2>4. /\ m.side = side[r] /\ m.price = price[r] /\ m.id = id[r]
        /\ OrderOf(x).price = price[x] /\ OrderOf(x).id = id[x]
    BY Zenon, OrderFields
  <2> HIDE DEF m
  <2> QED BY <1>6, <2>1, <2>2, <2>3, <2>4 DEF HasPriority, PTB!Before
<1>14. PTB!Executable(m) BY ZenonT(40), <1>0, <1>2, <1>6 DEF PTB!Executable, OrderOf
<1>15. m \in Open BY <1>1 DEF Open
<1>16. PTB!Fill(m)
  <2>1. /\ m.quantity = quantity[r] /\ m.trader = trader_id[r] /\ m.price = price[r]
        /\ Taker.quantity = quantity[o] /\ Taker.trader = trader_id[o]
    BY Zenon, <1>9 DEF OrderOf
  <2>2. exec_q' = Append(exec_q, [maker_id |-> m.trader, taker_id |-> Taker.trader,
                                  price |-> m.price, quantity |-> q])
    BY Zenon, <1>2, <2>1 DEF Execution
  <2>3. q = IF m.quantity < Taker.quantity THEN m.quantity ELSE Taker.quantity
    BY Zenon, <1>3, <2>1
  <2>4. Taker.quantity > 0 BY <1>2, <2>1
  <2>5. Open' = IF m.quantity = q THEN Open \ {m}
                                  ELSE (Open \ {m}) \cup {[m EXCEPT !.quantity = @ - q]}
    BY Zenon, <1>12, <2>1
  <2> HIDE DEF m, q
  <2> QED
    BY ZenonT(40), <1>2, <1>9, <1>10, <1>13, <1>14, <2>2, <2>3, <2>4, <2>5 DEF PTB!Fill, Open, Taker
<1> QED BY <1>15, <1>16

\* The end of match_order settles the taker.
LEMMA EndSettles ==
  ASSUME InteriorLimits, EngineInv, MatchEnd
  PROVE  PTB!Settle
<1> DEFINE o == incoming
<1>1. /\ pc = "match" /\ pc' = "reclaim" /\ UNCHANGED <<orderVars, quantity>>
      /\ exec_q' = exec_q /\ next_order_id' = next_order_id /\ LiveSlots' = LiveSlots
  BY DEF MatchEnd, EndMatch, tradeVars, callVars, poolVars, LiveSlots, FreeSlots
<1>2. o \in LiveSlots /\ o \notin Resting BY <1>1 DEF EngineInv, CallInv, Resting
<1>3. \A x : x \in Resting' <=> x \in Resting \/ (x = o /\ quantity[o] > 0)
  BY ZenonT(40), <1>1, <1>2 DEF Resting
<1>4. \A x \in Slots : OrderOf(x)' = OrderOf(x) BY ZenonT(40), <1>1 DEF OrderOf, orderVars
<1>5. Taker = OrderOf(o) /\ Taker # NULL /\ Taker' = NULL
  BY <1>1, <1>2, OrdersDiffer DEF Taker
<1>6. Resting \subseteq Slots /\ o \in Slots BY <1>2 DEF Resting, LiveSlots
<1>7. Open' = IF quantity[o] > 0 THEN Open \cup {OrderOf(o)} ELSE Open
  <2>1. CASE quantity[o] > 0
    <3>1. Resting' = Resting \cup {o} BY <1>3, <2>1
    <3>2. Open' = {OrderOf(x)' : x \in Resting \cup {o}} BY <3>1 DEF Open
    <3> QED BY <1>4, <1>6, <2>1, <3>2 DEF Open
  <2>2. CASE ~(quantity[o] > 0)
    <3>1. Resting' = Resting BY <1>3, <2>2
    <3>2. Open' = {OrderOf(x)' : x \in Resting} BY Zenon, <3>1 DEF Open
    <3> QED BY <1>4, <1>6, <2>2, <3>2 DEF Open
  <2> QED BY <2>1, <2>2
<1>8. ASSUME quantity[o] > 0, NEW x \in Resting PROVE ~PTB!Executable(OrderOf(x))
  <2>1. ~Crosses(o) BY <1>8, RestCrossesNothing
  <2>2. /\ side[x] = 0 => price[x] <= best_bid
        /\ side[x] = 1 => price[x] >= best_ask
    BY Zenon DEF EngineInv, BestBoundsHold
  <2>3. /\ price[x] \in Int /\ price[o] \in Int /\ best_bid \in Int /\ best_ask \in Int
    <3>1. price[x] \in Ticks /\ price[o] \in Ticks /\ best_bid \in Ticks /\ best_ask \in Ticks
      BY ZenonT(40), <1>6 DEF EngineInv, TypeOK, BookTypeOK
    <3> QED BY Zenon, <3>1, TicksAreIntegers
  <2>4. /\ OrderOf(x).side = side[x] /\ OrderOf(x).price = price[x]
        /\ OrderOf(o).side = side[o] /\ OrderOf(o).price = price[o]
    BY Zenon, OrderFields
  <2> QED BY <1>1, <2>1, <2>2, <2>3, <2>4 DEF Crosses, PTB!Executable
<1>9. Taker.quantity = quantity[o] BY Zenon, <1>5 DEF OrderOf
<1>10. Taker.quantity > 0 => \A m \in Open : ~PTB!Executable(m) BY <1>8, <1>9 DEF Open
<1> QED BY ZenonT(40), <1>1, <1>5, <1>7, <1>9, <1>10 DEF PTB!Settle, Open, Taker

\* Releasing filled orders leaves the abstract book as it is.
LEMMA ReclaimKeeps ==
  ASSUME EngineInv, ReleaseDead \/ Return
  PROVE  Resting' = Resting /\ pc' # "match" /\ pc # "match"
<1>1. UNCHANGED <<quantity, incoming>> /\ pc = "reclaim" /\ pc' # "match"
  BY DEF ReleaseDead, Return, callVars
<1>2. PoolInv BY DEF EngineInv, TypeOK, PoolInv
<1>3. CASE ReleaseDead
  <2>1. Head(trash_q) = trash_q[1] /\ 1 \in 1 .. Len(trash_q)
    BY <1>3 DEF ReleaseDead, EngineInv, TypeOK, BookTypeOK
  <2>2. Head(trash_q) \in LiveSlots /\ quantity[Head(trash_q)] = 0
    BY <2>1 DEF EngineInv, TrashInv
  <2>3. LiveSlots' = LiveSlots \ {Head(trash_q)}
    BY <1>2, <1>3, <2>2, ReleaseOK DEF ReleaseDead
  <2> QED BY SMTT(30), <1>1, <2>2, <2>3 DEF Resting
<1>4. CASE Return
  <2>1. incoming \in LiveSlots BY <1>1 DEF EngineInv, CallInv
  <2>2. CASE quantity[incoming] = 0
    <3>1. release(incoming) BY <1>4, <2>2 DEF Return
    <3>2. LiveSlots' = LiveSlots \ {incoming} BY <1>2, <2>1, <3>1, ReleaseOK
    <3> QED BY <1>1, <2>2, <3>2 DEF Resting
  <2>3. CASE quantity[incoming] # 0
    <3>1. LiveSlots' = LiveSlots BY <1>4, <2>3 DEF Return, LiveSlots, FreeSlots, poolVars
    <3> QED BY Zenon, <1>1, <3>1 DEF Resting
  <2> QED BY <2>2, <2>3
<1> QED BY Zenon, <1>1, <1>3, <1>4

\* Every step of the engine is a step of the abstract book, or none.
LEMMA StepOfBook ==
  ASSUME InteriorLimits, EngineInv, BoundsApart, [Next]_vars
  PROVE  [PTB!Next]_(PTB!bookVars)
<1>0. ASSUME Open' = Open, Taker' = Taker, exec_q' = exec_q, next_order_id' = next_order_id
      PROVE  UNCHANGED PTB!bookVars
  BY <1>0 DEF PTB!bookVars, Open, Taker
<1>1. ASSUME NEW l \in Limits, NEW q \in Quantities, NEW t \in Traders,
             AcceptOrder(l[1], l[2], q, t)
      PROVE  PTB!Next
  BY <1>1, AcceptArrives DEF PTB!Next
<1>2. CASE MatchTrade
  BY <1>2, TradeFills DEF PTB!Next, Open
<1>3. CASE MatchEnd
  BY <1>3, EndSettles DEF PTB!Next
<1>4. CASE RejectOrder \/ MatchSkip \/ UNCHANGED vars
  <2>1. /\ UNCHANGED <<free_indices, top, orderVars, quantity, pc, callVars>>
        /\ exec_q' = exec_q
    BY <1>4 DEF RejectOrder, acquire_fails, MatchSkip, SkipLevel, vars, poolVars, tradeVars
  <2>2. Resting' = Resting BY Zenon, <2>1 DEF Resting, LiveSlots, FreeSlots, callVars
  <2>3. Open' = Open BY SMTT(30), <2>1, <2>2, OpenKept DEF orderVars
  <2>4. Taker' = Taker BY Zenon, <2>1 DEF Taker, OrderOf, orderVars, callVars
  <2> QED BY Zenon, <1>0, <2>1, <2>3, <2>4 DEF callVars
<1>5. CASE ReleaseDead \/ Return
  <2>1. UNCHANGED <<orderVars, quantity, callVars>> /\ exec_q' = exec_q
    BY Zenon, <1>5 DEF ReleaseDead, Return, tradeVars
  <2>2. Open' = Open BY <1>5, <2>1, OpenKept, ReclaimKeeps DEF orderVars
  <2>3. Taker' = Taker BY <1>5, ReclaimKeeps DEF Taker
  <2> QED BY Zenon, <1>0, <2>1, <2>2, <2>3 DEF callVars
<1>6. CASE clear_execution_queue
  <2>1. /\ UNCHANGED <<free_indices, top, orderVars, quantity, pc, callVars>>
        /\ pc = "idle" /\ exec_q # <<>> /\ exec_q' = <<>>
    BY <1>6 DEF clear_execution_queue, poolVars
  <2>2. Resting' = Resting BY Zenon, <2>1 DEF Resting, LiveSlots, FreeSlots, callVars
  <2>3. Open' = Open BY <2>1, <2>2, OpenKept DEF orderVars
  <2>4. Taker' = NULL /\ Taker = NULL BY <2>1 DEF Taker
  <2>5. PTB!Collect BY <2>1, <2>3, <2>4 DEF PTB!Collect, Open, Taker, callVars
  <2> QED BY <2>5 DEF PTB!Next
<1> QED
  BY Zenon, <1>1, <1>2, <1>3, <1>4, <1>5, <1>6 DEF Next, submit_order, CallStep

\* The engine, with its lists and lazily moved bounds, is a price-time priority book, for
\* every pool, price range and sequence of orders off the two end prices.
THEOREM EngineIsPriceTimeBook == ASSUME InteriorLimits PROVE Spec => ImplementsPriceTimeBook
<1>1. Init => PTB!Init
  <2> SUFFICES ASSUME Init PROVE PTB!Init OBVIOUS
  <2>1. LiveSlots = {} BY PoolInitOK DEF Init
  <2>2. Resting = {} BY <2>1 DEF Resting
  <2> QED BY <2>2 DEF Init, BookInit, PTB!Init
<1>2. EngineInv /\ BoundsApart /\ [Next]_vars => [PTB!Next]_(PTB!bookVars)
  BY StepOfBook
<1> QED
  BY <1>1, <1>2, EngineInvariant, ApartInvariant, PTL
  DEF Spec, ImplementsPriceTimeBook, PTB!Spec
=============================================================================
