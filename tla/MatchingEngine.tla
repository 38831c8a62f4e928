--------------------------- MODULE MatchingEngine ---------------------------
(***************************************************************************)
(* The matching engine of src/core/MatchingEngine.cpp: the pool, the book  *)
(* and submit_order, which the core thread calls for one packet after the  *)
(* other.  A call is a sequence of steps, told apart by pc:                *)
(*   "idle"     no call in progress                                        *)
(*   "match"    inside book->match_order                                   *)
(*   "reclaim"  in the loop that releases the filled orders                *)
(***************************************************************************)
EXTENDS OrderBook, FiniteSets, Functions

CONSTANTS Limits,      \* the <<side, price>> pairs that are submitted
          Quantities,  \* the quantities that are submitted
          MaxOrders,   \* bound: calls that obtain an order
          MaxRejects   \* bound: calls that find the pool exhausted

\* The orders there can be; nullptr is none of them.
Orders == [id : Nat, trader : Traders, side : 0 .. 255, price : Ticks, quantity : 0 .. U32 - 1]

ASSUME EngineAssumption == /\ NULL \notin Orders
                           /\ Limits \subseteq (0 .. 255) \X Ticks
                           /\ Quantities \subseteq 0 .. U32 - 1
                           /\ MaxOrders \in Nat
                           /\ MaxRejects \in Nat

VARIABLES pc, incoming, next_order_id, total_orders

callVars == <<incoming, next_order_id, total_orders>>
vars == <<poolVars, orderVars, quantity, bookVars, tradeVars, pc, callVars>>

TypeOK ==
  /\ PoolTypeOK
  /\ BookTypeOK
  /\ pc \in {"idle", "match", "reclaim"}
  /\ incoming \in Pointers
  /\ pc # "idle" => incoming \in Slots
  /\ next_order_id \in Nat
  /\ total_orders \in Nat

Init ==
  /\ PoolInit
  /\ BookInit
  /\ pc = "idle"
  /\ incoming = NULL
  /\ next_order_id = 1
  /\ total_orders = 0

\* The caller submits when the last call has returned and its executions have been
\* reported and cleared.
CallerReady_uncleared == pc = "idle"
CallerReady == pc = "idle" /\ exec_q = <<>>

\* Lines 8-12: no order left in the pool, the call returns false.
RejectOrder ==
  /\ CallerReady
  /\ alloc_failures < MaxRejects
  /\ acquire_fails
  /\ UNCHANGED <<orderVars, quantity, bookVars, tradeVars, pc, callVars>>

\* Lines 8-20: a value-initialised order is obtained and its fields are set.
AcceptOrder(s, p, q, t) ==
  /\ CallerReady
  /\ next_order_id <= MaxOrders
  /\ \E o \in Slots :
       /\ acquire(o)
       /\ incoming' = o
       /\ id' = [id EXCEPT ![o] = next_order_id]
       /\ trader_id' = [trader_id EXCEPT ![o] = t]
       /\ price' = [price EXCEPT ![o] = p]
       /\ quantity' = [quantity EXCEPT ![o] = q]
       /\ side' = [side EXCEPT ![o] = s]
       /\ prev_order' = [prev_order EXCEPT ![o] = NULL]
       /\ next_order' = [next_order EXCEPT ![o] = NULL]
  /\ next_order_id' = next_order_id + 1
  /\ total_orders' = total_orders + 1
  /\ pc' = "match"
  /\ UNCHANGED <<head, tail, volume, best_bid, best_ask, tradeVars>>

\* Line 22: the iterations of match_order, and its end.
MatchSkip == /\ pc = "match"
             /\ SkipLevel(incoming)
             /\ UNCHANGED <<poolVars, pc, callVars>>

MatchTrade == /\ pc = "match"
              /\ Trade(incoming)
              /\ UNCHANGED <<poolVars, pc, callVars>>

MatchEnd == /\ pc = "match"
            /\ EndMatch(incoming)
            /\ pc' = "reclaim"
            /\ UNCHANGED <<poolVars, callVars>>

\* Lines 24-27: one iteration of the loop over trash_q.
ReleaseDead ==
  /\ pc = "reclaim"
  /\ trash_q # <<>>
  /\ release(Head(trash_q))
  /\ trash_q' = Tail(trash_q)
  /\ UNCHANGED <<orderVars, quantity, bookVars, total_trades, total_volume, exec_q, pc, callVars>>

\* Lines 29-33: a filled incoming order is released, the call returns true.
Return_leaks ==
  /\ pc = "reclaim"
  /\ trash_q = <<>>
  /\ pc' = "idle"
  /\ UNCHANGED <<poolVars, orderVars, quantity, bookVars, tradeVars, callVars>>
Return ==
  /\ pc = "reclaim"
  /\ trash_q = <<>>
  /\ IF quantity[incoming] = 0 THEN release(incoming) ELSE UNCHANGED poolVars
  /\ pc' = "idle"
  /\ UNCHANGED <<orderVars, quantity, bookVars, tradeVars, callVars>>

\* The core thread has sent the reports of the call.
clear_execution_queue ==
  /\ pc = "idle"
  /\ exec_q # <<>>
  /\ exec_q' = <<>>
  /\ UNCHANGED <<poolVars, orderVars, quantity, bookVars, total_trades, total_volume,
                 trash_q, pc, callVars>>

submit_order == \/ RejectOrder
                \/ \E l \in Limits, q \in Quantities, t \in Traders :
                     AcceptOrder(l[1], l[2], q, t)

CallStep == MatchSkip \/ MatchTrade \/ MatchEnd \/ ReleaseDead \/ Return

Next == submit_order \/ CallStep \/ clear_execution_queue

\* The core thread is never descheduled for good: a call that was entered goes on.
Spec == Init /\ [][Next]_vars /\ WF_vars(CallStep)

-----------------------------------------------------------------------------
(***************************************************************************)
(* Properties.                                                             *)
(***************************************************************************)

\* The orders that belong in the book: those handed out by the pool with
\* something left, except the one that is still being matched.
Resting == {o \in LiveSlots : quantity[o] > 0 /\ ~(pc = "match" /\ o = incoming)}

\* The orders a walk along next_order finds on the level of tick p, in order.
Level(p) ==
  LET walk[n \in 0 .. PoolCapacity] ==
        IF n = 0 THEN head[p]
        ELSE IF walk[n - 1] = NULL THEN NULL ELSE next_order[walk[n - 1]]
      length == Cardinality({n \in 0 .. PoolCapacity : walk[n] # NULL})
  IN  [n \in 1 .. length |-> walk[n - 1]]

OnLevel(p) == Range(Level(p))
OnBook == UNION {OnLevel(p) : p \in Ticks}

Sum(S) == SumFunctionOnSet(quantity, S)

\* The inputs for which the book is meant: a side is buy or sell, no buy is
\* priced at MAX_PRICE_TICKS and no sell at 0, the initial values of best_ask
\* and best_bid.
InteriorLimits ==
  \A l \in Limits : \/ l[1] = 0 /\ l[2] < MaxPriceTicks
                    \/ l[1] = 1 /\ l[2] > 0

\* The book is never crossed: every resting buy is priced below every resting
\* sell, although both sides share one array of levels and best_bid and best_ask
\* are only moved lazily (OrderBook.hpp, 48-51, 77-81, 106-110).
BookUncrossed ==
  \A b, a \in Resting : side[b] = 0 /\ side[a] = 1 => price[b] < price[a]

\* The lazily moved bounds never skip an order (OrderBook.hpp, 80 and 109): no
\* buy rests above best_bid, no sell below best_ask.
BestBoundsHold ==
  \A o \in Resting : /\ side[o] = 0 => price[o] <= best_bid
                     /\ side[o] = 1 => price[o] >= best_ask

\* The intrusive lists are sound whatever was inserted and removed
\* (OrderBook.hpp, 29-70): each level, walked from head, holds exactly the
\* resting orders of that price, in order of arrival, ends at tail, and prev_order
\* is the inverse of next_order.
LevelsAreFifo ==
  \A p \in Ticks :
    LET lv == Level(p)
    IN  /\ Range(lv) = {o \in Resting : price[o] = p}
        /\ \A i \in 1 .. Len(lv) - 1 : id[lv[i]] < id[lv[i + 1]]
        /\ tail[p] = IF lv = <<>> THEN NULL ELSE lv[Len(lv)]
        /\ \A i \in 1 .. Len(lv) : prev_order[lv[i]] = IF i = 1 THEN NULL ELSE lv[i - 1]

\* The volume of a level is what its orders have left, modulo the width of its
\* counter (OrderBook.hpp, 46, 69, 96, 124).
VolumeTracksLevel == \A p \in Ticks : volume[p] = Sum(OnLevel(p)) % U32

\* No order is lost or released twice (MatchingEngine.cpp, 24-31): the free
\* stack holds no index twice, between calls exactly the orders on the book are
\* outside it, and used_count and peak_usage tell the truth.
PoolAccountsForOrders ==
  /\ \A i, j \in 0 .. top : free_indices[i] = free_indices[j] => i = j
  /\ used_count = Cardinality(LiveSlots)
  /\ used_count <= peak_usage
  /\ pc = "idle" => LiveSlots = OnBook

\* A call is about to write past a fixed queue.
Overrun == pc = "match" /\ Overruns(incoming)

\* A call overruns the fixed queues (FixedQueue.hpp, 16 does not check) only when more orders
\* are in use than a queue has slots and one: the queues start each call empty, and every
\* trade before the overrun has filled an order that is not released before the call ends.
OverrunNeedsDeepBook == Overrun => used_count > FixedCapacity + 1

\* r comes before o in price-time priority, both being on the same side.
HasPriority(r, o) ==
  \/ side[o] = 1 /\ price[r] < price[o]
  \/ side[o] = 0 /\ price[r] > price[o]
  \/ price[r] = price[o] /\ id[r] < id[o]

\* Price-time priority: whenever a resting order loses quantity, no order of its
\* side has priority over it (match_order takes the head of the best level).
PriceTimePriority ==
  [][\A o \in Resting : quantity'[o] < quantity[o] =>
        \A r \in Resting : side[r] = side[o] => ~HasPriority(r, o)]_vars

\* A trade is between a buy and a sell, at a price within the taker's limit
\* (match_order, 74-75 and 103-104).
TradesAreTwoSided ==
  [][\A o \in Resting : quantity'[o] < quantity[o] =>
        \/ side[incoming] = 0 /\ side[o] = 1 /\ price[o] <= price[incoming]
        \/ side[incoming] = 1 /\ side[o] = 0 /\ price[o] >= price[incoming]]_vars

\* Nothing is lost between the incoming order, the lists and the trades: after
\* an order has arrived, what is open only shrinks by what both parties of a
\* trade give up.
OpenQuantity == Sum(OnBook) + IF pc = "match" THEN quantity[incoming] ELSE 0
QuantityConserved ==
  [][total_orders' = total_orders =>
        OpenQuantity' + 2 * total_volume' = OpenQuantity + 2 * total_volume]_vars

\* submit_order returns, unless it overruns a fixed queue: the loop over levels and orders ends
\* for every input.
SubmitReturns == (pc # "idle") ~> (pc = "idle" \/ Overrun)

\* How many iterations of its loops a call may still make: one for each level ahead, two
\* for each order that it may fill (a trade and a release), one for each order that is
\* already filled, and the ends of match_order and of the call.
LevelsAhead == IF side[incoming] = 0 THEN MaxPriceTicks - best_ask ELSE best_bid
StepsLeft ==
  CASE pc = "idle"    -> 0
    [] pc = "match"   -> Len(trash_q) + 2 + IF quantity[incoming] > 0
                                              THEN LevelsAhead + 2 * Cardinality(Resting) ELSE 0
    [] pc = "reclaim" -> Len(trash_q) + 1

\* A call is over after MaxCallSteps iterations at the latest, whatever is on the book, and
\* every iteration brings it nearer to its end (MatchingEngine.cpp, 22-33 and OrderBook.hpp,
\* 72-131): it skips a level for good, fills an order for good, or is done.
MaxCallSteps == MaxPriceTicks + 2 * PoolCapacity
CallBounded ==
  [][StepsLeft' \in 0 .. (IF pc = "idle" THEN MaxCallSteps ELSE StepsLeft - 1)]_vars

\* The engine, seen without pool, lists and bounds, is a price-time priority
\* book: every step is one of PriceTimeBook or leaves it unchanged.
OrderOf(o) == [id |-> id[o], trader |-> trader_id[o], side |-> side[o],
               price |-> price[o], quantity |-> quantity[o]]

PTB == INSTANCE PriceTimeBook WITH
         open <- {OrderOf(o) : o \in Resting},
         taker <- IF pc = "match" THEN OrderOf(incoming) ELSE NULL,
         fills <- exec_q,
         next_id <- next_order_id,
         None <- NULL

ImplementsPriceTimeBook == PTB!Spec

-----------------------------------------------------------------------------
(***************************************************************************)
(* The inductive invariant behind the proofs of MatchingEngineProofs.      *)
(***************************************************************************)

\* The free stack is the beginning of an arrangement of all the slots: what is not on
\* it has room above it.
Arranged == \E p \in [Slots -> Slots] : /\ \A i \in 0 .. top : p[i] = free_indices[i]
                                       /\ \A o \in Slots : \E i \in Slots : p[i] = o

\* The free stack holds no index twice, and used_count counts what is not on it.
StackOK == /\ \A i, j \in 0 .. top : free_indices[i] = free_indices[j] => i = j
           /\ Arranged
           /\ used_count + top + 1 = PoolCapacity
           /\ used_count <= peak_usage

\* Every slot handed out holds an order that was submitted, with an id of its own,
\* and is on the book, being submitted, or waiting to be released.
LiveInv ==
  /\ \A o \in LiveSlots :
       /\ trader_id[o] \in Traders
       /\ <<side[o], price[o]>> \in Limits
       /\ id[o] < next_order_id
       /\ \/ quantity[o] > 0
          \/ pc # "idle" /\ o = incoming
          \/ \E i \in 1 .. Len(trash_q) : trash_q[i] = o
  /\ \A o, r \in LiveSlots : id[o] = id[r] => o = r

CallInv ==
  /\ pc = "idle" => trash_q = <<>>
  /\ pc # "idle" => incoming \in LiveSlots
  /\ pc = "match" => id[incoming] = next_order_id - 1

\* trash_q holds filled orders that were not released, each once.
TrashInv ==
  /\ \A i \in 1 .. Len(trash_q) : /\ trash_q[i] \in LiveSlots
                                  /\ quantity[trash_q[i]] = 0
                                  /\ trash_q[i] # incoming
  /\ \A i, j \in 1 .. Len(trash_q) : trash_q[i] = trash_q[j] => i = j

\* What the links say, order by order: the head of a level is the earliest resting
\* order of its price, and next_order leads to the next later one.
HeadInv == \A p \in Ticks : head[p] # NULL => /\ head[p] \in Resting
                                              /\ price[head[p]] = p
                                              /\ prev_order[head[p]] = NULL
TailInv == \A p \in Ticks : tail[p] # NULL => /\ tail[p] \in Resting
                                              /\ price[tail[p]] = p
                                              /\ next_order[tail[p]] = NULL
EmptyInv == \A p \in Ticks : (head[p] = NULL) <=> (tail[p] = NULL)
FirstInv == \A o \in Resting : head[price[o]] # NULL /\ id[head[price[o]]] <= id[o]
LinkInv == \A o \in Resting : IF next_order[o] = NULL
                                THEN tail[price[o]] = o
                                ELSE /\ next_order[o] \in Resting
                                     /\ price[next_order[o]] = price[o]
                                     /\ prev_order[next_order[o]] = o
                                     /\ id[o] < id[next_order[o]]
NextInv == \A o, r \in Resting : price[o] = price[r] /\ id[o] < id[r] =>
                                   next_order[o] # NULL /\ id[next_order[o]] <= id[r]
ListInv == HeadInv /\ TailInv /\ EmptyInv /\ FirstInv /\ LinkInv /\ NextInv

EngineInv == TypeOK /\ StackOK /\ LiveInv /\ CallInv /\ TrashInv /\ ListInv /\ BestBoundsHold

\* With InteriorLimits the two bounds never meet.
BoundsApart == best_bid < best_ask
=============================================================================
