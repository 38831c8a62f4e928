----------------------------- MODULE OrderBook ------------------------------
(***************************************************************************)
(* The limit order book of include/sequitur/core/OrderBook.hpp.  One array *)
(* of price levels serves both sides; a level is an intrusive doubly linked*)
(* list of orders that live in the pool.  best_bid and best_ask are bounds *)
(* that the matching loop tightens lazily: an emptied level stays the best *)
(* one until the next crossing order walks over it.                        *)
(*                                                                         *)
(* The fields of struct Order are functions on pool slots, the fields of   *)
(* struct PriceLevel functions on ticks.  match_order is a loop; each of   *)
(* its iterations is one operator below, with the incoming order o.        *)
(***************************************************************************)
EXTENDS ObjectPool, Sequences

CONSTANTS MaxPriceTicks,  \* MAX_PRICE_TICKS
          U32,            \* the modulus of uint32_t: 2^32 in the code
          FixedCapacity,  \* slots of the execution and of the garbage queue (10000)
          Traders

ASSUME OrderBookAssumption == /\ MaxPriceTicks \in Nat \ {0}
                              /\ U32 \in Nat \ {0}
                              /\ FixedCapacity \in Nat \ {0}

VARIABLES id, trader_id, price, quantity, side, prev_order, next_order,
          head, tail, volume, best_bid, best_ask, total_trades, total_volume,
          exec_q, trash_q

orderVars == <<id, trader_id, price, side>>
listVars == <<prev_order, next_order, head, tail>>
bookVars == <<listVars, volume, best_bid, best_ask>>
tradeVars == <<total_trades, total_volume, exec_q, trash_q>>

Ticks == 0 .. MaxPriceTicks
Pointers == Slots \cup {NULL}
Trades == [maker_id : Traders, taker_id : Traders, price : Ticks, quantity : Nat]

BookTypeOK ==
  /\ id \in [Slots -> Nat]
  /\ trader_id \in [Slots -> Traders \cup {0}]
  /\ price \in [Slots -> Ticks]
  /\ quantity \in [Slots -> 0 .. U32 - 1]
  /\ side \in [Slots -> 0 .. 255]
  /\ prev_order \in [Slots -> Pointers]
  /\ next_order \in [Slots -> Pointers]
  /\ head \in [Ticks -> Pointers]
  /\ tail \in [Ticks -> Pointers]
  /\ volume \in [Ticks -> 0 .. U32 - 1]
  /\ best_bid \in Ticks
  /\ best_ask \in Ticks
  /\ total_trades \in Nat
  /\ total_volume \in Nat
  /\ exec_q \in Seq(Trades)
  /\ trash_q \in Seq(Slots)

\* An empty book; the arena holds no order yet.
BookInit ==
  /\ id = [o \in Slots |-> 0]
  /\ trader_id = [o \in Slots |-> 0]
  /\ price = [o \in Slots |-> 0]
  /\ quantity = [o \in Slots |-> 0]
  /\ side = [o \in Slots |-> 0]
  /\ prev_order = [o \in Slots |-> NULL]
  /\ next_order = [o \in Slots |-> NULL]
  /\ head = [p \in Ticks |-> NULL]
  /\ tail = [p \in Ticks |-> NULL]
  /\ volume = [p \in Ticks |-> 0]
  /\ best_bid = 0
  /\ best_ask = MaxPriceTicks
  /\ total_trades = 0
  /\ total_volume = 0
  /\ exec_q = <<>>
  /\ trash_q = <<>>

\* The best bid and the best ask after o was inserted.
BidAfter_overwrites(o) == IF side[o] = 0 THEN price[o] ELSE best_bid
BidAfter(o) == IF side[o] = 0 /\ price[o] > best_bid THEN price[o] ELSE best_bid
AskAfter(o) == IF side[o] = 1 /\ price[o] < best_ask THEN price[o] ELSE best_ask

\* insert_order(o): o becomes the last order of its level.
insert_order(o) ==
  LET p == price[o]
      empty == head[p] = NULL
  IN  /\ head' = [head EXCEPT ![p] = IF empty THEN o ELSE @]
      /\ tail' = [tail EXCEPT ![p] = o]
      /\ prev_order' = [prev_order EXCEPT ![o] = IF empty THEN NULL ELSE tail[p]]
      /\ next_order' = [s \in Slots |-> CASE s = o -> NULL
                                          [] s # o /\ ~empty /\ s = tail[p] -> o
                                          [] OTHER -> next_order[s]]
      /\ volume' = [volume EXCEPT ![p] = (@ + quantity[o]) % U32]
      /\ best_bid' = BidAfter(o)
      /\ best_ask' = AskAfter(o)

\* The pointer updates of remove_order(o).
remove_order_keeps_tail(o) ==
  /\ head' = [head EXCEPT ![price[o]] = next_order[o]]
  /\ prev_order' = [s \in Slots |-> IF s = next_order[o] THEN NULL ELSE prev_order[s]]
  /\ UNCHANGED <<tail, next_order>>
remove_order(o) ==
  LET p == price[o]
      before == prev_order[o]
      after == next_order[o]
  IN  /\ head' = [head EXCEPT ![p] = IF before = NULL THEN after ELSE @]
      /\ tail' = [tail EXCEPT ![p] = IF after = NULL THEN before ELSE @]
      /\ next_order' = [s \in Slots |-> IF s = before THEN after ELSE next_order[s]]
      /\ prev_order' = [s \in Slots |-> IF s = after THEN before ELSE prev_order[s]]

\* The condition of the two while loops of match_order.
Crosses_strictly(o) == \/ side[o] = 0 /\ best_ask < price[o]
                       \/ side[o] = 1 /\ best_bid > price[o]
Crosses_any_price(o) == side[o] \in {0, 1}
Crosses(o) == \/ side[o] = 0 /\ best_ask <= price[o]
              \/ side[o] = 1 /\ best_bid >= price[o]
Matching(o) == quantity[o] > 0 /\ Crosses(o)

\* The level an iteration looks at, and whether it is the last one there is.
Touch(o) == IF side[o] = 0 THEN best_ask ELSE best_bid
LastLevel(o) == Touch(o) = IF side[o] = 0 THEN MaxPriceTicks ELSE 0

\* The level is empty: the bound moves one tick further.
SkipLevel_stays(o) ==
  /\ Matching(o)
  /\ head[Touch(o)] = NULL
  /\ ~LastLevel(o)
  /\ UNCHANGED <<orderVars, quantity, bookVars, tradeVars>>
SkipLevel(o) ==
  /\ Matching(o)
  /\ head[Touch(o)] = NULL
  /\ ~LastLevel(o)
  /\ best_ask' = IF side[o] = 0 THEN best_ask + 1 ELSE best_ask
  /\ best_bid' = IF side[o] = 0 THEN best_bid ELSE best_bid - 1
  /\ UNCHANGED <<orderVars, quantity, listVars, volume, tradeVars>>

\* The order the incoming order o trades with, how much, and the execution that is
\* recorded.
RestingOrder_last(o) == tail[Touch(o)]
RestingOrder(o) == head[Touch(o)]

trade_quantity_of_taker(o, r) == quantity[o]
trade_quantity_of_one(o, r) == 1
trade_quantity(o, r) == IF quantity[o] < quantity[r] THEN quantity[o] ELSE quantity[r]

Execution_swapped(o, r, q) == [maker_id |-> trader_id[o], taker_id |-> trader_id[r],
                               price |-> price[r], quantity |-> q]
Execution(o, r, q) == [maker_id |-> trader_id[r], taker_id |-> trader_id[o],
                       price |-> price[r], quantity |-> q]

\* The volumes after q was traded.  remove_order's own subtraction (line 69)
\* takes off the 0 that is left of a filled order.
VolumeAfter_wrong_level(o, q) == [volume EXCEPT ![price[o]] = (@ - q) % U32]
VolumeAfter(o, q) == [volume EXCEPT ![Touch(o)] = (@ - q) % U32]

\* The incoming order o trades q with the resting order r, which leaves the book
\* when nothing is left of it.
TradeWith(o, r, q) ==
  /\ total_trades' = total_trades + 1
  /\ total_volume' = total_volume + q
  /\ exec_q' = Append(exec_q, Execution(o, r, q))
  /\ quantity' = [quantity EXCEPT ![o] = @ - q, ![r] = @ - q]
  /\ volume' = VolumeAfter(o, q)
  /\ IF quantity[r] = q THEN trash_q' = Append(trash_q, r) /\ remove_order(r)
                        ELSE UNCHANGED <<trash_q, listVars>>
  /\ UNCHANGED <<orderVars, best_bid, best_ask>>

\* The trade would push past the end of a fixed queue.  push does not check, and what the
\* program does after that write is not defined: the model stops before it.
Overruns(o) ==
  /\ Matching(o)
  /\ RestingOrder(o) # NULL
  /\ \/ Len(exec_q) >= FixedCapacity
     \/ /\ quantity[RestingOrder(o)] = trade_quantity(o, RestingOrder(o))
        /\ Len(trash_q) >= FixedCapacity

Trade(o) ==
  /\ Matching(o)
  /\ RestingOrder(o) # NULL
  /\ ~Overruns(o)
  /\ TradeWith(o, RestingOrder(o), trade_quantity(o, RestingOrder(o)))

\* The loop ends, by its condition or by the break; what is left of o rests.
EndMatch_drops_rest(o) ==
  /\ Matching(o) => head[Touch(o)] = NULL /\ LastLevel(o)
  /\ UNCHANGED <<orderVars, quantity, bookVars, tradeVars>>
EndMatch(o) ==
  /\ Matching(o) => head[Touch(o)] = NULL /\ LastLevel(o)
  /\ IF quantity[o] > 0 THEN insert_order(o) ELSE UNCHANGED bookVars
  /\ UNCHANGED <<orderVars, quantity, tradeVars>>
=============================================================================
