--------------------------- MODULE PriceTimeBook ----------------------------
(***************************************************************************)
(* What a price-time priority limit order book promises, without pool,     *)
(* price levels, linked lists or best-price bounds: a set of open orders,  *)
(* and at most one taker that is being matched against them.  The README   *)
(* of the repository calls the engine "a pure Price-Time Priority limit    *)
(* order book"; MatchingEngine is shown to implement this module.          *)
(***************************************************************************)
EXTENDS Integers, Sequences

CONSTANTS Limits, Quantities, Traders, None

VARIABLES open,     \* the resting orders, each with what is left of it
          taker,    \* the order being matched, or None
          fills,    \* the trades not yet reported
          next_id   \* the arrival number of the next order

bookVars == <<open, taker, fills, next_id>>

Init ==
  /\ open = {}
  /\ taker = None
  /\ fills = <<>>
  /\ next_id = 1

\* m can be executed against the taker at m's price.
Executable(m) ==
  \/ taker.side = 0 /\ m.side = 1 /\ m.price <= taker.price
  \/ taker.side = 1 /\ m.side = 0 /\ m.price >= taker.price

\* m has a better price than n for whoever trades with them, or the same price
\* and an earlier arrival.
Before(m, n) ==
  \/ m.side = 1 /\ m.price < n.price
  \/ m.side = 0 /\ m.price > n.price
  \/ m.price = n.price /\ m.id < n.id

\* The one order that has priority over all others of its side.
First(m) == \A n \in open : n.side = m.side /\ n # m => Before(m, n)

\* An order arrives; it has the next arrival number.
Arrive(s, p, q, t) ==
  /\ taker = None
  /\ fills = <<>>
  /\ taker' = [id |-> next_id, trader |-> t, side |-> s, price |-> p, quantity |-> q]
  /\ next_id' = next_id + 1
  /\ UNCHANGED <<open, fills>>

\* The taker trades with the first order of the other side, as much as both allow.
Fill(m) ==
  LET q == IF m.quantity < taker.quantity THEN m.quantity ELSE taker.quantity
  IN  /\ taker # None
      /\ taker.quantity > 0
      /\ Executable(m)
      /\ First(m)
      /\ fills' = Append(fills, [maker_id |-> m.trader, taker_id |-> taker.trader,
                                 price |-> m.price, quantity |-> q])
      /\ taker' = [taker EXCEPT !.quantity = @ - q]
      /\ open' = IF m.quantity = q
                   THEN open \ {m}
                   ELSE (open \ {m}) \cup {[m EXCEPT !.quantity = @ - q]}
      /\ UNCHANGED next_id

\* The taker is filled, or nothing is left that it can trade with: what is left
\* of it rests.
Settle ==
  /\ taker # None
  /\ taker.quantity > 0 => \A m \in open : ~Executable(m)
  /\ open' = IF taker.quantity > 0 THEN open \cup {taker} ELSE open
  /\ taker' = None
  /\ UNCHANGED <<fills, next_id>>

\* The fills are handed over.
Collect ==
  /\ taker = None
  /\ fills # <<>>
  /\ fills' = <<>>
  /\ UNCHANGED <<open, taker, next_id>>

Next == \/ \E l \in Limits, q \in Quantities, t \in Traders : Arrive(l[1], l[2], q, t)
        \/ \E m \in open : Fill(m)
        \/ Settle
        \/ Collect

Spec == Init /\ [][Next]_bookVars
=============================================================================
