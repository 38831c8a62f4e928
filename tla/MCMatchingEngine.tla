-------------------------- MODULE MCMatchingEngine --------------------------
(***************************************************************************)
(* Instances of MatchingEngine for TLC.                                    *)
(***************************************************************************)
EXTENDS MatchingEngine

\* Every limit the book is meant for on ticks 0 .. 3.
InnerLimits == {<<0, 0>>, <<0, 1>>, <<0, 2>>, <<1, 1>>, <<1, 2>>, <<1, 3>>}

\* Some of them, and a side that is neither buy nor sell: nothing on the way from the wire to
\* the book refuses it.  Such an order never trades as it comes in, rests without moving
\* a best price, and is traded against by whoever reaches its level.
SidedLimits == {<<0, 1>>, <<0, 2>>, <<1, 1>>, <<1, 2>>, <<1, 3>>, <<2, 1>>}

\* Every limit that has a price level.
AllLimits == {0, 1} \X (0 .. 3)
=============================================================================
