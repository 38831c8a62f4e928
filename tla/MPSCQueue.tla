----------------------------- MODULE MPSCQueue ------------------------------
(***************************************************************************)
(* The multi-producer queue of include/sequitur/concurrency/MPSCQueue.hpp. *)
(* A producer claims ticket t by moving tail_ from t to t + 1 with a CAS,  *)
(* then writes cell t and publishes it through the cell's sequence number: *)
(*   t             free for the producer that claims t                     *)
(*   t + 1         holds the item of ticket t                              *)
(*   t + Capacity  given back by the consumer, free for the next lap       *)
(* Every access to a location that two threads use is one step; head_ is   *)
(* the consumer's own.  The release stores of the sequence numbers and the *)
(* acquire loads that read them order the accesses to the data, so steps   *)
(* interleave as written.  Capacity is at least 2: with one cell the       *)
(* numbers "holds ticket t" and "free for ticket t + 1" would be the same. *)
(***************************************************************************)
EXTENDS QueueConstants, Sequences, FiniteSets

CONSTANT Producers

VARIABLES sequence, data,        \* the cells
          tail_, head_, stop_flag_,
          ppc, item, ticket,     \* per producer: its place in push, packet and t
          cpc, out,              \* the consumer's place in pop, and its copy
          pushed, popped         \* the outcomes of the last push and the last pop

cellVars == <<sequence, data>>
queueVars == <<cellVars, tail_, head_, stop_flag_>>
producerVars == <<ppc, item, ticket>>
consumerVars == <<cpc, out, popped>>
vars == <<queueVars, producerVars, pushed, consumerVars>>

Cells == 0 .. Capacity - 1

\* The cells that are not given back yet start here: pop stores head_ first.
released == IF cpc \in {"copy", "release"} THEN head_ - 1 ELSE head_

\* The tickets between the consumer and tail_ fit into the cells.
TypeOK ==
  /\ sequence \in [Cells -> Nat]
  /\ data \in [Cells -> Values \cup {None}]
  /\ tail_ \in Nat /\ head_ \in Nat
  /\ tail_ - released \in 0 .. Capacity
  /\ stop_flag_ \in BOOLEAN
  /\ ppc \in [Producers -> {"idle", "load", "look", "cas", "write", "publish"}]
  /\ item \in [Producers -> Values \cup {None}]
  /\ ticket \in [Producers -> Nat]
  /\ \A p \in Producers : ticket[p] \in 0 .. tail_
  /\ cpc \in {"idle", "copy", "release"}
  /\ out \in Values \cup {None}
  /\ pushed \in {"none", "ok", "full", "stopped"}
  /\ popped \in Values \cup {None}

Init ==
  /\ sequence = [c \in Cells |-> c]
  /\ data = [c \in Cells |-> None]
  /\ tail_ = 0 /\ head_ = 0
  /\ stop_flag_ = FALSE
  /\ ppc = [p \in Producers |-> "idle"]
  /\ item = [p \in Producers |-> None]
  /\ ticket = [p \in Producers |-> 0]
  /\ cpc = "idle" /\ out = None
  /\ pushed = "none" /\ popped = None

-----------------------------------------------------------------------------
\* The producers that are in push and have no ticket yet.
Claiming == {p \in Producers : ppc[p] \in {"load", "look", "cas"}}

\* push: the flag is loaded.
PushRefused(p) ==
  /\ ppc[p] = "idle"
  /\ stop_flag_
  /\ pushed' = "stopped"
  /\ UNCHANGED <<queueVars, producerVars, consumerVars>>

PushBegin(p, v) ==
  /\ ppc[p] = "idle"
  /\ ~stop_flag_
  /\ tail_ + Cardinality(Claiming) < MaxPush
  /\ item' = [item EXCEPT ![p] = v]
  /\ ppc' = [ppc EXCEPT ![p] = "load"]
  /\ UNCHANGED <<queueVars, ticket, pushed, consumerVars>>

\* push returns and its locals are gone.
PushReturns(p) ==
  /\ ppc' = [ppc EXCEPT ![p] = "idle"]
  /\ item' = [item EXCEPT ![p] = None]
  /\ ticket' = [ticket EXCEPT ![p] = 0]

\* t = tail_, before the loop and after a lost race (lines 48 and 70).
PushLoad(p) ==
  /\ ppc[p] = "load"
  /\ ticket' = [ticket EXCEPT ![p] = tail_]
  /\ ppc' = [ppc EXCEPT ![p] = "look"]
  /\ UNCHANGED <<queueVars, item, pushed, consumerVars>>

\* The cell's sequence number says whether the ticket is free, the queue full, or the
\* ticket taken by another producer (lines 51-55 and 64-70).
PushLook_gives_up(p) ==
  LET diff == sequence[Slot(ticket[p])] - ticket[p] IN
  /\ ppc[p] = "look"
  /\ IF diff = 0 THEN ppc' = [ppc EXCEPT ![p] = "cas"] /\ UNCHANGED <<item, ticket, pushed>>
                 ELSE pushed' = "full" /\ PushReturns(p)
  /\ UNCHANGED <<queueVars, consumerVars>>
PushLook(p) ==
  LET diff == sequence[Slot(ticket[p])] - ticket[p] IN
  /\ ppc[p] = "look"
  /\ \/ /\ diff = 0
        /\ ppc' = [ppc EXCEPT ![p] = "cas"]
        /\ UNCHANGED <<item, ticket, pushed>>
     \/ /\ diff < 0
        /\ pushed' = "full"
        /\ PushReturns(p)
     \/ /\ diff > 0
        /\ ppc' = [ppc EXCEPT ![p] = "load"]
        /\ UNCHANGED <<item, ticket, pushed>>
  /\ UNCHANGED <<queueVars, consumerVars>>

\* compare_exchange_weak: it claims the ticket, or leaves the value of tail_ in t; it
\* may also fail when the values are equal.
PushClaim_lost_update(p) ==
  /\ ppc[p] = "cas"
  /\ tail_' = ticket[p] + 1
  /\ ppc' = [ppc EXCEPT ![p] = "write"]
  /\ pushed' = "ok"
  /\ UNCHANGED <<cellVars, head_, stop_flag_, item, ticket, consumerVars>>
PushClaim(p) ==
  /\ ppc[p] = "cas"
  /\ tail_ = ticket[p]
  /\ tail_' = tail_ + 1
  /\ ppc' = [ppc EXCEPT ![p] = "write"]
  /\ pushed' = "ok"
  /\ UNCHANGED <<cellVars, head_, stop_flag_, item, ticket, consumerVars>>

PushRetry(p) ==
  /\ ppc[p] = "cas"
  /\ ticket' = [ticket EXCEPT ![p] = tail_]
  /\ ppc' = [ppc EXCEPT ![p] = "look"]
  /\ UNCHANGED <<queueVars, item, pushed, consumerVars>>

PushWrite(p) ==
  /\ ppc[p] = "write"
  /\ data' = [data EXCEPT ![Slot(ticket[p])] = item[p]]
  /\ ppc' = [ppc EXCEPT ![p] = "publish"]
  /\ UNCHANGED <<sequence, tail_, head_, stop_flag_, item, ticket, pushed, consumerVars>>

PushPublish(p) ==
  /\ ppc[p] = "publish"
  /\ sequence' = [sequence EXCEPT ![Slot(ticket[p])] = ticket[p] + 1]
  /\ PushReturns(p)
  /\ UNCHANGED <<data, tail_, head_, stop_flag_, pushed, consumerVars>>

-----------------------------------------------------------------------------
\* pop: the cell of ticket head_ is published, or nothing is returned (lines 77-86, 95).
PopBegin ==
  /\ cpc = "idle"
  /\ IF sequence[Slot(head_)] = head_ + 1
     THEN head_' = head_ + 1 /\ cpc' = "copy" /\ UNCHANGED popped
     ELSE popped' = None /\ UNCHANGED <<head_, cpc>>
  /\ UNCHANGED <<cellVars, tail_, stop_flag_, out, producerVars, pushed>>

\* The item is copied, then the cell is given back (lines 87-91).
PopCopy ==
  /\ cpc = "copy"
  /\ out' = data[Slot(head_ - 1)]
  /\ cpc' = "release"
  /\ UNCHANGED <<queueVars, popped, producerVars, pushed>>

PopRelease ==
  /\ cpc = "release"
  /\ sequence' = [sequence EXCEPT ![Slot(head_ - 1)] = head_ - 1 + Capacity]
  /\ popped' = out
  /\ out' = None
  /\ cpc' = "idle"
  /\ UNCHANGED <<data, tail_, head_, stop_flag_, producerVars, pushed>>

shutdown ==
  /\ ~stop_flag_
  /\ stop_flag_' = TRUE
  /\ UNCHANGED <<cellVars, tail_, head_, producerVars, pushed, consumerVars>>

PushGoesOn(p) ==
  PushLoad(p) \/ PushLook(p) \/ PushClaim(p) \/ PushRetry(p) \/ PushWrite(p) \/ PushPublish(p)
push(p) == PushRefused(p) \/ (\E v \in Values : PushBegin(p, v)) \/ PushGoesOn(p)
pop == PopBegin \/ PopCopy \/ PopRelease

Next == (\E p \in Producers : push(p)) \/ pop \/ shutdown

\* The consumer polls for ever, and each producer finishes a push that was begun.
Fairness == WF_vars(pop) /\ \A p \in Producers : WF_vars(PushGoesOn(p))
Spec == Init /\ [][Next]_vars /\ Fairness

-----------------------------------------------------------------------------
\* The producer owns a ticket and has not published it; the ticket is owned so.
Writing(p) == ppc[p] \in {"write", "publish"}
Pending(t) == \E p \in Producers : Writing(p) /\ ticket[p] = t

\* The plain accesses to the cells (lines 58 and 87) never meet: no two producers own
\* the same cell, and none owns the one that is being copied out, although the next
\* lap reuses the cells and head_ moves before the copy.
NoSlotRace ==
  \A p \in Producers : Writing(p) =>
    /\ cpc = "copy" => Slot(ticket[p]) # Slot(head_ - 1)
    /\ \A q \in Producers \ {p} : Writing(q) => Slot(ticket[q]) # Slot(ticket[p])

\* The queue is a bounded FIFO in the order of the tickets: a push takes effect when it
\* claims, a pop when it gives the cell back, and a push is refused only at a moment
\* when all cells are taken.  One thing differs from a FIFO, and from the comment
\* "Queue is empty": pop also returns nothing while the oldest ticket is claimed and
\* not published, whatever is published behind it.
ItemOf(t) == IF Pending(t)
             THEN item[CHOOSE p \in Producers : Writing(p) /\ ticket[p] = t]
             ELSE data[Slot(t)]
Contents == [i \in 1 .. tail_ - released |-> ItemOf(released + i - 1)]
Fifo == INSTANCE BoundedFifo WITH items <- Contents, stopped <- stop_flag_
PopUnpublished ==
  /\ Pending(released)
  /\ popped' = None
  /\ UNCHANGED <<Contents, stop_flag_, pushed>>
ImplementsFifo == Fifo!Init /\ [][Fifo!Next \/ PopUnpublished]_(Fifo!fifoVars)
=============================================================================
