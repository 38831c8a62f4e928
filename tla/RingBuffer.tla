----------------------------- MODULE RingBuffer -----------------------------
(***************************************************************************)
(* The ring of include/sequitur/concurrency/RingBuffer.hpp: one producer,  *)
(* one consumer, no cached index, and one slot always left free, because   *)
(* the full test compares masked indices.  size() may be called by either  *)
(* side or by a thread that only watches.  Every access to a location that *)
(* two threads use is one step.                                            *)
(***************************************************************************)
EXTENDS QueueConstants, Sequences

CONSTANTS MaxRejects, \* bound: pushes refused because the ring is full
          MaxBatch,   \* bound: the largest batch asked for
          Word        \* the values of size_t (2^64; any number the counters stay below)

VARIABLES buffer, tail, head, stop_flag,
          push_count, push_rejects, pop_count,
          ppc, item,          \* the producer's place in push, and its argument
          cpc, out, want,     \* the consumer's place, its item, and what its batch lacks
          caller, seen, size, \* who is in size() ("none": nobody), its t, the last result
          pushed, popped      \* the outcomes of the last push and the last pop

indexVars == <<buffer, tail, head, stop_flag>>
countVars == <<push_count, push_rejects, pop_count>>
producerVars == <<ppc, item, pushed>>
consumerVars == <<cpc, out, want, popped>>
sizeVars == <<caller, seen, size>>
vars == <<indexVars, countVars, producerVars, consumerVars, sizeVars>>

\* The indices are never more than Capacity - 1 apart.
TypeOK ==
  /\ buffer \in [0 .. Capacity - 1 -> Values \cup {None}]
  /\ tail \in Nat /\ head \in Nat
  /\ tail - head \in 0 .. Capacity - 1
  /\ stop_flag \in BOOLEAN
  /\ push_count \in Nat /\ push_rejects \in Nat /\ pop_count \in Nat
  /\ ppc \in {"idle", "test", "reject", "write", "publish", "count"}
  /\ item \in Values \cup {None}
  /\ cpc \in {"idle", "test", "read", "release", "count"}
  /\ out \in Values \cup {None}
  /\ want \in Nat
  /\ caller \in {"none", "producer", "consumer", "watcher"}
  /\ seen \in Nat /\ size \in Nat
  /\ pushed \in {"none", "ok", "full", "stopped"}
  /\ popped \in Values \cup {None}

Init ==
  /\ buffer = [i \in 0 .. Capacity - 1 |-> None]
  /\ tail = 0 /\ head = 0
  /\ stop_flag = FALSE
  /\ push_count = 0 /\ push_rejects = 0 /\ pop_count = 0
  /\ ppc = "idle" /\ item = None
  /\ cpc = "idle" /\ out = None /\ want = 0
  /\ caller = "none" /\ seen = 0 /\ size = 0
  /\ pushed = "none" /\ popped = None

-----------------------------------------------------------------------------
PushRefused ==
  /\ ppc = "idle" /\ caller # "producer"
  /\ stop_flag
  /\ pushed' = "stopped"
  /\ UNCHANGED <<indexVars, countVars, ppc, item, consumerVars, sizeVars>>

PushBegin(v) ==
  /\ ppc = "idle" /\ caller # "producer"
  /\ ~stop_flag
  /\ tail < MaxPush
  /\ push_rejects < MaxRejects
  /\ item' = v
  /\ ppc' = "test"
  /\ UNCHANGED <<indexVars, countVars, pushed, consumerVars, sizeVars>>

\* The head is loaded; the ring counts as full with one slot free (lines 30-33).
Full_whole_ring == tail - head = Capacity
Full == Slot(tail + 1) = Slot(head)

PushTest ==
  /\ ppc = "test"
  /\ IF Full THEN ppc' = "reject" /\ pushed' = "full" /\ item' = None
             ELSE ppc' = "write" /\ UNCHANGED <<pushed, item>>
  /\ UNCHANGED <<indexVars, countVars, consumerVars, sizeVars>>

PushReject ==
  /\ ppc = "reject"
  /\ push_rejects' = push_rejects + 1
  /\ ppc' = "idle"
  /\ UNCHANGED <<indexVars, push_count, pop_count, item, pushed, consumerVars, sizeVars>>

PushWrite ==
  /\ ppc = "write"
  /\ buffer' = [buffer EXCEPT ![Slot(tail)] = item]
  /\ item' = None
  /\ ppc' = "publish"
  /\ UNCHANGED <<tail, head, stop_flag, countVars, pushed, consumerVars, sizeVars>>

\* The tail is published; the item is counted later, when it may be popped already.
PushPublish ==
  /\ ppc = "publish"
  /\ tail' = tail + 1
  /\ pushed' = "ok"
  /\ ppc' = "count"
  /\ UNCHANGED <<buffer, head, stop_flag, countVars, item, consumerVars, sizeVars>>

PushCount_skipped ==
  /\ ppc = "count"
  /\ ppc' = "idle"
  /\ UNCHANGED <<indexVars, countVars, item, pushed, consumerVars, sizeVars>>
PushCount ==
  /\ ppc = "count"
  /\ push_count' = push_count + 1
  /\ ppc' = "idle"
  /\ UNCHANGED <<indexVars, push_rejects, pop_count, item, pushed, consumerVars, sizeVars>>

-----------------------------------------------------------------------------
\* pop is pop_batch with max = 1.
PopBegin(max) ==
  /\ cpc = "idle" /\ caller # "consumer"
  /\ want' = max
  /\ cpc' = "test"
  /\ UNCHANGED <<indexVars, countVars, producerVars, out, popped, sizeVars>>

\* The tail is loaded; an empty ring ends the batch (lines 46-50 and 63-64).
PopTest ==
  /\ cpc = "test"
  /\ IF head = tail THEN cpc' = "idle" /\ popped' = None
                    ELSE cpc' = "read" /\ UNCHANGED popped
  /\ UNCHANGED <<indexVars, countVars, producerVars, out, want, sizeVars>>

PopRead ==
  /\ cpc = "read"
  /\ out' = buffer[Slot(head)]
  /\ cpc' = "release"
  /\ UNCHANGED <<indexVars, countVars, producerVars, want, popped, sizeVars>>

PopRelease ==
  /\ cpc = "release"
  /\ head' = head + 1
  /\ popped' = out
  /\ out' = None
  /\ cpc' = "count"
  /\ UNCHANGED <<buffer, tail, stop_flag, countVars, producerVars, want, sizeVars>>

PopCount ==
  /\ cpc = "count"
  /\ pop_count' = pop_count + 1
  /\ want' = want - 1
  /\ cpc' = IF want = 1 THEN "idle" ELSE "test"
  /\ UNCHANGED <<indexVars, push_count, push_rejects, producerVars, out, popped, sizeVars>>

-----------------------------------------------------------------------------
\* size() loads the tail, then the head, and subtracts (lines 72-74).
SizeBegin(c) ==
  /\ caller = "none"
  /\ c = "producer" => ppc = "idle"
  /\ c = "consumer" => cpc = "idle"
  /\ caller' = c
  /\ seen' = tail
  /\ size' = 0
  /\ UNCHANGED <<indexVars, countVars, producerVars, consumerVars>>

SizeEnd ==
  /\ caller # "none"
  /\ size' = (seen - head) % Word
  /\ caller' = "none"
  /\ seen' = 0
  /\ UNCHANGED <<indexVars, countVars, producerVars, consumerVars>>

shutdown ==
  /\ ~stop_flag
  /\ stop_flag' = TRUE
  /\ UNCHANGED <<buffer, tail, head, countVars, producerVars, consumerVars, sizeVars>>

push == PushRefused \/ (\E v \in Values : PushBegin(v)) \/ PushTest \/ PushReject
        \/ PushWrite \/ PushPublish \/ PushCount
pop_batch == (\E max \in 1 .. MaxBatch : PopBegin(max))
             \/ PopTest \/ PopRead \/ PopRelease \/ PopCount
sizeCall == (\E c \in {"producer", "consumer", "watcher"} : SizeBegin(c)) \/ SizeEnd

Next == push \/ pop_batch \/ sizeCall \/ shutdown

\* The consumer polls again and again, whatever else it calls, and size() returns.
Fairness == SF_vars(pop_batch) /\ WF_vars(SizeEnd)
Spec == Init /\ [][Next]_vars /\ Fairness

-----------------------------------------------------------------------------
\* The slot that is being written is never the one that is being read (lines 38 and 52).
NoSlotRace == ~(ppc = "write" /\ cpc = "read" /\ Slot(tail) = Slot(head))

\* The ring is a bounded FIFO of Capacity - 1 items.
Contents == [i \in 1 .. tail - head |-> buffer[Slot(head + i - 1)]]
Fifo == INSTANCE BoundedFifo WITH Capacity <- Capacity - 1, items <- Contents,
                                  stopped <- stop_flag
ImplementsFifo == Fifo!Spec

\* Called by the producer or the consumer, size() is a number of items the ring can
\* hold: the other side moves its index between the two loads, but only in the
\* direction that keeps the difference in range.  A thread that is neither can see a
\* head beyond the tail it loaded, and the difference wraps.
SizeInRange ==
  [][(caller = "producer" \/ caller = "consumer") /\ caller' = "none" => size' < Capacity]_vars

\* The counters that the getters return are bumped after the index moves, so they may
\* disagree with the contents by one on each side: the pops counted exceed the pushes
\* counted by at most one.
CountsTrackOccupancy == push_count - pop_count \in -1 .. Capacity
=============================================================================
