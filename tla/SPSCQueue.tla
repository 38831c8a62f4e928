----------------------------- MODULE SPSCQueue ------------------------------
(***************************************************************************)
(* The single-producer single-consumer queue of                            *)
(* include/sequitur/concurrency/SPSCQueue.hpp, which carries execution     *)
(* reports from the core thread to the publisher and snapshots from the    *)
(* core thread to the metrics worker.  Every access to a location that     *)
(* both threads use is one step; each thread's own locations (tail_ and    *)
(* cached_head_ in the producer, head_ in the consumer) are read together  *)
(* with it.  The release store of an index and the acquire load that reads *)
(* it order the accesses to the slots, so steps interleave as written.     *)
(* tail_ and head_ are 64-bit counters that do not wrap in practice.       *)
(***************************************************************************)
EXTENDS QueueConstants, Sequences

VARIABLES buffer_, tail_, head_, cached_head_, stop_flag_,
          ppc, item,    \* the producer's place in push, and its argument
          cpc, out,     \* the consumer's place in pop, and its out-parameter
          pushed, popped \* the outcomes of the last push and the last pop

queueVars == <<buffer_, tail_, head_, cached_head_, stop_flag_>>
producerVars == <<ppc, item, pushed>>
consumerVars == <<cpc, out, popped>>
vars == <<queueVars, producerVars, consumerVars>>

\* The unsigned differences of the code never wrap below 0 and never exceed the
\* capacity, with the stale head as with the real one.
TypeOK ==
  /\ buffer_ \in [0 .. Capacity - 1 -> Values \cup {None}]
  /\ tail_ \in Nat
  /\ head_ \in Nat
  /\ cached_head_ \in Nat
  /\ tail_ - cached_head_ \in 0 .. Capacity
  /\ tail_ - head_ \in 0 .. Capacity
  /\ stop_flag_ \in BOOLEAN
  /\ ppc \in {"idle", "reload", "write", "publish"}
  /\ item \in Values \cup {None}
  /\ cpc \in {"idle", "read", "release"}
  /\ out \in Values \cup {None}
  /\ pushed \in {"none", "ok", "full", "stopped"}
  /\ popped \in Values \cup {None}

Init ==
  /\ buffer_ = [i \in 0 .. Capacity - 1 |-> None]
  /\ tail_ = 0
  /\ head_ = 0
  /\ cached_head_ = 0
  /\ stop_flag_ = FALSE
  /\ ppc = "idle"
  /\ item = None
  /\ cpc = "idle"
  /\ out = None
  /\ pushed = "none"
  /\ popped = None

\* Whether the slots between h and tail_ are all taken.
NoRoom_off_by_one(h) == tail_ - h > Capacity
NoRoom(h) == tail_ - h >= Capacity

\* push(v): the flag is loaded, then the test against the cached head (line 55).
PushRefused ==
  /\ ppc = "idle"
  /\ stop_flag_
  /\ pushed' = "stopped"
  /\ UNCHANGED <<queueVars, ppc, item, consumerVars>>

PushBegin(v) ==
  /\ ppc = "idle"
  /\ tail_ < MaxPush
  /\ ~stop_flag_
  /\ item' = v
  /\ ppc' = IF NoRoom(cached_head_) THEN "reload" ELSE "write"
  /\ UNCHANGED <<queueVars, pushed, consumerVars>>

\* The real head is loaded and the test repeated (lines 56-60).
PushReload_trusting ==
  /\ ppc = "reload"
  /\ cached_head_' = head_
  /\ ppc' = "write"
  /\ UNCHANGED <<buffer_, tail_, head_, stop_flag_, item, pushed, consumerVars>>
PushReload_giving_up ==
  /\ ppc = "reload"
  /\ pushed' = "full"
  /\ ppc' = "idle"
  /\ UNCHANGED <<queueVars, item, consumerVars>>
PushReload ==
  /\ ppc = "reload"
  /\ cached_head_' = head_
  /\ IF NoRoom(head_) THEN ppc' = "idle" /\ pushed' = "full"
                      ELSE ppc' = "write" /\ UNCHANGED pushed
  /\ UNCHANGED <<buffer_, tail_, head_, stop_flag_, item, consumerVars>>

\* The slot is written, then published (lines 63-65).
PushWrite ==
  /\ ppc = "write"
  /\ buffer_' = [buffer_ EXCEPT ![Slot(tail_)] = item]
  /\ ppc' = "publish"
  /\ UNCHANGED <<tail_, head_, cached_head_, stop_flag_, item, pushed, consumerVars>>

PushPublish ==
  /\ ppc = "publish"
  /\ tail_' = tail_ + 1
  /\ pushed' = "ok"
  /\ ppc' = "idle"
  /\ UNCHANGED <<buffer_, head_, cached_head_, stop_flag_, item, consumerVars>>

\* pop: the tail is loaded and compared (lines 71-77).
PopBegin_leaves_last ==
  /\ cpc = "idle"
  /\ IF tail_ - head_ <= 1 THEN popped' = None /\ UNCHANGED cpc
                           ELSE cpc' = "read" /\ UNCHANGED popped
  /\ UNCHANGED <<queueVars, out, producerVars>>
PopBegin ==
  /\ cpc = "idle"
  /\ IF head_ = tail_ THEN popped' = None /\ UNCHANGED cpc
                      ELSE cpc' = "read" /\ UNCHANGED popped
  /\ UNCHANGED <<queueVars, out, producerVars>>

\* The slot is copied out, then given back (lines 79-80).
PopRead ==
  /\ cpc = "read"
  /\ out' = buffer_[Slot(head_)]
  /\ cpc' = "release"
  /\ UNCHANGED <<queueVars, popped, producerVars>>

PopRelease ==
  /\ cpc = "release"
  /\ head_' = head_ + 1
  /\ popped' = out
  /\ cpc' = "idle"
  /\ UNCHANGED <<buffer_, tail_, cached_head_, stop_flag_, out, producerVars>>

\* shutdown, from any thread.
shutdown ==
  /\ ~stop_flag_
  /\ stop_flag_' = TRUE
  /\ UNCHANGED <<buffer_, tail_, head_, cached_head_, producerVars, consumerVars>>

push == PushRefused \/ (\E v \in Values : PushBegin(v)) \/ PushReload \/ PushWrite \/ PushPublish
pop == PopBegin \/ PopRead \/ PopRelease

Next == push \/ pop \/ shutdown

\* The consumer polls for ever; a push that was begun goes on.
Spec == /\ Init
        /\ [][Next]_vars
        /\ WF_vars(pop)
        /\ WF_vars(PushReload \/ PushWrite \/ PushPublish)

-----------------------------------------------------------------------------
\* The slot that is being written is never the one that is being read
\* (lines 63 and 79 are plain accesses): the stale cached_head_ errs on the safe
\* side, and the release store of head_ comes after the read.
NoSlotRace == ~(ppc = "write" /\ cpc = "read" /\ Slot(tail_) = Slot(head_))

\* The queue is a bounded FIFO of Capacity items: the whole ring is usable, a push
\* fails only at a moment when it is full, a pop only when it is empty, and what is
\* popped is the oldest item.
Contents == [i \in 1 .. tail_ - head_ |-> buffer_[Slot(head_ + i - 1)]]
Fifo == INSTANCE BoundedFifo WITH items <- Contents, stopped <- stop_flag_
ImplementsFifo == Fifo!Spec
=============================================================================
