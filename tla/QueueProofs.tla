---------------------------- MODULE QueueProofs -----------------------------
(***************************************************************************)
(* Proofs about the queues as MCQueues composes them: RingBuffer here, for *)
(* every capacity and every set of values, the two others in               *)
(* ItemQueueProofs, and then all three together.                           *)
(***************************************************************************)
EXTENDS MCQueues, TLAPS

(***************************************************************************)
(* RingBuffer                                                              *)
(***************************************************************************)
\* An index has its slot in the ring.
LEMMA SlotRange == ASSUME NEW i \in Nat PROVE Ring!Slot(i) \in 0 .. Capacity - 1
BY QueueAssumption DEF Ring!Slot

\* Indices at most a lap apart share a slot only when they are equal or exactly a lap apart.
LEMMA SlotOfLaps ==
  ASSUME NEW i \in Nat, NEW j \in Nat, i <= j, j - i <= Capacity
  PROVE  Ring!Slot(i) = Ring!Slot(j) <=> i = j \/ j = i + Capacity
<1>1. Capacity \in Nat \ {0} BY QueueAssumption
<1>2. ASSUME NEW n \in Nat PROVE \E a \in Int : n = Capacity * a + Ring!Slot(n)
  <2>1. n \div Capacity \in Int /\ n = Capacity * (n \div Capacity) + Ring!Slot(n)
    BY <1>1 DEF Ring!Slot
  <2> QED BY Zenon, <2>1
<1> PICK a \in Int : i = Capacity * a + Ring!Slot(i) BY <1>2
<1> PICK b \in Int : j = Capacity * b + Ring!Slot(j) BY <1>2
<1> DEFINE d == b - a
           e == Capacity * d
<1>3. d \in Int /\ e = Capacity * b - Capacity * a BY <1>1
<1> HIDE DEF d
<1>4. \/ d <= -1 /\ e <= -Capacity
      \/ d = 0 /\ e = 0
      \/ d = 1 /\ e = Capacity
      \/ d >= 2 /\ e >= Capacity + Capacity
  <2>1. CASE d <= -1 BY <1>1, <1>3, <2>1
  <2>2. CASE d = 0 BY <1>1, <2>2
  <2>3. CASE d = 1 BY <1>1, <2>3
  <2>4. CASE d >= 2 BY <1>1, <1>3, <2>4
  <2> QED BY <1>3, <2>1, <2>2, <2>3, <2>4
<1>5. Ring!Slot(i) \in 0 .. Capacity - 1 /\ Ring!Slot(j) \in 0 .. Capacity - 1 BY SlotRange
<1> DEFINE x == Capacity * a
           y == Capacity * b
<1>6. x \in Int /\ y \in Int /\ e = y - x /\ i = x + Ring!Slot(i) /\ j = y + Ring!Slot(j)
  BY <1>1, <1>3
<1> HIDE DEF e, x, y
<1> QED BY <1>1, <1>4, <1>5, <1>6

\* The indices of a window of Capacity have different slots.
LEMMA WindowDistinct ==
  ASSUME NEW r \in Nat, NEW i \in Nat, NEW j \in Nat, i # j,
         r <= i, i < r + Capacity, r <= j, j < r + Capacity
  PROVE  Ring!Slot(i) # Ring!Slot(j)
<1>1. Capacity \in Nat \ {0} BY QueueAssumption
<1>2. \/ i <= j /\ j - i <= Capacity /\ j # i + Capacity
      \/ j <= i /\ i - j <= Capacity /\ i # j + Capacity
  BY <1>1
<1> QED BY Zenon, <1>2, SlotOfLaps

\* An index has the same slot one lap later.
LEMMA SlotNextLap == ASSUME NEW i \in Nat PROVE Ring!Slot(i + Capacity) = Ring!Slot(i)
<1>1. i + Capacity \in Nat /\ i <= i + Capacity /\ (i + Capacity) - i <= Capacity
  BY QueueAssumption
<1> QED BY <1>1, SlotOfLaps

\* A sequence is the function of its elements.
LEMMA SameSequence ==
  ASSUME NEW V, NEW s \in Seq(V), NEW n, Len(s) = n,
         NEW f, f = [i \in 1 .. n |-> f[i]],
         \A i \in 1 .. n : s[i] = f[i]
  PROVE  f = s
OBVIOUS

\* A ring is smaller than the range of size_t, and batches are asked for in numbers.
Sizes == Word \in Nat /\ Capacity < Word /\ MaxBatch \in Nat

\* What makes the ring safe: one slot is free when the producer writes, an item is there
\* when the consumer reads, and every slot between the indices holds an item.
SlotsInv ==
  /\ r_ppc \in {"test", "write"} => r_item \in Values
  /\ r_ppc \in {"write", "publish"} => r_tail - r_head < Capacity - 1
  /\ r_ppc = "publish" => r_buffer[Ring!Slot(r_tail)] \in Values
  /\ r_cpc \in {"read", "release"} => r_head < r_tail
  /\ r_cpc = "release" => r_out = r_buffer[Ring!Slot(r_head)]
  /\ \A i \in Nat : r_head <= i /\ i < r_tail => r_buffer[Ring!Slot(i)] \in Values

\* The counters lag the indices by the item that is about to be counted.
CountsInv ==
  /\ r_push_count = IF r_ppc = "count" THEN r_tail - 1 ELSE r_tail
  /\ r_pop_count = IF r_cpc = "count" THEN r_head - 1 ELSE r_head
  /\ r_cpc # "idle" => r_want >= 1

\* What size() has loaded: the caller's own index does not move meanwhile.
SizeInv ==
  /\ r_caller = "producer" => r_ppc = "idle" /\ r_seen = r_tail
  /\ r_caller = "consumer" => r_cpc = "idle" /\ r_head <= r_seen /\ r_seen <= r_tail

\* The inductive invariant.
RingInv == Sizes /\ Ring!TypeOK /\ SlotsInv /\ CountsInv /\ SizeInv

\* The numbers the steps below compute with.
LEMMA Numbers ==
  ASSUME RingInv
  PROVE  /\ Capacity \in Nat \ {0} /\ Word \in Nat /\ Capacity < Word /\ MaxBatch \in Nat
         /\ r_tail \in Nat /\ r_head \in Nat /\ r_head <= r_tail /\ r_tail < r_head + Capacity
         /\ r_tail - r_head \in Nat
         /\ Ring!Slot(r_tail) \in 0 .. Capacity - 1 /\ Ring!Slot(r_head) \in 0 .. Capacity - 1
         /\ r_push_count \in Nat /\ r_push_rejects \in Nat /\ r_pop_count \in Nat
         /\ r_seen \in Nat /\ r_size \in Nat /\ r_want \in Nat
BY QueueAssumption, SlotRange DEF RingInv, Sizes, Ring!TypeOK

\* A number below Word is its own remainder.
LEMMA NoWrap == ASSUME RingInv, NEW n \in Nat, n < Word PROVE n % Word = n
<1>1. Word \in Nat \ {0} BY Numbers
<1> QED BY <1>1

\* The ring counts as full exactly when Capacity - 1 items are queued.
LEMMA FullTest == ASSUME RingInv PROVE Ring!Full <=> r_tail - r_head = Capacity - 1
<1>1. CASE r_tail - r_head = Capacity - 1
  <2>1. r_tail + 1 = r_head + Capacity BY <1>1, Numbers
  <2>2. Ring!Slot(r_tail + 1) = Ring!Slot(r_head) BY <2>1, Numbers, SlotNextLap
  <2> QED BY <1>1, <2>2 DEF Ring!Full
<1>2. CASE r_tail - r_head # Capacity - 1
  <2>1. /\ r_tail + 1 \in Nat /\ r_tail + 1 # r_head
        /\ r_head <= r_tail + 1 /\ r_tail + 1 < r_head + Capacity
        /\ r_head < r_head + Capacity
    BY <1>2, Numbers
  <2>2. Ring!Slot(r_tail + 1) # Ring!Slot(r_head) BY <2>1, Numbers, WindowDistinct
  <2> QED BY <1>2, <2>2 DEF Ring!Full
<1> QED BY <1>1, <1>2

\* The invariant holds of the ring as constructed.
LEMMA RingInvInit == Sizes /\ Ring!Init => RingInv
<1> SUFFICES ASSUME Sizes, Ring!Init PROVE RingInv OBVIOUS
<1>1. Capacity \in Nat \ {0} BY QueueAssumption
<1>2. r_stop \in BOOLEAN BY Zenon DEF Ring!Init
<1>3. r_tail - r_head \in 0 .. Capacity - 1 BY <1>1 DEF Ring!Init
<1>4. Ring!TypeOK BY <1>2, <1>3 DEF Ring!Init, Ring!TypeOK
<1>5. SlotsInv BY DEF Ring!Init, SlotsInv
<1>6. CountsInv /\ SizeInv BY DEF Ring!Init, CountsInv, SizeInv
<1> QED BY <1>4, <1>5, <1>6 DEF RingInv

\* A step that leaves the indices and the slots alone keeps what is known of them, if it
\* enters no step of push or pop that needs more.
LEMMA SlotsFrame ==
  ASSUME RingInv, UNCHANGED <<r_buffer, r_tail, r_head>>,
         (r_ppc' = r_ppc /\ r_item' = r_item) \/ r_ppc' \in {"idle", "reject", "count"},
         (r_cpc' = r_cpc /\ r_out' = r_out) \/ r_cpc' \in {"idle", "test", "count"}
  PROVE  SlotsInv'
BY DEF RingInv, SlotsInv, Ring!Slot

\* Every step of push keeps the invariant.
LEMMA PushKeepsInv == ASSUME RingInv, Ring!push PROVE RingInv'
<1>0. /\ r_buffer \in [0 .. Capacity - 1 -> Values \cup {None}]
      /\ r_item \in Values \cup {None} /\ None \in Values \cup {None}
  BY DEF RingInv, Ring!TypeOK
<1>1. CASE Ring!PushRefused
  BY <1>1, SlotsFrame DEF Ring!PushRefused, RingInv, Sizes, Ring!TypeOK, CountsInv, SizeInv,
     Ring!indexVars, Ring!countVars, Ring!consumerVars, Ring!sizeVars
<1>2. CASE \E v \in Values : Ring!PushBegin(v)
  <2> PICK v \in Values : Ring!PushBegin(v) BY <1>2
  <2> QED BY DEF Ring!PushBegin, RingInv, Sizes, Ring!TypeOK, SlotsInv, CountsInv, SizeInv,
             Ring!Slot, Ring!indexVars, Ring!countVars, Ring!consumerVars, Ring!sizeVars
<1>3. CASE Ring!PushTest
  <2>1. r_ppc = "test" /\ r_item \in Values /\ r_caller # "producer"
    BY <1>3 DEF Ring!PushTest, RingInv, SlotsInv, SizeInv
  <2>2. CASE Ring!Full
    <3>1. /\ r_ppc' = "reject" /\ r_pushed' = "full" /\ r_item' = None
          /\ UNCHANGED <<r_buffer, r_tail, r_head, r_stop, r_push_count, r_push_rejects,
                         r_pop_count, r_cpc, r_out, r_want, r_popped, r_caller, r_seen,
                         r_size>>
      BY <1>3, <2>2 DEF Ring!PushTest, Ring!indexVars, Ring!countVars, Ring!consumerVars,
         Ring!sizeVars
    <3>2. Ring!TypeOK' BY <1>0, <3>1 DEF RingInv, Ring!TypeOK
    <3> QED BY <2>1, <3>1, <3>2, SlotsFrame DEF RingInv, Sizes, CountsInv, SizeInv
  <2>3. CASE ~Ring!Full
    <3>1. /\ r_ppc' = "write"
          /\ UNCHANGED <<r_buffer, r_tail, r_head, r_stop, r_push_count, r_push_rejects,
                         r_pop_count, r_cpc, r_out, r_want, r_popped, r_caller, r_seen,
                         r_size, r_pushed, r_item>>
      BY <1>3, <2>3 DEF Ring!PushTest, Ring!indexVars, Ring!countVars, Ring!consumerVars,
         Ring!sizeVars
    <3>2. r_tail - r_head < Capacity - 1 BY <2>3, FullTest, Numbers
    <3>3. Ring!TypeOK' BY <3>1 DEF RingInv, Ring!TypeOK
    <3>4. SlotsInv' BY <2>1, <3>1, <3>2 DEF RingInv, SlotsInv, Ring!Slot
    <3> QED BY <2>1, <3>1, <3>3, <3>4 DEF RingInv, Sizes, CountsInv, SizeInv
  <2> QED BY <2>2, <2>3
<1>4. CASE Ring!PushReject
  <2>1. /\ r_ppc = "reject" /\ r_ppc' = "idle" /\ r_push_rejects' = r_push_rejects + 1
        /\ UNCHANGED <<r_buffer, r_tail, r_head, r_stop, r_push_count, r_pop_count, r_item,
                       r_pushed, r_cpc, r_out, r_want, r_popped, r_caller, r_seen, r_size>>
    BY <1>4 DEF Ring!PushReject, Ring!indexVars, Ring!consumerVars, Ring!sizeVars
  <2>2. Ring!TypeOK' BY <2>1, Numbers DEF RingInv, Ring!TypeOK
  <2> QED BY <2>1, <2>2, SlotsFrame DEF RingInv, Sizes, CountsInv, SizeInv
<1>5. CASE Ring!PushWrite
  <2>1. /\ r_ppc = "write" /\ r_ppc' = "publish" /\ r_item' = None /\ r_item \in Values
        /\ r_buffer' = [r_buffer EXCEPT ![Ring!Slot(r_tail)] = r_item]
        /\ r_tail - r_head < Capacity - 1
        /\ UNCHANGED <<r_tail, r_head, r_stop, r_push_count, r_push_rejects, r_pop_count,
                       r_pushed, r_cpc, r_out, r_want, r_popped, r_caller, r_seen, r_size>>
    BY <1>5 DEF Ring!PushWrite, RingInv, SlotsInv, Ring!countVars, Ring!consumerVars,
       Ring!sizeVars
  <2>2. r_buffer'[Ring!Slot(r_tail)] = r_item BY <1>0, <2>1, Numbers
  <2>3. \A i \in Nat : r_head <= i /\ i < r_tail
                         => r_buffer'[Ring!Slot(i)] = r_buffer[Ring!Slot(i)]
    <3> SUFFICES ASSUME NEW i \in Nat, r_head <= i, i < r_tail
                 PROVE  r_buffer'[Ring!Slot(i)] = r_buffer[Ring!Slot(i)]
      OBVIOUS
    <3>1. i # r_tail /\ i < r_head + Capacity BY Numbers
    <3>2. Ring!Slot(i) # Ring!Slot(r_tail) BY <3>1, Numbers, WindowDistinct
    <3> QED BY <3>2, <1>0, <2>1, SlotRange
  <2>4. Ring!TypeOK'
    <3>1. r_buffer' \in [0 .. Capacity - 1 -> Values \cup {None}] BY Zenon, <1>0, <2>1
    <3> QED BY <1>0, <2>1, <3>1 DEF RingInv, Ring!TypeOK
  <2>5. SlotsInv' BY <2>1, <2>2, <2>3, Numbers DEF RingInv, SlotsInv, Ring!Slot
  <2> QED BY Zenon, <2>1, <2>4, <2>5 DEF RingInv, Sizes, CountsInv, SizeInv
<1>6. CASE Ring!PushPublish
  <2>1. /\ r_ppc = "publish" /\ r_ppc' = "count" /\ r_pushed' = "ok" /\ r_tail' = r_tail + 1
        /\ r_tail - r_head < Capacity - 1 /\ r_buffer[Ring!Slot(r_tail)] \in Values
        /\ UNCHANGED <<r_buffer, r_head, r_stop, r_push_count, r_push_rejects, r_pop_count,
                       r_item, r_cpc, r_out, r_want, r_popped, r_caller, r_seen, r_size>>
    BY <1>6 DEF Ring!PushPublish, RingInv, SlotsInv, Ring!countVars, Ring!consumerVars,
       Ring!sizeVars
  <2>2. Ring!TypeOK' BY <2>1, Numbers DEF RingInv, Ring!TypeOK
  <2>3. \A i \in Nat : r_head <= i /\ i < r_tail + 1 => r_buffer[Ring!Slot(i)] \in Values
    <3> SUFFICES ASSUME NEW i \in Nat, r_head <= i, i < r_tail + 1
                 PROVE  r_buffer[Ring!Slot(i)] \in Values
      OBVIOUS
    <3>1. i = r_tail \/ i < r_tail BY Numbers
    <3> QED BY <2>1, <3>1 DEF RingInv, SlotsInv
  <2>4. SlotsInv' BY <2>1, <2>3, Numbers DEF RingInv, SlotsInv, Ring!Slot
  <2>5. CountsInv' BY <2>1, Numbers DEF RingInv, CountsInv
  <2>6. SizeInv' BY <2>1, Numbers DEF RingInv, SizeInv
  <2> QED BY <2>2, <2>4, <2>5, <2>6 DEF RingInv, Sizes
<1>7. CASE Ring!PushCount
  <2>1. /\ r_ppc = "count" /\ r_ppc' = "idle" /\ r_push_count' = r_push_count + 1
        /\ UNCHANGED <<r_buffer, r_tail, r_head, r_stop, r_push_rejects, r_pop_count, r_item,
                       r_pushed, r_cpc, r_out, r_want, r_popped, r_caller, r_seen, r_size>>
    BY <1>7 DEF Ring!PushCount, Ring!indexVars, Ring!consumerVars, Ring!sizeVars
  <2>2. Ring!TypeOK' BY <2>1, Numbers DEF RingInv, Ring!TypeOK
  <2>3. CountsInv' BY <2>1, Numbers DEF RingInv, CountsInv
  <2> QED BY <2>1, <2>2, <2>3, SlotsFrame DEF RingInv, Sizes, SizeInv
<1> QED BY <1>1, <1>2, <1>3, <1>4, <1>5, <1>6, <1>7 DEF Ring!push

\* Every step of pop and pop_batch keeps the invariant.
LEMMA PopKeepsInv == ASSUME RingInv, Ring!pop_batch PROVE RingInv'
<1>1. CASE \E max \in 1 .. MaxBatch : Ring!PopBegin(max)
  <2> PICK max \in 1 .. MaxBatch : Ring!PopBegin(max) BY <1>1
  <2>1. /\ r_cpc = "idle" /\ r_cpc' = "test" /\ r_want' = max /\ r_caller # "consumer"
        /\ UNCHANGED <<r_buffer, r_tail, r_head, r_stop, r_push_count, r_push_rejects,
                       r_pop_count, r_ppc, r_item, r_pushed, r_out, r_popped, r_caller,
                       r_seen, r_size>>
    BY DEF Ring!PopBegin, Ring!indexVars, Ring!countVars, Ring!producerVars, Ring!sizeVars
  <2>2. max \in Nat /\ max >= 1 BY Numbers
  <2>3. Ring!TypeOK' BY <2>1, <2>2 DEF RingInv, Ring!TypeOK
  <2> QED BY <2>1, <2>2, <2>3, SlotsFrame DEF RingInv, Sizes, CountsInv, SizeInv
<1>2. CASE Ring!PopTest
  <2>1. /\ r_cpc = "test" /\ r_cpc' = (IF r_head = r_tail THEN "idle" ELSE "read")
        /\ r_popped' = (IF r_head = r_tail THEN None ELSE r_popped)
        /\ UNCHANGED <<r_buffer, r_tail, r_head, r_stop, r_push_count, r_push_rejects,
                       r_pop_count, r_ppc, r_item, r_pushed, r_out, r_want, r_caller, r_seen,
                       r_size>>
    BY <1>2 DEF Ring!PopTest, Ring!indexVars, Ring!countVars, Ring!producerVars, Ring!sizeVars
  <2>2. Ring!TypeOK' BY <2>1 DEF RingInv, Ring!TypeOK
  <2>3. SlotsInv' BY <2>1, Numbers DEF RingInv, SlotsInv, Ring!Slot
  <2> QED BY <2>1, <2>2, <2>3 DEF RingInv, Sizes, CountsInv, SizeInv
<1>3. CASE Ring!PopRead
  <2>1. /\ r_cpc = "read" /\ r_cpc' = "release" /\ r_out' = r_buffer[Ring!Slot(r_head)]
        /\ UNCHANGED <<r_buffer, r_tail, r_head, r_stop, r_push_count, r_push_rejects,
                       r_pop_count, r_ppc, r_item, r_pushed, r_want, r_popped, r_caller,
                       r_seen, r_size>>
    BY <1>3 DEF Ring!PopRead, Ring!indexVars, Ring!countVars, Ring!producerVars, Ring!sizeVars
  <2>2. r_out' \in Values \cup {None} BY <2>1, Numbers DEF RingInv, Ring!TypeOK
  <2>3. Ring!TypeOK' BY <2>1, <2>2 DEF RingInv, Ring!TypeOK
  <2>4. SlotsInv' BY <2>1 DEF RingInv, SlotsInv, Ring!Slot
  <2> QED BY <2>1, <2>3, <2>4 DEF RingInv, Sizes, CountsInv, SizeInv
<1>4. CASE Ring!PopRelease
  <2>1. /\ r_cpc = "release" /\ r_cpc' = "count" /\ r_head' = r_head + 1
        /\ r_popped' = r_out /\ r_out' = None
        /\ r_head < r_tail
        /\ UNCHANGED <<r_buffer, r_tail, r_stop, r_push_count, r_push_rejects, r_pop_count,
                       r_ppc, r_item, r_pushed, r_want, r_caller, r_seen, r_size>>
    BY <1>4 DEF Ring!PopRelease, Ring!countVars, Ring!producerVars, Ring!sizeVars, RingInv,
       SlotsInv
  <2>2. Ring!TypeOK' BY SMTT(30), <2>1, Numbers DEF RingInv, Ring!TypeOK
  <2>3. SlotsInv' BY <2>1, Numbers DEF RingInv, SlotsInv, Ring!Slot
  <2>4. CountsInv' BY <2>1, Numbers DEF RingInv, CountsInv
  <2>5. SizeInv' BY <2>1 DEF RingInv, SizeInv
  <2> QED BY <2>2, <2>3, <2>4, <2>5 DEF RingInv, Sizes
<1>5. CASE Ring!PopCount
  <2>1. /\ r_cpc = "count" /\ r_cpc' = (IF r_want = 1 THEN "idle" ELSE "test")
        /\ r_pop_count' = r_pop_count + 1 /\ r_want' = r_want - 1 /\ r_want >= 1
        /\ UNCHANGED <<r_buffer, r_tail, r_head, r_stop, r_push_count, r_push_rejects, r_ppc,
                       r_item, r_pushed, r_out, r_popped, r_caller, r_seen, r_size>>
    BY <1>5 DEF Ring!PopCount, Ring!indexVars, Ring!producerVars, Ring!sizeVars, RingInv,
       CountsInv
  <2>2. Ring!TypeOK' BY <2>1, Numbers DEF RingInv, Ring!TypeOK
  <2>3. CountsInv' BY <2>1, Numbers DEF RingInv, CountsInv
  <2>4. SlotsInv' BY <2>1, SlotsFrame
  <2> QED BY <2>1, <2>2, <2>3, <2>4 DEF RingInv, Sizes, SizeInv
<1> QED BY <1>1, <1>2, <1>3, <1>4, <1>5 DEF Ring!pop_batch

\* What size() returns to the producer or the consumer.
LEMMA SizeReturned ==
  ASSUME RingInv, Ring!SizeEnd
  PROVE  /\ r_size' \in Nat
         /\ r_caller = "producer" \/ r_caller = "consumer" => r_size' < Capacity
<1>1. r_size' = (r_seen - r_head) % Word BY DEF Ring!SizeEnd
<1>2. r_size' \in Nat
  <2>1. Word \in Nat \ {0} /\ r_seen - r_head \in Int BY Numbers
  <2> QED BY <1>1, <2>1
<1>3. ASSUME r_caller = "producer" \/ r_caller = "consumer" PROVE r_size' < Capacity
  <2>1. r_seen - r_head \in Nat /\ r_seen - r_head < Capacity BY <1>3, Numbers DEF RingInv,
        SizeInv
  <2>2. r_seen - r_head < Word BY <2>1, Numbers
  <2>3. (r_seen - r_head) % Word = r_seen - r_head BY <2>1, <2>2, NoWrap
  <2> QED BY <1>1, <2>1, <2>3
<1> QED BY <1>2, <1>3

\* Every step keeps the invariant.
LEMMA RingInvNext == RingInv /\ [Ring!Next]_(Ring!vars) => RingInv'
<1> SUFFICES ASSUME RingInv, [Ring!Next]_(Ring!vars) PROVE RingInv' OBVIOUS
<1>1. CASE \E c \in {"producer", "consumer", "watcher"} : Ring!SizeBegin(c)
  <2> PICK c \in {"producer", "consumer", "watcher"} : Ring!SizeBegin(c) BY <1>1
  <2>1. /\ r_caller' = c /\ r_seen' = r_tail /\ r_size' = 0
        /\ c = "producer" => r_ppc = "idle"
        /\ c = "consumer" => r_cpc = "idle"
        /\ UNCHANGED <<r_buffer, r_tail, r_head, r_stop, r_push_count, r_push_rejects,
                       r_pop_count, r_ppc, r_item, r_pushed, r_cpc, r_out, r_want, r_popped>>
    BY DEF Ring!SizeBegin, Ring!indexVars, Ring!countVars, Ring!producerVars, Ring!consumerVars
  <2>2. Ring!TypeOK' BY <2>1 DEF RingInv, Ring!TypeOK
  <2>3. SizeInv' BY <2>1, Numbers DEF SizeInv
  <2> QED BY <2>1, <2>2, <2>3, SlotsFrame DEF RingInv, Sizes, CountsInv
<1>2. CASE Ring!SizeEnd
  <2>1. /\ r_caller' = "none" /\ r_seen' = 0 /\ r_size' \in Nat
        /\ UNCHANGED <<r_buffer, r_tail, r_head, r_stop, r_push_count, r_push_rejects,
                       r_pop_count, r_ppc, r_item, r_pushed, r_cpc, r_out, r_want, r_popped>>
    BY <1>2, SizeReturned DEF Ring!SizeEnd, Ring!indexVars, Ring!countVars, Ring!producerVars,
       Ring!consumerVars
  <2>2. Ring!TypeOK' BY <2>1 DEF RingInv, Ring!TypeOK
  <2> QED BY <2>1, <2>2, SlotsFrame DEF RingInv, Sizes, CountsInv, SizeInv
<1>3. ASSUME UNCHANGED <<r_buffer, r_tail, r_head, Ring!countVars, Ring!producerVars,
                         Ring!consumerVars, Ring!sizeVars>>,
             r_stop' \in BOOLEAN
      PROVE  RingInv'
  <2>1. UNCHANGED <<r_buffer, r_tail, r_head, r_push_count, r_push_rejects, r_pop_count,
                    r_ppc, r_item, r_pushed, r_cpc, r_out, r_want, r_popped, r_caller, r_seen,
                    r_size>>
    BY <1>3 DEF Ring!countVars, Ring!producerVars, Ring!consumerVars, Ring!sizeVars
  <2>2. Ring!TypeOK' BY <1>3, <2>1 DEF RingInv, Ring!TypeOK
  <2> QED BY <2>1, <2>2, SlotsFrame DEF RingInv, Sizes, CountsInv, SizeInv
<1>4. CASE Ring!shutdown
  <2>1. r_stop' \in BOOLEAN BY <1>4, Zenon DEF Ring!shutdown
  <2> QED BY <1>3, <1>4, <2>1 DEF Ring!shutdown
<1>5. CASE UNCHANGED Ring!vars
  <2>1. r_stop' \in BOOLEAN BY <1>5 DEF Ring!vars, Ring!indexVars, RingInv, Ring!TypeOK
  <2> QED BY <1>3, <1>5, <2>1 DEF Ring!vars, Ring!indexVars
<1> QED BY <1>1, <1>2, <1>4, <1>5, PushKeepsInv, PopKeepsInv DEF Ring!Next, Ring!sizeCall

\* The inductive invariant holds in every state.
THEOREM RingInvariant == Sizes /\ Ring!Spec => []RingInv
BY RingInvInit, RingInvNext, PTL DEF Ring!Spec

\* The indices stay within a ring of each other.
THEOREM RingTypeCorrect == Sizes /\ Ring!Spec => []Ring!TypeOK
<1>1. RingInv => Ring!TypeOK BY DEF RingInv
<1> QED BY <1>1, RingInvariant, PTL

\* With an item in the ring and a slot left free, the two ends are on different slots.
LEMMA RingNoRace == RingInv => Ring!NoSlotRace
<1> SUFFICES ASSUME RingInv, r_ppc = "write", r_cpc = "read"
             PROVE  Ring!Slot(r_tail) # Ring!Slot(r_head)
  BY DEF Ring!NoSlotRace
<1>1. r_head < r_tail BY DEF RingInv, SlotsInv
<1>2. r_head # r_tail /\ r_head < r_head + Capacity BY <1>1, Numbers
<1> QED BY <1>2, Numbers, WindowDistinct

\* The producer never writes the slot that the consumer reads.
THEOREM RingRaceFree == Sizes /\ Ring!Spec => []Ring!NoSlotRace
BY RingNoRace, RingInvariant, PTL

\* The counters lag the indices by one at most.
LEMMA CountsClose == RingInv => Ring!CountsTrackOccupancy
BY Numbers DEF RingInv, CountsInv, Ring!CountsTrackOccupancy

\* The counters of push and pop are never more than one item off on either side.
THEOREM RingCounts == Sizes /\ Ring!Spec => []Ring!CountsTrackOccupancy
BY CountsClose, RingInvariant, PTL

\* What a call of size() by the producer or the consumer may return.
InRange ==
  (r_caller = "producer" \/ r_caller = "consumer") /\ r_caller' = "none" => r_size' < Capacity

\* A call that ends returns such a size; other steps end no call.
LEMMA SizeStep == RingInv /\ [Ring!Next]_(Ring!vars) => [InRange]_(Ring!vars)
<1> SUFFICES ASSUME RingInv, [Ring!Next]_(Ring!vars) PROVE [InRange]_(Ring!vars) OBVIOUS
<1>1. CASE Ring!SizeEnd BY <1>1, SizeReturned DEF InRange
<1>2. CASE ~Ring!SizeEnd
  <2>1. CASE \E c \in {"producer", "consumer", "watcher"} : Ring!SizeBegin(c)
    BY <2>1 DEF Ring!SizeBegin, InRange
  <2>2. CASE Ring!push \/ Ring!pop_batch \/ Ring!shutdown
    <3>1. r_caller' = r_caller
      BY <2>2 DEF Ring!push, Ring!pop_batch, Ring!shutdown, Ring!PushRefused, Ring!PushBegin,
         Ring!PushTest, Ring!PushReject, Ring!PushWrite, Ring!PushPublish, Ring!PushCount,
         Ring!PopBegin, Ring!PopTest, Ring!PopRead, Ring!PopRelease, Ring!PopCount, Ring!sizeVars
    <3> QED BY SMTT(30), <3>1 DEF InRange
  <2>3. CASE UNCHANGED Ring!vars BY <2>3
  <2> QED BY <1>2, <2>1, <2>2, <2>3 DEF Ring!Next, Ring!sizeCall
<1> QED BY <1>1, <1>2

\* size() never wraps for the two threads that own an index.
THEOREM RingSizeSafe == Sizes /\ Ring!Spec => Ring!SizeInRange
BY SizeStep, RingInvariant, PTL DEF Ring!Spec, Ring!SizeInRange, InRange

-----------------------------------------------------------------------------
\* The contents are a sequence of values whose length is the distance of the indices.
LEMMA ContentsOK ==
  ASSUME RingInv
  PROVE  Ring!Contents \in Seq(Values) /\ Len(Ring!Contents) = r_tail - r_head
<1>1. ASSUME NEW i \in 1 .. r_tail - r_head PROVE r_buffer[Ring!Slot(r_head + i - 1)] \in Values
  <2>1. r_head + i - 1 \in Nat /\ r_head <= r_head + i - 1 /\ r_head + i - 1 < r_tail BY Numbers
  <2> QED BY <2>1 DEF RingInv, SlotsInv
<1>2. r_tail - r_head \in Nat BY Numbers
<1> QED BY <1>1, <1>2 DEF Ring!Contents

\* A step that leaves the indices and the slots in use alone leaves the contents.
LEMMA ContentsFrame ==
  ASSUME RingInv, UNCHANGED <<r_tail, r_head>>,
         \A i \in Nat : r_head <= i /\ i < r_tail
                        => r_buffer'[Ring!Slot(i)] = r_buffer[Ring!Slot(i)]
  PROVE  Ring!Contents' = Ring!Contents
<1>1. ASSUME NEW i \in 1 .. r_tail - r_head
      PROVE  r_buffer'[Ring!Slot(r_head + i - 1)] = r_buffer[Ring!Slot(r_head + i - 1)]
  <2>1. r_head + i - 1 \in Nat /\ r_head <= r_head + i - 1 /\ r_head + i - 1 < r_tail BY Numbers
  <2> QED BY <2>1
<1> QED BY <1>1 DEF Ring!Contents, Ring!Slot

\* The ring as constructed is an empty FIFO.
LEMMA RingFifoInit == Ring!Init => Ring!Fifo!Init
<1> SUFFICES ASSUME Ring!Init PROVE Ring!Fifo!Init OBVIOUS
<1>1. Ring!Contents = <<>> BY DEF Ring!Init, Ring!Contents
<1> QED BY <1>1 DEF Ring!Init, Ring!Fifo!Init

\* Every step of the ring is a step of the FIFO of Capacity - 1 items or leaves it
\* unchanged: publishing the tail is the push, handing the slot back is the pop.
LEMMA RingFifoStep == RingInv /\ [Ring!Next]_(Ring!vars) => [Ring!Fifo!Next]_(Ring!Fifo!fifoVars)
<1> SUFFICES ASSUME RingInv, [Ring!Next]_(Ring!vars)
             PROVE  Ring!Fifo!Next \/ UNCHANGED Ring!Fifo!fifoVars
  OBVIOUS
<1>0. Ring!Contents \in Seq(Values) /\ Len(Ring!Contents) = r_tail - r_head BY ContentsOK
<1>n. /\ r_tail \in Nat /\ r_head \in Nat /\ r_head <= r_tail /\ r_tail - r_head \in Nat
      /\ Capacity \in Nat
  BY Numbers
<1>q. UNCHANGED <<r_buffer, r_tail, r_head>> => Ring!Contents' = Ring!Contents BY DEF
      Ring!Contents, Ring!Slot
<1>1. CASE Ring!PushRefused
  BY <1>1, <1>q DEF Ring!PushRefused, Ring!Fifo!Next, Ring!Fifo!PushStopped, Ring!indexVars,
     Ring!consumerVars
<1>2. CASE UNCHANGED <<Ring!indexVars, r_pushed, r_popped>>
  BY <1>2, <1>q DEF Ring!indexVars, Ring!Fifo!fifoVars
<1>3. CASE Ring!PushTest
  <2>1. UNCHANGED <<r_buffer, r_tail, r_head, r_stop, r_popped>>
    BY <1>3 DEF Ring!PushTest, Ring!indexVars, Ring!consumerVars
  <2>2. CASE Ring!Full
    <3>1. Len(Ring!Contents) = Capacity - 1 BY <1>0, <2>2, FullTest
    <3> QED BY <1>3, <1>q, <2>1, <2>2, <3>1 DEF Ring!PushTest, Ring!Fifo!Next, Ring!Fifo!PushFull
  <2>3. CASE ~Ring!Full BY <1>3, <1>q, <2>1, <2>3 DEF Ring!PushTest, Ring!Fifo!fifoVars
  <2> QED BY <2>2, <2>3
<1>4. CASE Ring!PushWrite
  <2>1. /\ UNCHANGED <<r_tail, r_head, r_stop, r_pushed, r_popped>>
        /\ r_buffer' = [r_buffer EXCEPT ![Ring!Slot(r_tail)] = r_item]
    BY <1>4 DEF Ring!PushWrite, Ring!consumerVars
  <2>2. ASSUME NEW i \in Nat, r_head <= i, i < r_tail
        PROVE  r_buffer'[Ring!Slot(i)] = r_buffer[Ring!Slot(i)]
    <3>1. i # r_tail /\ i < r_head + Capacity BY <2>2, Numbers
    <3>2. Ring!Slot(i) # Ring!Slot(r_tail) BY <2>2, <3>1, Numbers, WindowDistinct
    <3> QED BY <2>1, <3>2, SlotRange DEF RingInv, Ring!TypeOK
  <2>3. Ring!Contents' = Ring!Contents BY <2>1, <2>2, ContentsFrame
  <2> QED BY <2>1, <2>3 DEF Ring!Fifo!fifoVars
<1>5. CASE Ring!PushPublish
  <2> DEFINE v == r_buffer[Ring!Slot(r_tail)]
             n == (r_tail + 1) - r_head
             f == [i \in 1 .. n |-> r_buffer[Ring!Slot(r_head + i - 1)]]
             s == Append(Ring!Contents, v)
  <2>1. /\ r_tail' = r_tail + 1 /\ r_pushed' = "ok"
        /\ r_tail - r_head < Capacity - 1 /\ v \in Values
        /\ UNCHANGED <<r_buffer, r_head, r_stop, r_popped>>
    BY <1>5 DEF Ring!PushPublish, RingInv, SlotsInv, Ring!consumerVars
  <2>2. Ring!Contents' = f BY <2>1 DEF Ring!Contents, Ring!Slot
  <2>3. s \in Seq(Values) /\ Len(s) = n BY <1>0, <2>1, <1>n
  <2>4. ASSUME NEW i \in 1 .. n PROVE s[i] = f[i]
    <3>1. CASE i <= r_tail - r_head
      <4>1. i \in 1 .. r_tail - r_head BY <3>1, <1>n
      <4>2. s[i] = Ring!Contents[i] BY <4>1, <1>0, <2>1
      <4> QED BY Zenon, <4>1, <4>2 DEF Ring!Contents
    <3>2. CASE ~(i <= r_tail - r_head)
      <4>1. i = Len(Ring!Contents) + 1 /\ r_head + i - 1 = r_tail BY <3>2, <1>0, <1>n
      <4> QED BY <4>1, <1>0, <2>1
    <3> QED BY Zenon, <3>1, <3>2
  <2>5. f = [i \in 1 .. n |-> f[i]] OBVIOUS
  <2> HIDE DEF n, f, s, v
  <2>6. f = s BY <2>3, <2>4, <2>5, SameSequence
  <2>7. Len(Ring!Contents) < Capacity - 1 BY <1>0, <2>1
  <2>8. Ring!Fifo!Push(v) BY <2>1, <2>2, <2>6, <2>7 DEF Ring!Fifo!Push, s
  <2> QED BY <2>1, <2>8 DEF Ring!Fifo!Next
<1>6. CASE Ring!PopTest
  <2>1. UNCHANGED <<r_buffer, r_tail, r_head, r_stop, r_pushed>>
    BY <1>6 DEF Ring!PopTest, Ring!indexVars, Ring!producerVars
  <2>2. CASE r_head = r_tail
    <3>1. Ring!Contents = <<>> BY <1>0, <2>2, <1>n
    <3> QED BY <1>6, <1>q, <2>1, <2>2, <3>1 DEF Ring!PopTest, Ring!Fifo!Next, Ring!Fifo!PopEmpty
  <2>3. CASE r_head # r_tail BY <1>6, <1>q, <2>1, <2>3 DEF Ring!PopTest, Ring!Fifo!fifoVars
  <2> QED BY <2>2, <2>3
<1>7. CASE Ring!PopRelease
  <2> DEFINE n == r_tail - (r_head + 1)
             f == [i \in 1 .. n |-> r_buffer[Ring!Slot(r_head + 1 + i - 1)]]
             s == Tail(Ring!Contents)
  <2>1. /\ r_head' = r_head + 1 /\ r_popped' = r_out /\ r_head < r_tail
        /\ r_out = r_buffer[Ring!Slot(r_head)]
        /\ UNCHANGED <<r_buffer, r_tail, r_stop, r_pushed>>
    BY <1>7 DEF Ring!PopRelease, RingInv, SlotsInv, Ring!producerVars
  <2>2. Ring!Contents # <<>> BY <1>0, <2>1, <1>n
  <2>3. Head(Ring!Contents) = r_out
    <3>1. Ring!Contents[1] = r_buffer[Ring!Slot(r_head + 1 - 1)] BY <2>1, <1>n DEF Ring!Contents
    <3>2. r_head + 1 - 1 = r_head BY <1>n
    <3> QED BY <1>0, <2>1, <2>2, <3>1, <3>2
  <2>4. Ring!Contents' = f BY <2>1 DEF Ring!Contents, Ring!Slot
  <2>5. s \in Seq(Values) /\ Len(s) = n BY <1>0, <2>2, <1>n
  <2>6. ASSUME NEW i \in 1 .. n PROVE s[i] = f[i]
    <3>1. i + 1 \in 1 .. r_tail - r_head BY <1>n
    <3>2. s[i] = Ring!Contents[i + 1] BY <1>0, <2>2, <3>1
    <3>3. r_head + (i + 1) - 1 = r_head + 1 + i - 1 BY <1>n
    <3> QED BY Zenon, <3>1, <3>2, <3>3 DEF Ring!Contents
  <2>7. f = [i \in 1 .. n |-> f[i]] OBVIOUS
  <2> HIDE DEF n, f, s
  <2>8. f = s BY <2>5, <2>6, <2>7, SameSequence
  <2>9. Ring!Fifo!Pop BY <2>1, <2>2, <2>3, <2>4, <2>8 DEF Ring!Fifo!Pop, s
  <2> QED BY <2>9 DEF Ring!Fifo!Next
<1>8. CASE Ring!shutdown
  BY <1>8, <1>q DEF Ring!shutdown, Ring!Fifo!Next, Ring!Fifo!Stop, Ring!producerVars,
     Ring!consumerVars
<1>9. CASE UNCHANGED Ring!vars
  BY <1>2, <1>9 DEF Ring!vars, Ring!producerVars, Ring!consumerVars
<1>10. CASE Ring!sizeCall
  BY <1>2, <1>10 DEF Ring!sizeCall, Ring!SizeBegin, Ring!SizeEnd, Ring!producerVars,
     Ring!consumerVars
<1>11. CASE (\E v \in Values : Ring!PushBegin(v)) \/ Ring!PushReject \/ Ring!PushCount
  BY <1>2, <1>11 DEF Ring!PushBegin, Ring!PushReject, Ring!PushCount, Ring!consumerVars
<1>12. CASE (\E max \in 1 .. MaxBatch : Ring!PopBegin(max)) \/ Ring!PopRead \/ Ring!PopCount
  BY <1>2, <1>12 DEF Ring!PopBegin, Ring!PopRead, Ring!PopCount, Ring!producerVars
<1> QED BY <1>1, <1>3, <1>4, <1>5, <1>6, <1>7, <1>8, <1>9, <1>10, <1>11, <1>12
        DEF Ring!Next, Ring!push, Ring!pop_batch

\* The ring is a bounded FIFO of Capacity - 1 items, for every capacity: the slot that
\* the masked comparison leaves free is the only difference from SPSCQueue.
THEOREM RingIsFifo == Sizes /\ Ring!Spec => Ring!ImplementsFifo
BY RingInvariant, RingFifoInit, RingFifoStep, PTL DEF Ring!Spec, Ring!ImplementsFifo,
   Ring!Fifo!Spec

-----------------------------------------------------------------------------
(***************************************************************************)
(* All three queues.  The steps of MPSCQueue and SPSCQueue are proved in   *)
(* ItemQueueProofs, of which Items is an instance.                         *)
(***************************************************************************)
Items == INSTANCE ItemQueueProofs WITH
  sequence <- m_sequence, data <- m_data, tail_ <- m_tail, head_ <- m_head,
  stop_flag_ <- m_stop, ppc <- m_ppc, item <- m_item, ticket <- m_ticket,
  cpc <- m_cpc, out <- m_out, pushed <- m_pushed, popped <- m_popped

\* MCQueues starts each queue as it starts alone.
LEMMA AllInit == Init => Items!Spsc!Init /\ Items!Init /\ Ring!Init
<1>1. Spsc!Init <=> Items!Spsc!Init BY Zenon DEF Spsc!Init, Items!Spsc!Init
<1>2. Mpsc!Init <=> Items!Init
  BY Zenon DEF Mpsc!Init, Items!Init, Mpsc!Cells, Items!Cells
<1> QED BY Zenon, <1>1, <1>2 DEF Init

\* A step of SPSCQueue is the same in the composition.
LEMMA SpscSteps == Spsc!Next <=> Items!Spsc!Next
BY ZenonT(40) DEF
  Spsc!Next, Spsc!push, Spsc!pop, Spsc!PushRefused,
  Spsc!PushBegin, Spsc!PushReload, Spsc!PushWrite,
  Spsc!PushPublish, Spsc!PopBegin, Spsc!PopRead,
  Spsc!PopRelease, Spsc!shutdown, Spsc!NoRoom, Spsc!Slot,
  Spsc!queueVars, Spsc!producerVars, Spsc!consumerVars, Items!Spsc!Next,
  Items!Spsc!push, Items!Spsc!pop, Items!Spsc!PushRefused, Items!Spsc!PushBegin,
  Items!Spsc!PushReload, Items!Spsc!PushWrite, Items!Spsc!PushPublish, Items!Spsc!PopBegin,
  Items!Spsc!PopRead, Items!Spsc!PopRelease, Items!Spsc!shutdown, Items!Spsc!NoRoom,
  Items!Spsc!Slot, Items!Spsc!queueVars, Items!Spsc!producerVars, Items!Spsc!consumerVars

\* So is one of MPSCQueue.
LEMMA MpscSteps == Mpsc!Next <=> Items!Next
BY ZenonT(40) DEF
  Mpsc!Next, Mpsc!push, Mpsc!pop, Mpsc!PushRefused,
  Mpsc!PushBegin, Mpsc!PushLoad, Mpsc!PushLook, Mpsc!PushClaim,
  Mpsc!PushRetry, Mpsc!PushWrite, Mpsc!PushPublish,
  Mpsc!PushReturns, Mpsc!PopBegin, Mpsc!PopCopy,
  Mpsc!PopRelease, Mpsc!shutdown, Mpsc!PushGoesOn,
  Mpsc!Claiming, Mpsc!Slot, Mpsc!released, Mpsc!Cardinality,
  Mpsc!cellVars, Mpsc!queueVars, Mpsc!producerVars,
  Mpsc!consumerVars, Mpsc!Cells, Items!Next, Items!push, Items!pop,
  Items!PushRefused, Items!PushBegin, Items!PushLoad, Items!PushLook,
  Items!PushClaim, Items!PushRetry, Items!PushWrite, Items!PushPublish,
  Items!PushReturns, Items!PopBegin, Items!PopCopy, Items!PopRelease, Items!shutdown,
  Items!PushGoesOn, Items!Claiming, Items!Slot, Items!released, Items!Cardinality,
  Items!cellVars, Items!queueVars, Items!producerVars, Items!consumerVars,
  Items!Cells

\* A step of the composition is a step of one queue and leaves the others alone.
LEMMA AllStep ==
  [Next]_vars => /\ [Items!Spsc!Next]_(Items!Spsc!vars)
                 /\ [Items!Next]_(Items!vars)
                 /\ [Ring!Next]_(Ring!vars)
<1> SUFFICES ASSUME [Next]_vars
             PROVE  /\ [Items!Spsc!Next]_(Items!Spsc!vars)
                    /\ [Items!Next]_(Items!vars)
                    /\ [Ring!Next]_(Ring!vars)
  OBVIOUS
<1>1. UNCHANGED spscVars => UNCHANGED Items!Spsc!vars
  BY DEF spscVars, Items!Spsc!vars, Items!Spsc!queueVars, Items!Spsc!producerVars,
     Items!Spsc!consumerVars
<1>2. UNCHANGED mpscVars => UNCHANGED Items!vars
  BY DEF mpscVars, Items!vars, Items!cellVars, Items!queueVars, Items!producerVars,
         Items!consumerVars
<1>3. UNCHANGED ringVars => UNCHANGED Ring!vars
  BY DEF ringVars, Ring!vars, Ring!indexVars, Ring!countVars, Ring!producerVars,
     Ring!consumerVars, Ring!sizeVars
<1>4. CASE SpscStep(Spsc!Next)
  <2>1. Items!Spsc!Next /\ UNCHANGED mpscVars /\ UNCHANGED ringVars
    BY Zenon, <1>4, SpscSteps DEF SpscStep
  <2> QED BY Zenon, <1>2, <1>3, <2>1
<1>5. CASE MpscStep(Mpsc!Next)
  <2>1. Items!Next /\ UNCHANGED spscVars /\ UNCHANGED ringVars
    BY Zenon, <1>5, MpscSteps DEF MpscStep
  <2> QED BY Zenon, <1>1, <1>3, <2>1
<1>6. CASE RingStep(Ring!Next)
  <2>1. Ring!Next /\ UNCHANGED spscVars /\ UNCHANGED mpscVars
    BY Zenon, <1>6 DEF RingStep
  <2> QED BY Zenon, <1>1, <1>2, <2>1
<1>7. CASE UNCHANGED vars
  <2>1. UNCHANGED spscVars /\ UNCHANGED mpscVars /\ UNCHANGED ringVars
    BY Zenon, <1>7 DEF vars
  <2> QED BY Zenon, <1>1, <1>2, <1>3, <2>1
<1> QED BY Zenon, <1>4, <1>5, <1>6, <1>7 DEF Next

\* The inductive invariants of the three queues.
AllInv == Items!SpscQueueInv /\ Items!QueueInv /\ RingInv

\* They hold in every state of the composition.
THEOREM AllInvariant == Items!LargeEnough /\ Sizes /\ Spec => []AllInv
<1>1. Items!LargeEnough /\ Sizes /\ Init => AllInv
  BY Zenon, QueueAssumption, AllInit, Items!SpscQueueInvInit, Items!QueueInvInit, RingInvInit DEF
     AllInv
<1>2. AllInv /\ [Next]_vars => AllInv'
  BY Zenon, QueueAssumption, AllStep, Items!SpscQueueInvNext, Items!QueueInvNext, RingInvNext DEF
     AllInv
<1> QED BY <1>1, <1>2, PTL DEF Spec

\* The indices, tickets and counters of the queues keep their types and their distance.
THEOREM QueuesTypeCorrect == Items!LargeEnough /\ Sizes /\ Spec => []TypeOK
<1>1. Items!SpscQueueInv => Spsc!TypeOK
  BY ZenonT(40) DEF Items!SpscQueueInv, Items!Spsc!TypeOK, Spsc!TypeOK
<1>2. Items!QueueInv => Mpsc!TypeOK
  BY ZenonT(40) DEF Items!QueueInv, Items!TypeOK, Mpsc!TypeOK, Items!Cells, Mpsc!Cells,
                    Items!released, Mpsc!released
<1>3. AllInv => TypeOK BY ZenonT(40), <1>1, <1>2 DEF AllInv, RingInv, TypeOK
<1> QED BY <1>3, AllInvariant, PTL

\* In none of the queues do two threads meet on a slot that one of them writes.
THEOREM QueuesRaceFree == Items!LargeEnough /\ Sizes /\ Spec => []NoSlotRace
<1>1. Items!SpscQueueInv => Spsc!NoSlotRace
  BY ZenonT(40), QueueAssumption, Items!SpscNoRace
     DEF Items!Spsc!NoSlotRace, Spsc!NoSlotRace, Items!Spsc!Slot, Spsc!Slot
<1>2. Items!QueueInv => Mpsc!NoSlotRace
  BY ZenonT(40), QueueAssumption, Items!NoRace
     DEF Items!NoSlotRace, Mpsc!NoSlotRace, Items!Writing, Mpsc!Writing, Items!Slot,
         Mpsc!Slot
<1>3. AllInv => NoSlotRace BY ZenonT(40), <1>1, <1>2, RingNoRace DEF AllInv, NoSlotRace
<1> QED BY <1>3, AllInvariant, PTL

\* The counters of the ring follow its contents, also when other queues run beside it.
THEOREM QueuesCount == Items!LargeEnough /\ Sizes /\ Spec => []CountsTrackOccupancy
<1>1. AllInv => CountsTrackOccupancy
  BY Zenon, CountsClose DEF AllInv, CountsTrackOccupancy
<1> QED BY <1>1, AllInvariant, PTL

\* size() never wraps for the producer and the consumer of the ring.
THEOREM QueuesSizeSafe == Items!LargeEnough /\ Sizes /\ Spec => SizeInRange
<1>1. AllInv /\ [Next]_vars => [InRange]_(Ring!vars)
  BY Zenon, AllStep, SizeStep DEF AllInv
<1> QED BY <1>1, AllInvariant, PTL DEF Spec, SizeInRange, Ring!SizeInRange,
        InRange

\* What SPSCQueue promises is the same in the composition.
LEMMA SpscPromise ==
  /\ Spsc!Fifo!Init <=> Items!Spsc!Fifo!Init
  /\ Spsc!Fifo!Next <=> Items!Spsc!Fifo!Next
  /\ UNCHANGED Items!Spsc!Fifo!fifoVars => UNCHANGED Spsc!Fifo!fifoVars
BY ZenonT(40) DEF
  Spsc!Fifo!Init, Spsc!Fifo!Next, Spsc!Fifo!Push,
  Spsc!Fifo!PushFull, Spsc!Fifo!PushStopped, Spsc!Fifo!Pop,
  Spsc!Fifo!PopEmpty, Spsc!Fifo!Stop, Spsc!Fifo!fifoVars,
  Spsc!Contents, Spsc!Slot, Items!Spsc!Fifo!Init, Items!Spsc!Fifo!Next,
  Items!Spsc!Fifo!Push, Items!Spsc!Fifo!PushFull, Items!Spsc!Fifo!PushStopped,
  Items!Spsc!Fifo!Pop, Items!Spsc!Fifo!PopEmpty, Items!Spsc!Fifo!Stop, Items!Spsc!Fifo!fifoVars,
  Items!Spsc!Contents, Items!Spsc!Slot

\* So is what MPSCQueue promises.
LEMMA MpscPromise ==
  /\ Mpsc!Fifo!Init <=> Items!Fifo!Init
  /\ Mpsc!Fifo!Next <=> Items!Fifo!Next
  /\ Mpsc!PopUnpublished <=> Items!PopUnpublished
  /\ UNCHANGED Items!Fifo!fifoVars => UNCHANGED Mpsc!Fifo!fifoVars
BY ZenonT(40) DEF
  Mpsc!Fifo!Init, Mpsc!Fifo!Next, Mpsc!Fifo!Push,
  Mpsc!Fifo!PushFull, Mpsc!Fifo!PushStopped, Mpsc!Fifo!Pop,
  Mpsc!Fifo!PopEmpty, Mpsc!Fifo!Stop, Mpsc!Fifo!fifoVars,
  Mpsc!PopUnpublished, Mpsc!Contents, Mpsc!ItemOf, Mpsc!Pending,
  Mpsc!Writing, Mpsc!released, Mpsc!Slot, Items!Fifo!Init,
  Items!Fifo!Next, Items!Fifo!Push, Items!Fifo!PushFull, Items!Fifo!PushStopped,
  Items!Fifo!Pop, Items!Fifo!PopEmpty, Items!Fifo!Stop, Items!Fifo!fifoVars,
  Items!PopUnpublished, Items!Contents, Items!ItemOf, Items!Pending, Items!Writing,
  Items!released, Items!Slot

\* Each queue, whatever the others do, is a bounded FIFO.
THEOREM QueuesAreFifos == Items!LargeEnough /\ Sizes /\ Spec => ImplementsFifo
<1>1. Init => Spsc!Fifo!Init /\ Mpsc!Fifo!Init /\ Ring!Fifo!Init
  BY ZenonT(40), QueueAssumption, AllInit, Items!SpscFifoInit, Items!FifoInit, RingFifoInit,
     SpscPromise, MpscPromise
<1>2. AllInv /\ AllInv' /\ [Next]_vars
        => /\ [Items!Spsc!Fifo!Next]_(Items!Spsc!Fifo!fifoVars)
           /\ [Items!Fifo!Next \/ Items!PopUnpublished]_(Items!Fifo!fifoVars)
           /\ [Ring!Fifo!Next]_(Ring!Fifo!fifoVars)
  BY ZenonT(40), QueueAssumption, AllStep, Items!SpscFifoStep, Items!FifoStep, RingFifoStep DEF
     AllInv
<1>3. [Items!Spsc!Fifo!Next]_(Items!Spsc!Fifo!fifoVars) => [Spsc!Fifo!Next]_(Spsc!Fifo!fifoVars)
  BY ONLY Zenon, SpscPromise
<1>4. [Items!Fifo!Next \/ Items!PopUnpublished]_(Items!Fifo!fifoVars)
        => [Mpsc!Fifo!Next \/ Mpsc!PopUnpublished]_(Mpsc!Fifo!fifoVars)
  BY ONLY Zenon, MpscPromise
<1> QED BY <1>1, <1>2, <1>3, <1>4, AllInvariant, PTL
        DEF Spec, ImplementsFifo, Spsc!ImplementsFifo, Mpsc!ImplementsFifo,
            Ring!ImplementsFifo, Spsc!Fifo!Spec, Ring!Fifo!Spec
=============================================================================
