------------------------------ MODULE MCQueues ------------------------------
(***************************************************************************)
(* The three queues of include/sequitur/concurrency on one small instance: *)
(* a behaviour exercises one of them and leaves the others as they were    *)
(* constructed.                                                            *)
(***************************************************************************)
EXTENDS QueueConstants, Sequences

CONSTANTS Producers, MaxRejects, MaxBatch, Word

VARIABLES queue,
          s_buffer, s_tail, s_head, s_cached, s_stop, s_ppc, s_item, s_cpc, s_out,
          s_pushed, s_popped,
          m_sequence, m_data, m_tail, m_head, m_stop, m_ppc, m_item, m_ticket, m_cpc, m_out,
          m_pushed, m_popped,
          r_buffer, r_tail, r_head, r_stop, r_push_count, r_push_rejects, r_pop_count,
          r_ppc, r_item, r_cpc, r_out, r_want, r_caller, r_seen, r_size, r_pushed, r_popped

Spsc == INSTANCE SPSCQueue WITH
  buffer_ <- s_buffer, tail_ <- s_tail, head_ <- s_head, cached_head_ <- s_cached,
  stop_flag_ <- s_stop, ppc <- s_ppc, item <- s_item, cpc <- s_cpc, out <- s_out,
  pushed <- s_pushed, popped <- s_popped

Mpsc == INSTANCE MPSCQueue WITH
  sequence <- m_sequence, data <- m_data, tail_ <- m_tail, head_ <- m_head,
  stop_flag_ <- m_stop, ppc <- m_ppc, item <- m_item, ticket <- m_ticket,
  cpc <- m_cpc, out <- m_out, pushed <- m_pushed, popped <- m_popped

Ring == INSTANCE RingBuffer WITH
  buffer <- r_buffer, tail <- r_tail, head <- r_head, stop_flag <- r_stop,
  push_count <- r_push_count, push_rejects <- r_push_rejects, pop_count <- r_pop_count,
  ppc <- r_ppc, item <- r_item, cpc <- r_cpc, out <- r_out, want <- r_want,
  caller <- r_caller, seen <- r_seen, size <- r_size, pushed <- r_pushed, popped <- r_popped

spscVars == <<s_buffer, s_tail, s_head, s_cached, s_stop, s_ppc, s_item, s_cpc, s_out,
              s_pushed, s_popped>>
mpscVars == <<m_sequence, m_data, m_tail, m_head, m_stop, m_ppc, m_item, m_ticket,
              m_cpc, m_out, m_pushed, m_popped>>
ringVars == <<r_buffer, r_tail, r_head, r_stop, r_push_count, r_push_rejects, r_pop_count,
              r_ppc, r_item, r_cpc, r_out, r_want, r_caller, r_seen, r_size, r_pushed,
              r_popped>>
vars == <<queue, spscVars, mpscVars, ringVars>>

Init ==
  /\ queue \in {"spsc", "mpsc", "ring"}
  /\ Spsc!Init /\ Mpsc!Init /\ Ring!Init

SpscStep(A) == queue = "spsc" /\ A /\ UNCHANGED <<queue, mpscVars, ringVars>>
MpscStep(A) == queue = "mpsc" /\ A /\ UNCHANGED <<queue, spscVars, ringVars>>
RingStep(A) == queue = "ring" /\ A /\ UNCHANGED <<queue, spscVars, mpscVars>>

Next == SpscStep(Spsc!Next) \/ MpscStep(Mpsc!Next) \/ RingStep(Ring!Next)

\* The fairness of the three specifications.
Spec ==
  /\ Init /\ [][Next]_vars
  /\ WF_vars(SpscStep(Spsc!pop))
  /\ WF_vars(SpscStep(Spsc!PushReload \/ Spsc!PushWrite \/ Spsc!PushPublish))
  /\ WF_vars(MpscStep(Mpsc!pop))
  /\ \A p \in Producers : WF_vars(MpscStep(Mpsc!PushGoesOn(p)))
  /\ SF_vars(RingStep(Ring!pop_batch)) /\ WF_vars(RingStep(Ring!SizeEnd))

-----------------------------------------------------------------------------
\* The indices and tickets of each queue stay within its capacity of one another.
TypeOK == Spsc!TypeOK /\ Mpsc!TypeOK /\ Ring!TypeOK

\* In each queue, a slot that is being written is neither being read nor being written
\* by anyone else: the data accesses are plain, only the indices are atomic.
NoSlotRace == Spsc!NoSlotRace /\ Mpsc!NoSlotRace /\ Ring!NoSlotRace

\* In each queue, what a push published is popped by a consumer that keeps polling, also
\* when shutdown is called in between (the flag stops push only); a claimed ticket of
\* MPSCQueue blocks the consumer only until its producer publishes it.
Pushes == s_tail + m_tail + r_tail
Pops == s_head + Mpsc!released + r_head
EveryItemPopped == \A n \in 1 .. MaxPush : (Pushes >= n) ~> (Pops >= n)

\* Each queue is a bounded FIFO, up to MPSCQueue's pop of nothing while the oldest
\* ticket is not yet published.
ImplementsFifo == Spsc!ImplementsFifo /\ Mpsc!ImplementsFifo /\ Ring!ImplementsFifo

\* RingBuffer's size() is in range for its producer and its consumer.
SizeInRange == Ring!SizeInRange

\* RingBuffer's counters follow its contents.
CountsTrackOccupancy == Ring!CountsTrackOccupancy
=============================================================================
