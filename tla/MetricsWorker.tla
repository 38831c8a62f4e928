--------------------------- MODULE MetricsWorker ----------------------------
(***************************************************************************)
(* The telemetry of the engine: the snapshots that the core thread pushes  *)
(* every BATCH_WINDOW orders (src/main.cpp), and the MetricsWorker that    *)
(* drains them into a latency histogram and logs a line every 250 ms       *)
(* (src/utils/MetricsWorker.cpp).  EnginePipeline has the same worker with *)
(* the snapshots as a number; here they have contents, and the log lines   *)
(* too.  A line carries numbers; its JSON text is not modelled.  A latency *)
(* stays below 2^64 / 10^9 cycles (five seconds), where the conversion to  *)
(* nanoseconds does not overflow.  The queue is a bounded FIFO, which      *)
(* ItemQueueProofs proves.                                                 *)
(***************************************************************************)
EXTENDS Integers, Sequences, FiniteSets, FiniteSetsExt, Functions

CONSTANTS MetricsCapacity,  \* slots of the metrics queue (4096)
          BATCH_WINDOW,     \* orders per snapshot (64)
          NUM_BUCKETS,      \* buckets of the histogram (2048)
          Batches,          \* the batches that occur: accepted, refused, average cycles, crowded
          U32,              \* the values of uint32_t (2^32), the width of a bucket
          U64,              \* the values of uint64_t (2^64; any number the counters stay below)
          MaxSnapshots      \* bound: snapshots taken

ASSUME MetricsAssumption ==
  /\ {MetricsCapacity, BATCH_WINDOW, NUM_BUCKETS, U32, U64} \subseteq Nat \ {0}
  /\ Batches \subseteq {b \in Nat \X Nat \X Nat \X BOOLEAN : b[1] + b[2] <= BATCH_WINDOW}
  /\ MaxSnapshots \in Nat
ASSUME CountersFit == BATCH_WINDOW * MaxSnapshots < U64

VARIABLES total_orders, pool_failures, taken,  \* the core's counters; snapshots taken
          queue_, active_, wpc, report_due,
          current_orders, current_failures, last_orders,
          latency_buckets_, latency_outliers_, backpressure_events_,
          line,            \* the last line logged
          samples, logged  \* history: the latencies drained, the sum of the logged deltas

coreVars == <<total_orders, pool_failures, taken>>
currentVars == <<current_orders, current_failures>>
histogramVars == <<latency_buckets_, latency_outliers_, backpressure_events_, samples>>
logVars == <<last_orders, line, logged>>
vars == <<coreVars, queue_, active_, wpc, report_due, currentVars, histogramVars, logVars>>

Buckets == 0 .. NUM_BUCKETS - 1
NoLine == [orders |-> 0, delta |-> 0, hits |-> 0, p50 |-> 0, p99 |-> 0, p999 |-> 0,
           backpressure |-> 0, samples |-> 0]

MetricsPackets == [backpressure : BOOLEAN, cycles : Nat, orders : Nat, failures : Nat]

TypeOK ==
  /\ total_orders \in Nat /\ pool_failures \in Nat /\ taken \in 0 .. MaxSnapshots
  /\ Len(queue_) <= MetricsCapacity /\ \A i \in 1 .. Len(queue_) : queue_[i] \in MetricsPackets
  /\ active_ \in BOOLEAN /\ report_due \in BOOLEAN
  /\ wpc \in {"open", "test", "drain", "clock", "done", "failed"}
  /\ last_orders <= current_orders /\ current_orders <= total_orders
  /\ current_failures <= pool_failures
  /\ latency_buckets_ \in [Buckets -> 0 .. U32 - 1] /\ latency_outliers_ \in Nat
  /\ backpressure_events_ <= Len(samples)
  /\ DOMAIN line = DOMAIN NoLine /\ {line.p50, line.p99, line.p999} \subseteq Buckets
  /\ line.hits \in 0 .. U64 - 1 /\ line.delta \in 0 .. U64 - 1

Init ==
  /\ total_orders = 0 /\ pool_failures = 0 /\ taken = 0
  /\ queue_ = <<>> /\ active_ = TRUE /\ wpc = "open" /\ report_due = FALSE
  /\ current_orders = 0 /\ current_failures = 0 /\ last_orders = 0
  /\ latency_buckets_ = [i \in Buckets |-> 0]
  /\ latency_outliers_ = 0 /\ backpressure_events_ = 0
  /\ line = NoLine /\ samples = <<>> /\ logged = 0

-----------------------------------------------------------------------------
\* The core has processed BATCH_WINDOW packets, of which it accepted a and refused f for
\* want of a pool slot (the others were no new orders), and pushes a snapshot, which is
\* dropped when the queue is full.  The pool is crowded when 95 % of it are in use.
Snapshot(a, f, cycles, crowded) ==
  LET packet == [backpressure |-> pool_failures' > 0 \/ crowded, cycles |-> cycles,
                 orders |-> total_orders', failures |-> pool_failures']
  IN
  /\ active_
  /\ taken < MaxSnapshots
  /\ taken' = taken + 1
  /\ total_orders' = total_orders + a
  /\ pool_failures' = pool_failures + f
  /\ queue_' = IF Len(queue_) < MetricsCapacity THEN Append(queue_, packet) ELSE queue_
  /\ UNCHANGED <<active_, wpc, report_due, currentVars, histogramVars, logVars>>

core_thread == \E b \in Batches : Snapshot(b[1], b[2], b[3], b[4])

\* The worker cannot open the log: the thread ends at once.
OpenFails ==
  /\ wpc = "open"
  /\ wpc' = "failed"
  /\ UNCHANGED <<coreVars, queue_, active_, report_due, currentVars, histogramVars, logVars>>

Open ==
  /\ wpc = "open"
  /\ wpc' = "test"
  /\ UNCHANGED <<coreVars, queue_, active_, report_due, currentVars, histogramVars, logVars>>

\* As TestActive, but the loop ends with the data (mutant).
TestActive_until_empty ==
  /\ wpc = "test"
  /\ wpc' = IF active_ /\ queue_ # <<>> THEN "drain" ELSE "done"
  /\ UNCHANGED <<coreVars, queue_, active_, report_due, currentVars, histogramVars, logVars>>

TestActive ==
  /\ wpc = "test"
  /\ wpc' = IF active_ THEN "drain" ELSE "done"
  /\ UNCHANGED <<coreVars, queue_, active_, report_due, currentVars, histogramVars, logVars>>

\* One packet of the inner loop: the counters are replaced, the latency is counted,
\* in a bucket that wraps after U32 of them.
Nanoseconds(cycles) == (cycles * 10) \div 36

DrainOne ==
  LET packet == Head(queue_)
      latency_ns == Nanoseconds(packet.cycles)
  IN
  /\ wpc = "drain"
  /\ queue_ # <<>>
  /\ queue_' = Tail(queue_)
  /\ backpressure_events_' = backpressure_events_ + (IF packet.backpressure THEN 1 ELSE 0)
  /\ current_orders' = packet.orders
  /\ current_failures' = packet.failures
  /\ IF latency_ns < NUM_BUCKETS
     THEN /\ latency_buckets_' = [latency_buckets_ EXCEPT ![latency_ns] = (@ + 1) % U32]
          /\ UNCHANGED latency_outliers_
     ELSE /\ latency_outliers_' = latency_outliers_ + 1
          /\ UNCHANGED latency_buckets_
  /\ samples' = Append(samples, latency_ns)
  /\ UNCHANGED <<coreVars, active_, wpc, report_due, logVars>>

DrainEnds ==
  /\ wpc = "drain"
  /\ queue_ = <<>>
  /\ wpc' = "clock"
  /\ UNCHANGED <<coreVars, queue_, active_, report_due, currentVars, histogramVars, logVars>>

-----------------------------------------------------------------------------
\* The first bucket at which the running sum reaches q thousandths of the samples,
\* rounded down; 0 when no bucket does, because the rest are outliers.  The loop's break
\* at p999 cuts nothing off: the smaller targets are reached no later.
total_samples == latency_outliers_ + SumFunction(latency_buckets_)
running_sum(i) == SumFunctionOnSet(latency_buckets_, 0 .. i)

\* As percentile_ns, but a bucket must exceed the target (mutant).
percentile_ns_strict(q) ==
  LET hit == {i \in Buckets : running_sum(i) > (total_samples * q) \div 1000}
  IN  IF total_samples = 0 \/ hit = {} THEN 0 ELSE Min(hit)

\* As percentile_ns, but the loop's end is the answer when no bucket hits (mutant).
percentile_ns_past_end(q) ==
  LET hit == {i \in Buckets : running_sum(i) >= (total_samples * q) \div 1000}
  IN  IF total_samples = 0 THEN 0 ELSE Min(hit \cup {NUM_BUCKETS})

percentile_ns(q) ==
  LET hit == {i \in Buckets : running_sum(i) >= (total_samples * q) \div 1000}
  IN  IF total_samples = 0 \/ hit = {} THEN 0 ELSE Min(hit)

\* 250 ms have passed since the last report: the next look at the clock sees it.
Tick ==
  /\ ~report_due /\ wpc \notin {"done", "failed"}
  /\ report_due' = TRUE
  /\ UNCHANGED <<coreVars, queue_, active_, wpc, currentVars, histogramVars, logVars>>

\* hits / orders is the pool's hit rate, and 1 when there are no orders.  The refused orders
\* are no part of total_orders, so the difference wraps when they are more.  samples is
\* history: how many latencies the line is about.
Line ==
  [orders |-> current_orders, delta |-> (current_orders - last_orders) % U64,
   hits |-> IF current_orders > 0 THEN (current_orders - current_failures) % U64 ELSE 0,
   p50 |-> percentile_ns(500), p99 |-> percentile_ns(990), p999 |-> percentile_ns(999),
   backpressure |-> backpressure_events_, samples |-> Len(samples)]

\* As Report, but the base of the next delta is not moved (mutant).
Report_keeps_base ==
  /\ wpc = "clock" /\ report_due
  /\ wpc' = "test" /\ report_due' = FALSE
  /\ line' = Line /\ logged' = logged + Line.delta
  /\ UNCHANGED <<coreVars, queue_, active_, currentVars, histogramVars, last_orders>>

Report ==
  /\ wpc = "clock" /\ report_due
  /\ wpc' = "test" /\ report_due' = FALSE
  /\ line' = Line /\ logged' = logged + Line.delta
  /\ last_orders' = current_orders
  /\ UNCHANGED <<coreVars, queue_, active_, currentVars, histogramVars>>

NoReport ==
  /\ wpc = "clock" /\ ~report_due
  /\ wpc' = "test"
  /\ UNCHANGED <<coreVars, queue_, active_, report_due, currentVars, histogramVars, logVars>>

logging_loop == OpenFails \/ Open \/ TestActive \/ DrainOne \/ DrainEnds \/ Report \/ NoReport

\* The main thread, with the core joined, tells the worker to stop; then it joins it.
shutdown ==
  /\ active_
  /\ active_' = FALSE
  /\ UNCHANGED <<coreVars, queue_, wpc, report_due, currentVars, histogramVars, logVars>>

Joined == ~active_ /\ wpc \in {"done", "failed"} /\ UNCHANGED vars

Next == core_thread \/ logging_loop \/ Tick \/ shutdown \/ Joined

\* The worker's thread runs (EngineScheduling says when), and time passes.
Fairness == WF_vars(logging_loop) /\ WF_vars(Tick)

Spec == Init /\ [][Next]_vars /\ Fairness

-----------------------------------------------------------------------------
\* The k-th smallest of the latencies s, or 0 when k is 0 or the latency is an outlier.
OrderStatistic(s, k) ==
  LET kth == Min({s[i] : i \in {j \in 1 .. Len(s) :
                    Cardinality({l \in 1 .. Len(s) : s[l] <= s[j]}) >= k}})
  IN  IF k = 0 \/ kth >= NUM_BUCKETS THEN 0 ELSE kth

\* No bucket has taken as many of the latencies s as make it wrap.
At(s, v) == {i \in 1 .. Len(s) : s[i] = v}
Fits(s) == \A v \in Buckets : Cardinality(At(s, v)) < U32

\* The percentiles of a line, which the report loop finds by a running sum over the
\* histogram, are the order statistics of the latencies drained so far: nothing is lost
\* or counted twice on the way from a snapshot to the histogram, however the core's pushes
\* fall between the drains.  A percentile that is an outlier shows as 0.  This holds until
\* the 32 bits of a bucket (MetricsWorker.hpp, 26) wrap: from then on its samples are lost.
PercentileIsOrderStatistic ==
  LET n == line.samples
      s == SubSeq(samples, 1, n)
  IN  n > 0 /\ Fits(s) => /\ line.p50 = OrderStatistic(s, (n * 500) \div 1000)
                          /\ line.p99 = OrderStatistic(s, (n * 990) \div 1000)
                          /\ line.p999 = OrderStatistic(s, (n * 999) \div 1000)

\* The throughputs logged add up to the orders of the last line: dropped snapshots and
\* reports without new data neither lose orders nor count them twice, and no unsigned
\* difference wraps, because snapshots arrive in order.
ThroughputAddsUp == logged = line.orders

\* Every snapshot in the queue is counted in some line, unless the worker could not open
\* its log or is shut down first: it makes no last drain or report.
EverySnapshotLogged ==
  \A n \in 1 .. MaxSnapshots :
    Len(samples) + Len(queue_) >= n ~> line.samples >= n \/ ~active_ \/ wpc = "failed"
=============================================================================
