------------------------ MODULE MetricsWorkerProofs -------------------------
(***************************************************************************)
(* Theorems about MetricsWorker for every size of the queue and of the     *)
(* histogram, any batches and any number of snapshots.                     *)
(***************************************************************************)
EXTENDS MetricsWorker, DataLemmas

-----------------------------------------------------------------------------
(***************************************************************************)
(* The inductive invariant.                                                *)
(***************************************************************************)

\* The core's counters: a snapshot adds at most BATCH_WINDOW orders to them.
CountersInv ==
  /\ total_orders \in Nat /\ pool_failures \in Nat /\ taken \in 0 .. MaxSnapshots
  /\ total_orders <= BATCH_WINDOW * taken

\* The counters only grow, so the worker's copies, the packets in the queue and the core's
\* own are in order.
QueueInv ==
  /\ queue_ \in Seq(MetricsPackets) /\ Len(queue_) <= MetricsCapacity
  /\ current_orders \in Nat /\ current_failures \in Nat /\ last_orders \in Nat
  /\ last_orders <= current_orders
  /\ current_orders <= total_orders /\ current_failures <= pool_failures
  /\ \A i \in 1 .. Len(queue_) :
       /\ current_orders <= queue_[i].orders /\ queue_[i].orders <= total_orders
       /\ current_failures <= queue_[i].failures /\ queue_[i].failures <= pool_failures
  /\ \A i, j \in 1 .. Len(queue_) : i <= j =>
       queue_[i].orders <= queue_[j].orders /\ queue_[i].failures <= queue_[j].failures

\* The histogram counts the latencies drained, as long as no bucket wraps.
UpTo(s, v) == {l \in 1 .. Len(s) : s[l] <= v}
CountsAll ==
  /\ \A v \in Buckets : latency_buckets_[v] = Cardinality(At(samples, v))
  /\ total_samples = Len(samples)
  /\ \A i \in Buckets : running_sum(i) = Cardinality(UpTo(samples, i))
HistogramInv ==
  /\ samples \in Seq(Nat)
  /\ latency_buckets_ \in [Buckets -> 0 .. U32 - 1] /\ latency_outliers_ \in Nat
  /\ backpressure_events_ \in 0 .. Len(samples)
  /\ Fits(samples) => CountsAll

\* The last line and the sum of the logged throughputs agree with the base of the next.
LineInv ==
  /\ logged = last_orders /\ line.orders = last_orders
  /\ DOMAIN line = DOMAIN NoLine /\ {line.p50, line.p99, line.p999} \subseteq Buckets
  /\ line.hits \in 0 .. U64 - 1 /\ line.delta \in 0 .. U64 - 1
  /\ line.samples \in 0 .. Len(samples)
  /\ PercentileIsOrderStatistic

PcInv ==
  /\ active_ \in BOOLEAN /\ report_due \in BOOLEAN
  /\ wpc \in {"open", "test", "drain", "clock", "done", "failed"}

WorkerInv == CountersInv /\ QueueInv /\ HistogramInv /\ LineInv /\ PcInv

\* What PercentileIsOrderStatistic says, of the line l and the latencies s.
LineMatches(l, s) ==
  l.samples > 0 /\ Fits(s) => /\ l.p50 = OrderStatistic(s, (l.samples * 500) \div 1000)
                              /\ l.p99 = OrderStatistic(s, (l.samples * 990) \div 1000)
                              /\ l.p999 = OrderStatistic(s, (l.samples * 999) \div 1000)

\* It is that, before and after a step.
LEMMA LineMatchesOK ==
  /\ PercentileIsOrderStatistic <=> LineMatches(line, SubSeq(samples, 1, line.samples))
  /\ PercentileIsOrderStatistic' <=> LineMatches(line', SubSeq(samples', 1, line'.samples))
BY Zenon DEF PercentileIsOrderStatistic, LineMatches

\* What the assumptions say of each constant.
LEMMA Constants ==
  /\ MetricsCapacity \in Nat \ {0} /\ BATCH_WINDOW \in Nat \ {0}
  /\ NUM_BUCKETS \in Nat \ {0} /\ U32 \in Nat \ {0} /\ U64 \in Nat \ {0}
  /\ MaxSnapshots \in Nat
  /\ BATCH_WINDOW * MaxSnapshots < U64
BY MetricsAssumption, CountersFit

-----------------------------------------------------------------------------
(***************************************************************************)
(* Order statistics.  The number of latencies up to v reaches k exactly    *)
(* when v reaches the k-th smallest latency, so looking for the first such *)
(* bucket finds it.                                                        *)
(***************************************************************************)

\* A sequence has as many places as it is long.
LEMMA IndexCount ==
  ASSUME NEW s \in Seq(Nat)
  PROVE  IsFiniteSet(1 .. Len(s)) /\ Cardinality(1 .. Len(s)) = Len(s)
<1>1. Len(s) \in Nat OBVIOUS
<1>2. /\ IsFiniteSet(1 .. Len(s))
      /\ Cardinality(1 .. Len(s)) = IF 1 > Len(s) THEN 0 ELSE Len(s) - 1 + 1
  BY SMTT(30), <1>1, FS_Interval
<1> QED BY ONLY <1>1, <1>2

\* The latencies up to a value are finitely many, and more for a larger value.
LEMMA UpToCount ==
  ASSUME NEW s \in Seq(Nat)
  PROVE  /\ \A v \in Nat : /\ IsFiniteSet(UpTo(s, v))
                           /\ Cardinality(UpTo(s, v)) \in Nat
                           /\ Cardinality(UpTo(s, v)) <= Len(s)
         /\ \A v, w \in Nat : v <= w => Cardinality(UpTo(s, v)) <= Cardinality(UpTo(s, w))
<1>1. IsFiniteSet(1 .. Len(s)) /\ Cardinality(1 .. Len(s)) = Len(s) BY IndexCount
<1>2. ASSUME NEW v \in Nat
      PROVE  /\ IsFiniteSet(UpTo(s, v)) /\ Cardinality(UpTo(s, v)) \in Nat
             /\ Cardinality(UpTo(s, v)) <= Len(s)
  <2>1. UpTo(s, v) \in SUBSET (1 .. Len(s)) BY DEF UpTo
  <2>2. IsFiniteSet(UpTo(s, v)) /\ Cardinality(UpTo(s, v)) <= Cardinality(1 .. Len(s))
    BY Zenon, <1>1, <2>1, FS_Subset
  <2> QED BY Zenon, <1>1, <2>2, FS_CardinalityType
<1>3. ASSUME NEW v \in Nat, NEW w \in Nat, v <= w
      PROVE  Cardinality(UpTo(s, v)) <= Cardinality(UpTo(s, w))
  <2>1. \A l \in 1 .. Len(s) : s[l] \in Nat OBVIOUS
  <2>2. UpTo(s, v) \in SUBSET UpTo(s, w) BY <1>3, <2>1 DEF UpTo
  <2> QED BY Zenon, <1>2, <2>2, FS_Subset
<1> QED BY Zenon, <1>2, <1>3

\* The k-th smallest latency m: k latencies are at most v exactly when v is at least m.
LEMMA KthSmallest ==
  ASSUME NEW s \in Seq(Nat), NEW k \in 1 .. Len(s)
  PROVE  \E m \in Nat :
           /\ \A v \in Nat : Cardinality(UpTo(s, v)) >= k <=> m <= v
           /\ OrderStatistic(s, k) = IF m >= NUM_BUCKETS THEN 0 ELSE m
<1> DEFINE C(v) == Cardinality(UpTo(s, v))
           M == {v \in Nat : C(v) >= k}
<1>1. /\ Len(s) \in Nat /\ k \in Nat /\ k > 0 /\ k <= Len(s)
      /\ \A l \in 1 .. Len(s) : s[l] \in Nat
  OBVIOUS
<1>2. /\ \A v \in Nat : C(v) \in Nat
      /\ \A v, w \in Nat : v <= w => C(v) <= C(w)
  BY Zenon, UpToCount
<1>3. M \in SUBSET Nat /\ M # {}
  <2> DEFINE R == {s[l] : l \in 1 .. Len(s)}
  <2>1. R \in SUBSET Nat BY <1>1
  <2>2. IsFiniteSet(R)
    <3>1. s \in Surjection(1 .. Len(s), R) BY <1>1 DEF Surjection
    <3>2. IsFiniteSet(1 .. Len(s)) BY IndexCount
    <3> HIDE DEF R
    <3> QED BY <3>1, <3>2, FS_Surjection
  <2> HIDE DEF R
  <2>3. PICK top \in Nat : \A x \in R : x <= top BY Zenon, <2>1, <2>2, FiniteIsBounded
  <2>4. UpTo(s, top) = 1 .. Len(s) BY <2>3 DEF UpTo, R
  <2>5. C(top) = Len(s)
    <3>1. Cardinality(1 .. Len(s)) = Len(s) BY IndexCount
    <3> QED BY Zenon, <2>4, <3>1
  <2>6. C(top) >= k BY ONLY <1>1, <2>5
  <2> HIDE DEF C
  <2> QED BY <2>6
<1>4. PICK m \in M : \A v \in M : m <= v
  <2> HIDE DEF M
  <2> QED BY <1>3, LeastNumber
<1>5. m \in Nat /\ C(m) >= k /\ \A v \in Nat : C(v) >= k => m <= v
  <2> HIDE DEF C
  <2> QED BY <1>4
<1>6. ASSUME NEW v \in Nat PROVE C(v) >= k <=> m <= v
  <2> HIDE DEF C
  <2>1. m <= v => C(m) <= C(v) BY Zenon, <1>2, <1>5
  <2>2. C(m) \in Nat /\ C(v) \in Nat BY Zenon, <1>2, <1>5
  <2> QED BY <1>1, <1>5, <2>1, <2>2
<1>7. PICK j \in 1 .. Len(s) : s[j] = m
  <2> SUFFICES ASSUME \A l \in 1 .. Len(s) : s[l] # m PROVE FALSE OBVIOUS
  <2>1. CASE m = 0
    <3>1. UpTo(s, m) = {} BY <1>1, <2>1 DEF UpTo
    <3>2. C(m) = 0 BY Zenon, <3>1, FS_EmptySet
    <3> QED BY ONLY <1>1, <1>5, <3>2
  <2>2. CASE m # 0
    <3>1. m - 1 \in Nat /\ ~(m <= m - 1) BY <1>5, <2>2
    <3>2. UpTo(s, m) = UpTo(s, m - 1) BY <1>1, <1>5, <3>1 DEF UpTo
    <3>3. C(m) = C(m - 1) BY Zenon, <3>2
    <3> QED BY Zenon, <1>5, <3>1, <3>3
  <2> QED BY <2>1, <2>2
<1> DEFINE V == {s[i] : i \in {l \in 1 .. Len(s) :
                                 Cardinality({h \in 1 .. Len(s) : s[h] <= s[l]}) >= k}}
<1>8. V = {s[i] : i \in {l \in 1 .. Len(s) : C(s[l]) >= k}} BY Zenon DEF UpTo
<1>9. V \in SUBSET Nat /\ m \in V /\ \A x \in V : m <= x
  <2> HIDE DEF C, V
  <2> QED BY <1>1, <1>5, <1>7, <1>8
<1>10. Min(V) = m
  <2> HIDE DEF V
  <2> QED BY Zenon, <1>9, LeastIsMin DEF Min
<1>11. k # 0 BY <1>1
<1>12. OrderStatistic(s, k) = IF m >= NUM_BUCKETS THEN 0 ELSE m
  BY Zenon, <1>10, <1>11 DEF OrderStatistic
<1> QED BY Zenon, <1>5, <1>6, <1>12

\* The rank that a percentile asks for.
LEMMA RankOK ==
  ASSUME NEW n \in Nat, NEW q \in {500, 990, 999}
  PROVE  (n * q) \div 1000 \in Nat /\ (n * q) \div 1000 <= n
<1>1. CASE q = 500 BY <1>1
<1>2. CASE q = 990 BY <1>2
<1>3. CASE q = 999 BY <1>3
<1> QED BY <1>1, <1>2, <1>3

\* A percentile is a bucket, whatever the histogram holds.
LEMMA PercentileType ==
  ASSUME NEW q
  PROVE  percentile_ns(q) \in Buckets
<1> DEFINE hit == {i \in Buckets : running_sum(i) >= (total_samples * q) \div 1000}
<1>1. hit \in SUBSET Buckets OBVIOUS
<1>2. percentile_ns(q) = IF total_samples = 0 \/ hit = {} THEN 0 ELSE Min(hit)
  BY Zenon DEF percentile_ns
<1> HIDE DEF hit
<1>3. Buckets \in SUBSET Nat /\ 0 \in Buckets BY Constants DEF Buckets
<1>4. ASSUME hit # {} PROVE Min(hit) \in hit
  <2>1. hit \in SUBSET Nat BY <1>1, <1>3
  <2>2. PICK m \in hit : \A x \in hit : m <= x BY Zenon, <1>4, <2>1, LeastNumber
  <2>3. Min(hit) = m BY Zenon, <2>1, <2>2, LeastIsMin DEF Min
  <2> QED BY <2>2, <2>3
<1>5. CASE total_samples = 0 \/ hit = {} BY Zenon, <1>2, <1>3, <1>5
<1>6. CASE ~(total_samples = 0 \/ hit = {}) BY Zenon, <1>1, <1>2, <1>4, <1>6
<1> QED BY Zenon, <1>5, <1>6

\* The running sum over the histogram finds the order statistic.
LEMMA PercentileOK ==
  ASSUME samples \in Seq(Nat), CountsAll, NEW q \in {500, 990, 999}, Len(samples) > 0
  PROVE  percentile_ns(q) = OrderStatistic(samples, (Len(samples) * q) \div 1000)
<1> DEFINE k == (total_samples * q) \div 1000
           hit == {i \in Buckets : running_sum(i) >= k}
<1>1. /\ samples \in Seq(Nat) /\ Len(samples) \in Nat /\ total_samples = Len(samples)
      /\ NUM_BUCKETS \in Nat \ {0} /\ Buckets \in SUBSET Nat /\ 0 \in Buckets
      /\ \A i \in Nat : i \in Buckets <=> i < NUM_BUCKETS
  BY Constants DEF CountsAll, Buckets
<1>2. k = (Len(samples) * q) \div 1000 /\ k \in Nat /\ k <= Len(samples)
  <2>1. k = (Len(samples) * q) \div 1000 BY ZenonT(40), <1>1
  <2>2. /\ (Len(samples) * q) \div 1000 \in Nat
        /\ (Len(samples) * q) \div 1000 <= Len(samples)
    BY ONLY <1>1, RankOK, q \in {500, 990, 999}
  <2> HIDE DEF k
  <2> QED BY ONLY <2>1, <2>2
<1>3. percentile_ns(q) = IF total_samples = 0 \/ hit = {} THEN 0 ELSE Min(hit)
  BY ZenonT(40) DEF percentile_ns
<1>4. /\ total_samples = 0 => percentile_ns(q) = 0
      /\ hit = {} => percentile_ns(q) = 0
      /\ total_samples # 0 /\ hit # {} => percentile_ns(q) = Min(hit)
  <2> HIDE DEF hit
  <2> QED BY <1>3
<1> HIDE DEF k
<1> SUFFICES percentile_ns(q) = OrderStatistic(samples, k) BY <1>2
<1>5. hit = {i \in Buckets : Cardinality(UpTo(samples, i)) >= k}
  <2>1. \A i \in Buckets : running_sum(i) = Cardinality(UpTo(samples, i))
    BY ZenonT(40) DEF CountsAll
  <2> QED BY <2>1
<1>6. hit \in SUBSET Nat BY ZenonT(40), <1>1
<1>7. CASE k = 0
  <2>1. 0 \in hit /\ \A x \in hit : 0 <= x
    <3>1. Cardinality(UpTo(samples, 0)) \in Nat BY ZenonT(40), <1>1, UpToCount
    <3> QED BY <1>1, <1>5, <1>6, <1>7, <3>1
  <2> HIDE DEF hit
  <2>2. Min(hit) = 0 BY ZenonT(40), <1>6, <2>1, LeastIsMin DEF Min
  <2>3. percentile_ns(q) = 0 BY Zenon, <1>4, <2>2
  <2>4. OrderStatistic(samples, k) = 0 BY ZenonT(40), <1>7 DEF OrderStatistic
  <2> QED BY <1>1, <2>3, <2>4
<1>8. CASE k # 0
  <2>1. k \in 1 .. Len(samples) BY <1>1, <1>2, <1>8
  <2>2. PICK m \in Nat :
          /\ \A v \in Nat : Cardinality(UpTo(samples, v)) >= k <=> m <= v
          /\ OrderStatistic(samples, k) = IF m >= NUM_BUCKETS THEN 0 ELSE m
    BY ZenonT(40), <1>1, <2>1, KthSmallest
  <2>3. hit = {i \in Buckets : m <= i} BY ZenonT(40), <1>1, <1>5, <2>2
  <2>4. total_samples # 0 BY <1>1, <2>1
  <2> HIDE DEF hit
  <2>5. CASE m >= NUM_BUCKETS
    <3>1. \A i \in Buckets : ~(m <= i) BY <1>1, <2>5
    <3>2. hit = {} BY <2>3, <3>1
    <3>3. OrderStatistic(samples, k) = 0 BY <2>2, <2>5
    <3> QED BY <1>1, <1>4, <3>2, <3>3
  <2>6. CASE ~(m >= NUM_BUCKETS)
    <3>1. m \in Buckets BY <1>1, <2>6
    <3>2. m \in hit /\ \A x \in hit : m <= x BY <1>1, <2>3, <3>1
    <3>3. Min(hit) = m BY ZenonT(40), <1>6, <3>2, LeastIsMin DEF Min
    <3>4. OrderStatistic(samples, k) = m BY <2>2, <2>6
    <3> QED BY <1>4, <2>4, <3>1, <3>2, <3>3, <3>4
  <2> QED BY <2>5, <2>6
<1> QED BY <1>7, <1>8

-----------------------------------------------------------------------------
(***************************************************************************)
(* The steps.                                                              *)
(***************************************************************************)

\* The histogram has finitely many buckets, and so has a part of it.
LEMMA BucketsFinite ==
  IsFiniteSet(Buckets) /\ \A i \in Buckets : IsFiniteSet(0 .. i) /\ 0 .. i \in SUBSET Buckets
<1>1. NUM_BUCKETS - 1 \in Int /\ Buckets \in SUBSET Int BY Constants DEF Buckets
<1>2. IsFiniteSet(Buckets) BY <1>1, FS_Interval DEF Buckets
<1>3. ASSUME NEW i \in Buckets PROVE 0 .. i \in SUBSET Buckets BY Constants DEF Buckets
<1> QED BY Zenon, <1>2, <1>3, FS_Subset

\* The worker starts with an empty histogram, and the first line is to come.
LEMMA WorkerInit == Init => WorkerInv
<1> SUFFICES ASSUME Init PROVE WorkerInv OBVIOUS
<1>1. CountersInv BY Constants DEF Init, CountersInv
<1>2. QueueInv BY Constants DEF Init, QueueInv
<1>3. PcInv BY Zenon DEF Init, PcInv
<1>4. HistogramInv
  <2>1. /\ samples = <<>> /\ samples \in Seq(Nat) /\ Len(samples) = 0
        /\ latency_outliers_ = 0 /\ backpressure_events_ = 0
        /\ latency_buckets_ \in [Buckets -> 0 .. U32 - 1]
        /\ \A i \in Buckets : latency_buckets_[i] = 0
    BY Constants DEF Init
  <2>2. total_samples = Len(samples)
    <3>1. SumFunctionOnSet(latency_buckets_, Buckets) = 0
      BY Zenon, <2>1, BucketsFinite, SumOfZeros
    <3>2. SumFunction(latency_buckets_) = 0 BY Zenon, <2>1, <3>1 DEF SumFunction
    <3> QED BY <2>1, <3>2 DEF total_samples
  <2>3. ASSUME NEW i \in Buckets PROVE running_sum(i) = Cardinality(UpTo(samples, i))
    <3>1. running_sum(i) = 0 BY Zenon, <2>1, BucketsFinite, SumOfZeros DEF running_sum
    <3>2. UpTo(samples, i) = {} BY <2>1 DEF UpTo
    <3> QED BY Zenon, <3>1, <3>2, FS_EmptySet
  <2>4. ASSUME NEW v \in Buckets PROVE latency_buckets_[v] = Cardinality(At(samples, v))
    <3>1. At(samples, v) = {} BY <2>1 DEF At
    <3> QED BY Zenon, <2>1, <3>1, FS_EmptySet
  <2>5. CountsAll BY Zenon, <2>2, <2>3, <2>4 DEF CountsAll
  <2> QED BY <2>1, <2>5 DEF HistogramInv
<1>5. LineInv
  <2>1. /\ line = NoLine /\ logged = 0 /\ last_orders = 0 /\ Len(samples) = 0
    BY DEF Init
  <2>2. /\ line.orders = 0 /\ line.samples = 0 /\ line.hits = 0 /\ line.delta = 0
        /\ line.p50 = 0 /\ line.p99 = 0 /\ line.p999 = 0
    BY <2>1 DEF NoLine
  <2>3. 0 \in Buckets /\ 0 \in 0 .. U64 - 1 /\ ~(0 > 0) BY Constants DEF Buckets
  <2>4. PercentileIsOrderStatistic BY <2>2 DEF PercentileIsOrderStatistic
  <2> QED BY <2>1, <2>2, <2>3, <2>4 DEF LineInv
<1> QED BY Zenon, <1>1, <1>2, <1>3, <1>4, <1>5 DEF WorkerInv

\* A step that drains nothing leaves the histogram as it is.
LEMMA HistogramFrame ==
  ASSUME HistogramInv, UNCHANGED histogramVars
  PROVE  HistogramInv'
<1>1. UNCHANGED <<latency_buckets_, latency_outliers_, backpressure_events_, samples>>
  BY DEF histogramVars
<1>2. total_samples' = total_samples BY Zenon, <1>1 DEF total_samples
<1>3. ASSUME NEW i \in Buckets PROVE running_sum(i)' = running_sum(i)
  BY Zenon, <1>1 DEF running_sum
<1>4. \A i \in Buckets : UpTo(samples, i)' = UpTo(samples, i) BY Zenon, <1>1 DEF UpTo
<1>5. \A v \in Buckets : At(samples, v)' = At(samples, v) BY Zenon, <1>1 DEF At
<1>6. Fits(samples)' <=> Fits(samples) BY Zenon, <1>1, <1>5 DEF Fits
<1>7. CountsAll => CountsAll' BY Zenon, <1>1, <1>2, <1>3, <1>4, <1>5 DEF CountsAll
<1> QED BY Zenon, <1>1, <1>6, <1>7 DEF HistogramInv

\* A step that logs and drains nothing leaves the log as it is.
LEMMA LineFrame ==
  ASSUME LineInv, UNCHANGED <<logVars, samples>>
  PROVE  LineInv'
<1>1. UNCHANGED <<last_orders, line, logged, samples>> BY DEF logVars
<1>2. PercentileIsOrderStatistic' BY <1>1 DEF LineInv, PercentileIsOrderStatistic
<1> QED BY Zenon, <1>1, <1>2 DEF LineInv

\* The steps of the loop's control, the clock and the main thread.
LEMMA QuietOK ==
  ASSUME WorkerInv,
         \/ OpenFails \/ Open \/ TestActive \/ DrainEnds \/ NoReport \/ Tick \/ shutdown
         \/ UNCHANGED vars
  PROVE  WorkerInv'
<1>1. UNCHANGED <<coreVars, queue_, currentVars, histogramVars, logVars>>
  BY Zenon DEF OpenFails, Open, TestActive, DrainEnds, NoReport, Tick, shutdown, vars
<1>2. PcInv'
  BY Zenon DEF WorkerInv, PcInv, OpenFails, Open, TestActive, DrainEnds, NoReport, Tick,
               shutdown, vars
<1>3. CountersInv' BY Zenon, <1>1 DEF WorkerInv, CountersInv, coreVars
<1>4. QueueInv' BY Zenon, <1>1 DEF WorkerInv, QueueInv, coreVars, currentVars, logVars
<1>5. HistogramInv' BY Zenon, <1>1, HistogramFrame DEF WorkerInv
<1>6. LineInv' BY Zenon, <1>1, LineFrame DEF WorkerInv, histogramVars
<1> QED BY Zenon, <1>2, <1>3, <1>4, <1>5, <1>6 DEF WorkerInv

\* The counters in a packet.
LEMMA PacketNumbers ==
  ASSUME QueueInv
  PROVE  \A i \in 1 .. Len(queue_) :
           /\ queue_[i].orders \in Nat /\ queue_[i].failures \in Nat
           /\ queue_[i].cycles \in Nat /\ queue_[i].backpressure \in BOOLEAN
<1>1. TAKE i \in 1 .. Len(queue_)
<1>2. queue_[i] \in MetricsPackets BY DEF QueueInv
<1> QED BY Zenon, <1>2 DEF MetricsPackets

\* The core's snapshot goes to the end of the queue with the largest counters so far.
LEMMA SnapshotOK ==
  ASSUME WorkerInv, core_thread
  PROVE  WorkerInv'
<1>1. PICK b \in Batches : Snapshot(b[1], b[2], b[3], b[4]) BY DEF core_thread
<1> DEFINE packet == [backpressure |-> pool_failures' > 0 \/ b[4], cycles |-> b[3],
                      orders |-> total_orders', failures |-> pool_failures']
<1>2. /\ b[1] \in Nat /\ b[2] \in Nat /\ b[3] \in Nat /\ b[4] \in BOOLEAN
      /\ b[1] + b[2] <= BATCH_WINDOW
  BY MetricsAssumption
<1>3. /\ taken < MaxSnapshots /\ taken' = taken + 1
      /\ total_orders' = total_orders + b[1] /\ pool_failures' = pool_failures + b[2]
      /\ queue_' = IF Len(queue_) < MetricsCapacity THEN Append(queue_, packet) ELSE queue_
      /\ UNCHANGED <<active_, wpc, report_due, currentVars, histogramVars, logVars>>
  BY Zenon, <1>1 DEF Snapshot
<1>4. /\ total_orders \in Nat /\ pool_failures \in Nat /\ taken \in Nat /\ taken <= MaxSnapshots
      /\ total_orders <= BATCH_WINDOW * taken
  BY Constants DEF WorkerInv, CountersInv
<1>5. /\ total_orders' \in Nat /\ total_orders <= total_orders'
      /\ pool_failures' \in Nat /\ pool_failures <= pool_failures'
  <2>1. total_orders' = total_orders + b[1] /\ pool_failures' = pool_failures + b[2]
    BY Zenon, <1>3
  <2> QED BY ONLY <1>2, <1>4, <2>1
<1>6. CountersInv'
  <2>1. taken' \in 0 .. MaxSnapshots BY <1>3, <1>4, Constants
  <2>2. BATCH_WINDOW * (taken + 1) = BATCH_WINDOW * taken + BATCH_WINDOW
        /\ BATCH_WINDOW * taken \in Nat
    BY <1>4, Constants
  <2>3. total_orders' <= BATCH_WINDOW * taken'
    <3>1. b[1] <= BATCH_WINDOW BY <1>2, Constants
    <3> QED BY <1>2, <1>3, <1>4, <2>2, <3>1, Constants
  <2> QED BY Zenon, <1>5, <2>1, <2>3 DEF CountersInv
<1>7. packet \in MetricsPackets /\ packet.orders = total_orders' /\ packet.failures = pool_failures'
  BY <1>2, <1>5 DEF MetricsPackets
<1> HIDE DEF packet
<1>8. QueueInv'
  <2>1. UNCHANGED <<current_orders, current_failures, last_orders>>
    BY Zenon, <1>3 DEF currentVars, logVars
  <2>2. CASE ~(Len(queue_) < MetricsCapacity)
    <3>1. queue_' = queue_ BY <1>3, <2>2
    <3>2. \A i \in 1 .. Len(queue_) : queue_[i].orders \in Nat /\ queue_[i].failures \in Nat
      BY Zenon, PacketNumbers DEF WorkerInv
    <3>3. QueueInv BY DEF WorkerInv
    <3> QED BY ONLY SMTT(30), <1>4, <1>5, <2>1, <3>1, <3>2, <3>3 DEF QueueInv
  <2>3. CASE Len(queue_) < MetricsCapacity
    <3>1. queue_' = Append(queue_, packet) BY <1>3, <2>3
    <3>2. queue_ \in Seq(MetricsPackets) /\ Len(queue_) \in Nat BY DEF WorkerInv, QueueInv
    <3>3. /\ queue_' \in Seq(MetricsPackets) /\ Len(queue_') = Len(queue_) + 1
          /\ queue_'[Len(queue_) + 1] = packet
          /\ \A i \in 1 .. Len(queue_) : queue_'[i] = queue_[i]
      BY <1>7, <3>1, <3>2
    <3>4. \A i \in 1 .. Len(queue_') : i \in 1 .. Len(queue_) \/ i = Len(queue_) + 1
      BY <3>2, <3>3
    <3>5. \A i \in 1 .. Len(queue_) : queue_[i].orders \in Nat /\ queue_[i].failures \in Nat
      BY Zenon, PacketNumbers DEF WorkerInv
    <3>6. ASSUME NEW i \in 1 .. Len(queue_')
          PROVE  /\ current_orders <= queue_'[i].orders /\ queue_'[i].orders <= total_orders'
                 /\ current_failures <= queue_'[i].failures
                 /\ queue_'[i].failures <= pool_failures'
      <4>1. CASE i \in 1 .. Len(queue_)
        <5>1. /\ current_orders <= queue_[i].orders /\ queue_[i].orders <= total_orders
              /\ current_failures <= queue_[i].failures /\ queue_[i].failures <= pool_failures
          BY Zenon, <4>1 DEF WorkerInv, QueueInv
        <5>2. queue_'[i] = queue_[i] /\ queue_[i].orders \in Nat /\ queue_[i].failures \in Nat
          BY Zenon, <3>3, <3>5, <4>1
        <5> QED BY ONLY SMTT(30), <1>4, <1>5, <5>1, <5>2
      <4>2. CASE i = Len(queue_) + 1
        <5>1. current_orders <= total_orders /\ current_failures <= pool_failures
              /\ current_orders \in Nat /\ current_failures \in Nat
          BY Zenon DEF WorkerInv, QueueInv
        <5>2. queue_'[i].orders = total_orders' /\ queue_'[i].failures = pool_failures'
          BY Zenon, <1>7, <3>3, <4>2
        <5> QED BY ONLY <1>4, <1>5, <5>1, <5>2
      <4> QED BY Zenon, <3>4, <4>1, <4>2
    <3>7. ASSUME NEW i \in 1 .. Len(queue_'), NEW j \in 1 .. Len(queue_'), i <= j
          PROVE  /\ queue_'[i].orders <= queue_'[j].orders
                 /\ queue_'[i].failures <= queue_'[j].failures
      <4>1. CASE j \in 1 .. Len(queue_)
        <5>1. i \in 1 .. Len(queue_) BY <3>2, <3>7, <4>1
        <5> QED BY Zenon, <3>3, <3>7, <4>1, <5>1 DEF WorkerInv, QueueInv
      <4>2. CASE j = Len(queue_) + 1 BY <1>7, <3>3, <3>6, <4>2
      <4> QED BY <3>4, <4>1, <4>2
    <3>8. Len(queue_') <= MetricsCapacity BY <2>3, <3>2, <3>3, Constants
    <3>9. /\ current_orders \in Nat /\ current_failures \in Nat /\ last_orders \in Nat
          /\ last_orders <= current_orders
          /\ current_orders <= total_orders' /\ current_failures <= pool_failures'
      BY <1>4, <1>5 DEF WorkerInv, QueueInv
    <3> QED BY Zenon, <2>1, <3>3, <3>6, <3>7, <3>8, <3>9 DEF QueueInv
  <2> QED BY <2>2, <2>3
<1>9. HistogramInv' BY Zenon, <1>3, HistogramFrame DEF WorkerInv
<1>10. LineInv' BY Zenon, <1>3, LineFrame DEF WorkerInv, histogramVars
<1>11. PcInv' BY Zenon, <1>3 DEF WorkerInv, PcInv
<1> QED BY Zenon, <1>6, <1>8, <1>9, <1>10, <1>11 DEF WorkerInv

\* One more latency is counted from its own value on.
LEMMA UpToAppend ==
  ASSUME NEW s \in Seq(Nat), NEW x \in Nat, NEW v \in Nat
  PROVE  Cardinality(UpTo(Append(s, x), v))
           = Cardinality(UpTo(s, v)) + (IF x <= v THEN 1 ELSE 0)
<1> DEFINE t == Append(s, x)
           n == Len(s)
<1>1. /\ n \in Nat /\ Len(t) = n + 1 /\ t[n + 1] = x
      /\ \A l \in 1 .. n : t[l] = s[l]
  OBVIOUS
<1> HIDE DEF t
<1>2. /\ IsFiniteSet(UpTo(s, v)) /\ Cardinality(UpTo(s, v)) \in Nat BY Zenon, UpToCount
<1>3. n + 1 \notin UpTo(s, v) BY <1>1 DEF UpTo
<1>4. CASE x <= v
  <2>1. UpTo(t, v) = UpTo(s, v) \cup {n + 1} BY <1>1, <1>4 DEF UpTo
  <2>2. Cardinality(UpTo(t, v)) = Cardinality(UpTo(s, v)) + 1
    BY Zenon, <1>2, <1>3, <2>1, FS_AddElement
  <2> QED BY <1>4, <2>2 DEF t
<1>5. CASE ~(x <= v)
  <2>1. UpTo(t, v) = UpTo(s, v) BY <1>1, <1>5 DEF UpTo
  <2>2. Cardinality(UpTo(t, v)) = Cardinality(UpTo(s, v)) + 0 BY <1>2, <2>1
  <2> QED BY <1>5, <2>2 DEF t
<1> QED BY <1>4, <1>5

\* One more latency is one more at its own value.
LEMMA AtAppend ==
  ASSUME NEW s \in Seq(Nat), NEW x \in Nat, NEW v \in Nat
  PROVE  /\ Cardinality(At(s, v)) \in Nat
         /\ Cardinality(At(Append(s, x), v))
              = Cardinality(At(s, v)) + (IF x = v THEN 1 ELSE 0)
<1> DEFINE t == Append(s, x)
           n == Len(s)
<1>1. /\ n \in Nat /\ Len(t) = n + 1 /\ t[n + 1] = x
      /\ \A l \in 1 .. n : t[l] = s[l]
  OBVIOUS
<1> HIDE DEF t
<1>2. IsFiniteSet(At(s, v)) /\ Cardinality(At(s, v)) \in Nat
  <2>1. At(s, v) \in SUBSET (1 .. Len(s)) BY Zenon DEF At
  <2>2. IsFiniteSet(1 .. Len(s)) BY IndexCount
  <2> QED BY Zenon, <2>1, <2>2, FS_Subset, FS_CardinalityType
<1>3. n + 1 \notin At(s, v) BY <1>1 DEF At
<1>4. CASE x = v
  <2>1. At(t, v) = At(s, v) \cup {n + 1} BY <1>1, <1>4 DEF At
  <2>2. Cardinality(At(t, v)) = Cardinality(At(s, v)) + 1
    BY Zenon, <1>2, <1>3, <2>1, FS_AddElement
  <2> QED BY <1>2, <1>4, <2>2 DEF t
<1>5. CASE x # v
  <2>1. At(t, v) = At(s, v) BY <1>1, <1>5 DEF At
  <2>2. Cardinality(At(t, v)) = Cardinality(At(s, v)) + 0 BY <1>2, <2>1
  <2> QED BY <1>2, <1>5, <2>2 DEF t
<1> QED BY <1>4, <1>5

\* What is drained: the first packet, whose latency is a number of nanoseconds.
LEMMA DrainedPacket ==
  ASSUME QueueInv, queue_ # <<>>
  PROVE  /\ 1 \in 1 .. Len(queue_) /\ Head(queue_) = queue_[1]
         /\ Nanoseconds(Head(queue_).cycles) \in Nat
<1>1. queue_ \in Seq(MetricsPackets) BY DEF QueueInv
<1>2. 1 \in 1 .. Len(queue_) /\ Head(queue_) = queue_[1] BY <1>1
<1>3. Head(queue_).cycles \in Nat BY Zenon, <1>2, PacketNumbers
<1>4. \A c \in Nat : (c * 10) \div 36 \in Nat OBVIOUS
<1> QED BY Zenon, <1>2, <1>3, <1>4 DEF Nanoseconds

\* Draining takes the oldest packet, whose counters are the smallest in the queue.
LEMMA DrainQueue ==
  ASSUME CountersInv, QueueInv, DrainOne
  PROVE  QueueInv'
<1>1. /\ queue_ # <<>> /\ queue_' = Tail(queue_)
      /\ current_orders' = Head(queue_).orders /\ current_failures' = Head(queue_).failures
      /\ UNCHANGED <<total_orders, pool_failures, last_orders>>
  BY Zenon DEF DrainOne, coreVars, logVars
<1>2. /\ queue_ \in Seq(MetricsPackets) /\ Len(queue_) \in Nat
      /\ Len(queue_) <= MetricsCapacity
      /\ 1 \in 1 .. Len(queue_) /\ Head(queue_) = queue_[1]
  BY <1>1, DrainedPacket DEF QueueInv
<1>3. /\ queue_' \in Seq(MetricsPackets) /\ Len(queue_') = Len(queue_) - 1
      /\ \A i \in 1 .. Len(queue_') : queue_'[i] = queue_[i + 1] /\ i + 1 \in 1 .. Len(queue_)
  BY <1>1, <1>2
<1>4. \A i \in 1 .. Len(queue_) : queue_[i].orders \in Nat /\ queue_[i].failures \in Nat
  BY Zenon, PacketNumbers
<1>5. /\ current_orders' \in Nat /\ current_failures' \in Nat /\ last_orders' \in Nat
      /\ last_orders' <= current_orders'
      /\ current_orders' <= total_orders' /\ current_failures' <= pool_failures'
  <2>1. /\ current_orders <= queue_[1].orders /\ queue_[1].orders <= total_orders
        /\ queue_[1].failures <= pool_failures
        /\ queue_[1].orders \in Nat /\ queue_[1].failures \in Nat
    BY Zenon, <1>2, <1>4 DEF QueueInv
  <2>2. current_orders \in Nat /\ last_orders \in Nat /\ last_orders <= current_orders
    BY Zenon DEF QueueInv
  <2> QED BY ONLY <1>1, <1>2, <2>1, <2>2
<1>6. ASSUME NEW i \in 1 .. Len(queue_')
      PROVE  /\ current_orders' <= queue_'[i].orders /\ queue_'[i].orders <= total_orders'
             /\ current_failures' <= queue_'[i].failures
             /\ queue_'[i].failures <= pool_failures'
  <2>1. 1 <= i + 1 /\ queue_'[i] = queue_[i + 1] /\ i + 1 \in 1 .. Len(queue_)
    BY <1>2, <1>3
  <2> QED BY Zenon, <1>1, <1>2, <2>1 DEF QueueInv
<1>7. ASSUME NEW i \in 1 .. Len(queue_'), NEW j \in 1 .. Len(queue_'), i <= j
      PROVE  /\ queue_'[i].orders <= queue_'[j].orders
             /\ queue_'[i].failures <= queue_'[j].failures
  <2>1. i + 1 <= j + 1 BY <1>2, <1>3, <1>7
  <2> QED BY Zenon, <1>3, <2>1 DEF QueueInv
<1>8. Len(queue_') <= MetricsCapacity BY <1>2, <1>3, Constants
<1> QED BY Zenon, <1>3, <1>5, <1>6, <1>7, <1>8 DEF QueueInv

\* Draining adds the latency to the history, and to its bucket or to the outliers.
LEMMA Drained ==
  ASSUME QueueInv, HistogramInv, DrainOne
  PROVE  \E lat \in Nat :
           /\ samples' = Append(samples, lat)
           /\ samples' \in Seq(Nat) /\ Len(samples') = Len(samples) + 1
           /\ backpressure_events_' \in 0 .. Len(samples')
           /\ latency_buckets_' \in [Buckets -> 0 .. U32 - 1] /\ latency_outliers_' \in Nat
           /\ \/ /\ lat \in Buckets
                 /\ latency_buckets_' = [latency_buckets_ EXCEPT ![lat] = (@ + 1) % U32]
                 /\ latency_outliers_' = latency_outliers_
              \/ /\ ~(lat < NUM_BUCKETS)
                 /\ latency_buckets_' = latency_buckets_
                 /\ latency_outliers_' = latency_outliers_ + 1
<1> DEFINE lat == Nanoseconds(Head(queue_).cycles)
<1>1. /\ queue_ # <<>>
      /\ backpressure_events_' = backpressure_events_ + (IF Head(queue_).backpressure THEN 1 ELSE 0)
      /\ IF lat < NUM_BUCKETS
         THEN /\ latency_buckets_' = [latency_buckets_ EXCEPT ![lat] = (@ + 1) % U32]
              /\ latency_outliers_' = latency_outliers_
         ELSE /\ latency_outliers_' = latency_outliers_ + 1
              /\ latency_buckets_' = latency_buckets_
      /\ samples' = Append(samples, lat)
  BY Zenon DEF DrainOne
<1>2. lat \in Nat BY Zenon, <1>1, DrainedPacket
<1> HIDE DEF lat
<1>3. /\ samples \in Seq(Nat) /\ Len(samples) \in Nat
      /\ latency_buckets_ \in [Buckets -> 0 .. U32 - 1] /\ latency_outliers_ \in Nat
      /\ backpressure_events_ \in 0 .. Len(samples)
  BY DEF HistogramInv
<1>4. samples' \in Seq(Nat) /\ Len(samples') = Len(samples) + 1 BY <1>1, <1>2, <1>3
<1>5. backpressure_events_' \in 0 .. Len(samples')
  <2>1. backpressure_events_' \in {backpressure_events_, backpressure_events_ + 1}
    <3>1. backpressure_events_ + 0 = backpressure_events_ BY <1>3
    <3> QED BY <1>1, <3>1
  <2> QED BY ONLY <1>3, <1>4, <2>1
<1>6. CASE lat < NUM_BUCKETS
  <2>1. lat \in Buckets BY <1>2, <1>6, Constants DEF Buckets
  <2>2. /\ latency_buckets_' = [latency_buckets_ EXCEPT ![lat] = (@ + 1) % U32]
        /\ latency_outliers_' = latency_outliers_
    BY <1>1, <1>6
  <2>3. \A z \in 0 .. U32 - 1 : (z + 1) % U32 \in 0 .. U32 - 1 BY Constants
  <2>4. latency_buckets_' \in [Buckets -> 0 .. U32 - 1] BY <1>3, <2>1, <2>2, <2>3
  <2> QED BY Zenon, <1>1, <1>2, <1>3, <1>4, <1>5, <2>1, <2>2, <2>4
<1>7. CASE ~(lat < NUM_BUCKETS)
  <2>1. latency_buckets_' = latency_buckets_ /\ latency_outliers_' = latency_outliers_ + 1
    BY <1>1, <1>7
  <2>2. latency_outliers_' \in Nat BY <1>3, <2>1
  <2> QED BY Zenon, <1>1, <1>2, <1>3, <1>4, <1>5, <1>7, <2>1, <2>2
<1> QED BY <1>6, <1>7

\* If no bucket wraps with the latency, none has before, and the latency's bucket grows.
LEMMA FitsBefore ==
  ASSUME samples \in Seq(Nat), NEW lat \in Nat, Fits(Append(samples, lat))
  PROVE  /\ Fits(samples)
         /\ lat \in Buckets => Cardinality(At(samples, lat)) + 1 < U32
         /\ \A v \in Buckets : /\ Cardinality(At(samples, v)) \in Nat
                               /\ Cardinality(At(Append(samples, lat), v))
                                    = Cardinality(At(samples, v)) + (IF lat = v THEN 1 ELSE 0)
<1> DEFINE C(v) == Cardinality(At(samples, v))
           D(v) == Cardinality(At(Append(samples, lat), v))
<1>1. \A v \in Buckets : v \in Nat BY DEF Buckets
<1>2. \A v \in Buckets : C(v) \in Nat /\ D(v) = C(v) + (IF lat = v THEN 1 ELSE 0)
  BY Zenon, <1>1, AtAppend
<1>3. \A v \in Buckets : D(v) < U32 BY Zenon DEF Fits
<1>4. U32 \in Nat BY Constants
<1> HIDE DEF C, D
<1>5. \A v \in Buckets : C(v) < U32 BY ONLY <1>2, <1>3, <1>4
<1>6. lat \in Buckets => C(lat) + 1 < U32 BY ONLY <1>2, <1>3
<1> USE DEF C, D
<1> QED BY Zenon, <1>2, <1>5, <1>6 DEF Fits

\* Draining counts the latency: in its bucket, which does not wrap, or among the outliers.
LEMMA DrainCounts ==
  ASSUME samples \in Seq(Nat), latency_outliers_ \in Nat,
         latency_buckets_ \in [Buckets -> 0 .. U32 - 1], CountsAll,
         NEW lat \in Nat, samples' = Append(samples, lat), Fits(Append(samples, lat)),
         \/ /\ lat \in Buckets
            /\ latency_buckets_' = [latency_buckets_ EXCEPT ![lat] = (@ + 1) % U32]
            /\ latency_outliers_' = latency_outliers_
         \/ /\ ~(lat < NUM_BUCKETS)
            /\ latency_buckets_' = latency_buckets_
            /\ latency_outliers_' = latency_outliers_ + 1
  PROVE  CountsAll'
<1> DEFINE S(f, T) == SumFunctionOnSet(f, T)
<1>1. /\ Len(samples) \in Nat /\ Len(samples') = Len(samples) + 1
      /\ Buckets \in SUBSET Nat
      /\ \A i \in Buckets : latency_buckets_[i] \in Nat
  BY Constants DEF Buckets
<1>2. /\ total_samples = Len(samples)
      /\ \A i \in Buckets : running_sum(i) = Cardinality(UpTo(samples, i))
      /\ \A v \in Buckets : latency_buckets_[v] = Cardinality(At(samples, v))
  BY Zenon DEF CountsAll
<1>3. /\ lat \in Buckets => latency_buckets_[lat] + 1 < U32
      /\ \A v \in Buckets : Cardinality(At(samples, v)') =
                                latency_buckets_[v] + (IF lat = v THEN 1 ELSE 0)
  <2>1. \A v \in Buckets : At(samples, v)' = At(Append(samples, lat), v) BY Zenon DEF At
  <2> QED BY ZenonT(40), <1>2, <2>1, FitsBefore
<1>6. ASSUME NEW i \in Buckets
      PROVE  Cardinality(UpTo(samples, i)') = running_sum(i) + (IF lat <= i THEN 1 ELSE 0)
  <2>1. UpTo(samples, i)' = UpTo(Append(samples, lat), i) BY Zenon DEF UpTo
  <2>2. i \in Nat BY Zenon, <1>1
  <2>3. Cardinality(UpTo(Append(samples, lat), i))
          = Cardinality(UpTo(samples, i)) + (IF lat <= i THEN 1 ELSE 0)
    BY Zenon, <2>2, UpToAppend
  <2>4. running_sum(i) = Cardinality(UpTo(samples, i)) BY Zenon, <1>2
  <2> QED BY ONLY <2>1, <2>3, <2>4
<1>7. \A T \in SUBSET Buckets : IsFiniteSet(T) => S(latency_buckets_, T) \in Nat
  <2>1. TAKE T \in SUBSET Buckets
  <2>2. HAVE IsFiniteSet(T)
  <2>3. \A x \in T : latency_buckets_[x] \in Nat BY Zenon, <1>1
  <2>4. Nat \in {Nat, Int} OBVIOUS
  <2> QED BY Zenon, <2>2, <2>3, <2>4, SumType
<1>8. /\ total_samples = latency_outliers_ + S(latency_buckets_, Buckets)
      /\ \A i \in Buckets : running_sum(i) = S(latency_buckets_, 0 .. i)
      /\ S(latency_buckets_, Buckets) \in Nat
      /\ \A i \in Buckets : running_sum(i) \in Nat
      /\ SumFunction(latency_buckets_) = S(latency_buckets_, Buckets)
  <2>1. DOMAIN latency_buckets_ = Buckets BY Zenon
  <2>2. SumFunction(latency_buckets_) = S(latency_buckets_, Buckets)
    BY Zenon, <2>1 DEF SumFunction
  <2> QED BY Zenon, <1>7, <2>2, BucketsFinite DEF total_samples, running_sum
<1>9. CASE /\ lat \in Buckets
           /\ latency_buckets_' = [latency_buckets_ EXCEPT ![lat] = (@ + 1) % U32]
           /\ latency_outliers_' = latency_outliers_
  <2>1. (latency_buckets_[lat] + 1) % U32 = latency_buckets_[lat] + 1
    <3>1. /\ latency_buckets_[lat] + 1 \in Nat /\ latency_buckets_[lat] + 1 < U32
          /\ U32 \in Nat \ {0}
      BY <1>1, <1>3, <1>9, Constants
    <3> QED BY ONLY <3>1
  <2>2. /\ latency_buckets_'[lat] = latency_buckets_[lat] + 1
        /\ \A y \in Buckets : y # lat => latency_buckets_[y] = latency_buckets_'[y]
        /\ DOMAIN latency_buckets_' = Buckets
    BY Zenon, <1>9, <2>1
  <2>3. /\ latency_buckets_'[lat] - latency_buckets_[lat] = 1
        /\ \A y \in Buckets : latency_buckets_[y] \in Int /\ latency_buckets_'[y] \in Int
    BY ONLY <1>1, <1>9, <2>2
  <2>4. ASSUME NEW T \in SUBSET Buckets, IsFiniteSet(T), lat \in T
        PROVE  S(latency_buckets_', T) = S(latency_buckets_, T) + 1
    <3>1. \A y \in T : /\ latency_buckets_[y] \in Int /\ latency_buckets_'[y] \in Int
                       /\ y # lat => latency_buckets_[y] = latency_buckets_'[y]
      BY Zenon, <2>2, <2>3
    <3>2. S(latency_buckets_', T) = S(latency_buckets_, T)
                                      + (latency_buckets_'[lat] - latency_buckets_[lat])
      BY ONLY ZenonT(40), <2>4, <3>1, SumChange
    <3> QED BY Zenon, <2>3, <3>2
  <2>5. total_samples' = Len(samples')
    <3>1. SumFunction(latency_buckets_') = S(latency_buckets_, Buckets) + 1
      BY Zenon, <1>9, <2>2, <2>4, BucketsFinite DEF SumFunction
    <3>2. total_samples' = latency_outliers_ + (S(latency_buckets_, Buckets) + 1)
      BY Zenon, <1>9, <3>1 DEF total_samples
    <3> HIDE DEF S
    <3> QED BY ONLY <1>1, <1>2, <1>8, <3>2, latency_outliers_ \in Nat
  <2>6. ASSUME NEW i \in Buckets PROVE running_sum(i)' = Cardinality(UpTo(samples, i)')
    <3>1. IsFiniteSet(0 .. i) /\ 0 .. i \in SUBSET Buckets /\ i \in Nat /\ running_sum(i) \in Nat
      BY Zenon, <1>1, <1>8, BucketsFinite
    <3>2. CASE lat <= i
      <4>1. lat \in 0 .. i BY <3>1, <3>2
      <4>2. running_sum(i)' = running_sum(i) + 1
        BY Zenon, <2>4, <3>1, <4>1 DEF running_sum
      <4> QED BY <1>6, <3>2, <4>2
    <3>3. CASE ~(lat <= i)
      <4>1. \A x \in 0 .. i : x # lat BY <3>1, <3>3
      <4>2. \A x \in 0 .. i : latency_buckets_'[x] = latency_buckets_[x]
        BY Zenon, <2>2, <3>1, <4>1
      <4>3. running_sum(i)' = running_sum(i)
        BY ZenonT(40), <3>1, <4>2, SumSame DEF running_sum
      <4> QED BY <1>6, <3>1, <3>3, <4>3
    <3> QED BY <3>2, <3>3
  <2>7. ASSUME NEW v \in Buckets PROVE latency_buckets_'[v] = Cardinality(At(samples, v)')
    BY ONLY <1>1, <1>3, <2>2
  <2> QED BY Zenon, <2>5, <2>6, <2>7 DEF CountsAll
<1>10. CASE /\ ~(lat < NUM_BUCKETS)
            /\ latency_buckets_' = latency_buckets_
            /\ latency_outliers_' = latency_outliers_ + 1
  <2>1. \A i \in Buckets : ~(lat <= i) /\ lat # i BY <1>10, Constants DEF Buckets
  <2>2. total_samples' = Len(samples')
    <3>1. total_samples' = (latency_outliers_ + 1) + S(latency_buckets_, Buckets)
      BY Zenon, <1>8, <1>10 DEF total_samples
    <3> HIDE DEF S
    <3> QED BY ONLY <1>1, <1>2, <1>8, <3>1, latency_outliers_ \in Nat
  <2>3. ASSUME NEW i \in Buckets PROVE running_sum(i)' = Cardinality(UpTo(samples, i)')
    <3>1. running_sum(i)' = running_sum(i) BY Zenon, <1>10 DEF running_sum
    <3>2. running_sum(i) \in Nat BY Zenon, <1>8
    <3> QED BY <1>6, <2>1, <3>1, <3>2
  <2>4. ASSUME NEW v \in Buckets PROVE latency_buckets_'[v] = Cardinality(At(samples, v)')
    BY ONLY <1>1, <1>3, <1>10, <2>1
  <2> QED BY Zenon, <2>2, <2>3, <2>4 DEF CountsAll
<1> QED BY Zenon, <1>9, <1>10

\* Draining keeps the histogram.
LEMMA DrainHistogram ==
  ASSUME QueueInv, HistogramInv, DrainOne
  PROVE  HistogramInv' /\ samples' \in Seq(Nat) /\ Len(samples') = Len(samples) + 1
         /\ \E x \in Nat : samples' = Append(samples, x)
<1>1. PICK lat \in Nat :
        /\ samples' = Append(samples, lat)
        /\ samples' \in Seq(Nat) /\ Len(samples') = Len(samples) + 1
        /\ backpressure_events_' \in 0 .. Len(samples')
        /\ latency_buckets_' \in [Buckets -> 0 .. U32 - 1] /\ latency_outliers_' \in Nat
        /\ \/ /\ lat \in Buckets
              /\ latency_buckets_' = [latency_buckets_ EXCEPT ![lat] = (@ + 1) % U32]
              /\ latency_outliers_' = latency_outliers_
           \/ /\ ~(lat < NUM_BUCKETS)
              /\ latency_buckets_' = latency_buckets_
              /\ latency_outliers_' = latency_outliers_ + 1
  BY Zenon, Drained
<1>2. ASSUME Fits(samples)' PROVE CountsAll'
  <2>1. Fits(Append(samples, lat)) BY Zenon, <1>1, <1>2 DEF Fits, At
  <2>2. samples \in Seq(Nat) /\ latency_outliers_ \in Nat
        /\ latency_buckets_ \in [Buckets -> 0 .. U32 - 1]
    BY Zenon DEF HistogramInv
  <2>3. CountsAll BY Zenon, <2>1, <2>2, FitsBefore DEF HistogramInv
  <2> QED BY Zenon, <1>1, <2>1, <2>2, <2>3, DrainCounts
<1> QED BY Zenon, <1>1, <1>2 DEF HistogramInv

\* A line says something of the latencies that were drained before it only.
LEMMA DrainOK ==
  ASSUME WorkerInv, DrainOne
  PROVE  WorkerInv'
<1>1. CountersInv /\ QueueInv /\ HistogramInv /\ LineInv /\ PcInv BY DEF WorkerInv
<1>2. UNCHANGED <<coreVars, active_, wpc, report_due, logVars>> BY Zenon DEF DrainOne
<1>3. CountersInv' BY Zenon, <1>1, <1>2 DEF CountersInv, coreVars
<1>4. PcInv' BY Zenon, <1>1, <1>2 DEF PcInv
<1>5. QueueInv' BY Zenon, <1>1, DrainQueue
<1>6. /\ HistogramInv' /\ samples' \in Seq(Nat) /\ Len(samples') = Len(samples) + 1
      /\ \E x \in Nat : samples' = Append(samples, x)
  BY Zenon, <1>1, DrainHistogram
<1>7. LineInv'
  <2>1. UNCHANGED <<last_orders, line, logged>> BY Zenon, <1>2 DEF logVars
  <2>2. samples \in Seq(Nat) /\ Len(samples) \in Nat /\ line.samples \in 0 .. Len(samples)
    BY <1>1 DEF HistogramInv, LineInv
  <2>3. PICK x \in Nat : samples' = Append(samples, x) BY Zenon, <1>6
  <2>4. SubSeq(samples', 1, line.samples) = SubSeq(samples, 1, line.samples)
    BY <2>2, <2>3
  <2>5. PercentileIsOrderStatistic'
    BY Zenon, <1>1, <2>1, <2>4, LineMatchesOK DEF LineInv
  <2>6. line.samples \in 0 .. Len(samples') BY <1>6, <2>2
  <2> QED BY Zenon, <1>1, <2>1, <2>5, <2>6 DEF LineInv
<1> QED BY Zenon, <1>3, <1>4, <1>5, <1>6, <1>7 DEF WorkerInv

\* A report logs the throughput since the last one: the counters stay below 2^64, so the
\* difference does not wrap.
LEMMA ReportOK ==
  ASSUME WorkerInv, Report
  PROVE  WorkerInv'
<1>1. CountersInv /\ QueueInv /\ HistogramInv /\ LineInv /\ PcInv BY DEF WorkerInv
<1>2. /\ line' = Line /\ logged' = logged + Line.delta /\ last_orders' = current_orders
      /\ wpc' = "test" /\ report_due' = FALSE
      /\ UNCHANGED <<coreVars, queue_, active_, currentVars, histogramVars>>
  BY Zenon DEF Report
<1>3. CountersInv' BY Zenon, <1>1, <1>2 DEF CountersInv, coreVars
<1>4. PcInv' BY Zenon, <1>1, <1>2 DEF PcInv
<1>5. /\ current_orders \in Nat /\ current_failures \in Nat /\ last_orders \in Nat
      /\ last_orders <= current_orders /\ current_orders <= total_orders
      /\ total_orders \in Nat /\ taken \in Nat /\ taken <= MaxSnapshots
      /\ total_orders <= BATCH_WINDOW * taken
  BY <1>1, Constants DEF QueueInv, CountersInv
<1>6. QueueInv'
  <2>1. current_orders <= current_orders BY <1>5
  <2> QED BY Zenon, <1>1, <1>2, <1>5, <2>1 DEF QueueInv, coreVars, currentVars
<1>7. HistogramInv' BY Zenon, <1>1, <1>2, HistogramFrame
<1>8. LineInv'
  <2>1. samples' = samples BY Zenon, <1>2 DEF histogramVars
  <2>2. /\ line'.orders = current_orders
        /\ line'.delta = (current_orders - last_orders) % U64
        /\ line'.hits = IF current_orders > 0 THEN (current_orders - current_failures) % U64 ELSE 0
        /\ line'.p50 = percentile_ns(500) /\ line'.p99 = percentile_ns(990)
        /\ line'.p999 = percentile_ns(999) /\ line'.samples = Len(samples)
        /\ DOMAIN line' = DOMAIN NoLine
    BY <1>2 DEF Line, NoLine
  <2>3. (current_orders - last_orders) % U64 = current_orders - last_orders
    <3>1. BATCH_WINDOW * taken <= BATCH_WINDOW * MaxSnapshots
      BY <1>5, Constants
    <3>2. /\ BATCH_WINDOW * taken \in Nat /\ BATCH_WINDOW * MaxSnapshots \in Nat
          /\ BATCH_WINDOW * MaxSnapshots < U64 /\ U64 \in Nat \ {0}
      BY <1>5, Constants
    <3>3. current_orders - last_orders \in 0 .. U64 - 1 BY ONLY <1>5, <3>1, <3>2
    <3> QED BY <3>2, <3>3
  <2>4. line'.delta \in 0 .. U64 - 1 /\ line'.hits \in 0 .. U64 - 1
    <3>1. \A z \in Int : z % U64 \in 0 .. U64 - 1 BY Constants
    <3>2. /\ current_orders - last_orders \in Int /\ current_orders - current_failures \in Int
          /\ 0 \in 0 .. U64 - 1
      BY <1>5, Constants
    <3>3. line'.delta = (current_orders - last_orders) % U64
          /\ line'.hits \in {(current_orders - current_failures) % U64, 0}
      BY <2>2
    <3> QED BY ONLY <3>1, <3>2, <3>3
  <2>5. logged' = last_orders' /\ line'.orders = last_orders'
    <3>1. logged' = logged + (current_orders - last_orders) /\ logged = last_orders
      BY ZenonT(40), <1>1, <1>2, <2>2, <2>3 DEF LineInv
    <3> QED BY ONLY <1>2, <1>5, <2>2, <3>1
  <2>6. /\ samples \in Seq(Nat) /\ Len(samples) \in Nat /\ line'.samples = Len(samples)
        /\ line'.samples \in 0 .. Len(samples')
        /\ SubSeq(samples', 1, line'.samples) = samples
    <3>1. /\ samples \in Seq(Nat) /\ Len(samples) \in Nat /\ line'.samples = Len(samples)
      BY <1>1, <2>2 DEF HistogramInv
    <3>2. SubSeq(samples, 1, Len(samples)) = samples BY <3>1
    <3> QED BY <2>1, <3>1, <3>2
  <2>7. {line'.p50, line'.p99, line'.p999} \subseteq Buckets
    <3>1. /\ percentile_ns(500) \in Buckets /\ percentile_ns(990) \in Buckets
          /\ percentile_ns(999) \in Buckets
      BY ONLY SMTT(30), PercentileType
    <3> QED BY ONLY <2>2, <3>1
  <2>8. ASSUME line'.samples > 0, Fits(samples)
        PROVE  /\ line'.p50 = OrderStatistic(samples, (line'.samples * 500) \div 1000)
               /\ line'.p99 = OrderStatistic(samples, (line'.samples * 990) \div 1000)
               /\ line'.p999 = OrderStatistic(samples, (line'.samples * 999) \div 1000)
    <3>1. CountsAll /\ Len(samples) > 0 BY Zenon, <1>1, <2>6, <2>8 DEF HistogramInv
    <3> QED BY <2>2, <2>6, <3>1, PercentileOK
  <2>9. PercentileIsOrderStatistic'
    <3>1. LineMatches(line', samples) BY ZenonT(40), <2>8 DEF LineMatches
    <3> QED BY Zenon, <2>6, <3>1, LineMatchesOK
  <2> QED BY ZenonT(40), <2>2, <2>4, <2>5, <2>6, <2>7, <2>9 DEF LineInv
<1> QED BY Zenon, <1>3, <1>4, <1>6, <1>7, <1>8 DEF WorkerInv

\* Every step keeps the invariant.
LEMMA WorkerNext == WorkerInv /\ [Next]_vars => WorkerInv'
BY Zenon, QuietOK, SnapshotOK, DrainOK, ReportOK DEF Next, logging_loop, Joined

-----------------------------------------------------------------------------
(***************************************************************************)
(* The theorems.                                                           *)
(***************************************************************************)

\* What the core pushes and what the worker holds stay in step.
THEOREM WorkerInvariant == Spec => []WorkerInv
BY WorkerInit, WorkerNext, PTL DEF Spec

\* Every variable of the worker keeps its type, and its copies of the counters trail the
\* core's (MetricsWorker.cpp, lines 66-87).
THEOREM WorkerTypeCorrect == Spec => []TypeOK
<1>1. WorkerInv => TypeOK
  <2> SUFFICES ASSUME WorkerInv PROVE TypeOK OBVIOUS
  <2>1. CountersInv /\ QueueInv /\ HistogramInv /\ LineInv /\ PcInv BY DEF WorkerInv
  <2>2. \A i \in 1 .. Len(queue_) : queue_[i] \in MetricsPackets BY <2>1 DEF QueueInv
  <2>3. backpressure_events_ <= Len(samples) BY <2>1 DEF HistogramInv
  <2> QED BY Zenon, <2>1, <2>2, <2>3
          DEF TypeOK, CountersInv, QueueInv, HistogramInv, LineInv, PcInv
<1> QED BY <1>1, WorkerInvariant, PTL

\* The throughputs logged (lines 94-96) add up to the orders of the last line, whatever
\* snapshots were dropped.
THEOREM ThroughputsAddUp == Spec => []ThroughputAddsUp
<1>1. WorkerInv => ThroughputAddsUp BY Zenon DEF WorkerInv, LineInv, ThroughputAddsUp
<1> QED BY <1>1, WorkerInvariant, PTL

\* The percentiles that the report loop finds with a running sum over the histogram (lines
\* 109-139) are the order statistics of the latencies drained, for every sequence of them
\* in which no bucket of the histogram takes more than its 32 bits can count.
THEOREM PercentilesAreOrderStatistics == Spec => []PercentileIsOrderStatistic
<1>1. WorkerInv => PercentileIsOrderStatistic BY Zenon DEF WorkerInv, LineInv
<1> QED BY <1>1, WorkerInvariant, PTL
=============================================================================
