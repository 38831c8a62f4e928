# Verification of the Sequitur matching engine

TLA+ models of the engine (`src/`, `include/sequitur/`) and of its Go gateway (`gateway/`), checked with TLC on small
instances, and theorems about them that TLAPS proves for every value of the constants. `PROJECT.json` lists the runs, the
source lines behind each definition, a mutant for each property, the hazards and the theorems.

## The system and its parts

```
 TCP clients --- HandleClient --- packetChan --- Enqueue ==ingress ring==> core thread --- submit_order
     ^             (registry)                                                  |  pool, book, exec_q, trash_q
     |                 |                                                 egress queue (SPSC)   metrics queue (SPSC)
  writer <--- channel -+------------- Dequeue <==egress ring== publisher <-----+                     |
                                                                                             metrics worker
```

| Part | Source | State and concurrency |
| --- | --- | --- |
| Object pool | `memory/ObjectPool.hpp` | stack of free indices and counters; core thread only |
| Order book | `core/OrderBook.hpp` | one array of price levels for both sides, intrusive lists, lazily moved `best_bid`, `best_ask`; core thread only |
| Matching engine | `src/core/MatchingEngine.cpp` | `submit_order`: acquire, match, release; core thread only |
| SPSC queue | `concurrency/SPSCQueue.hpp` | ring with two counters and the producer's stale copy of `head_`; two threads and `shutdown` |
| Engine process | `src/main.cpp` | core, publisher, metrics worker and main thread, a signal; shared memory outlives it (`run_pipeline.sh` restarts it) |
| Ring ends of the gateway | `gateway/shm.go` | one writer of the ingress ring, one reader of the egress ring |
| Gateway | `gateway/main.go` | two goroutines per connection, two global ones, a registry under an `RWMutex`, bounded channels |
| Metrics worker | `src/utils/MetricsWorker.cpp` | drains snapshots into a histogram, logs a line every 250 ms; a thread of lower priority |
| Wire protocol | `gateway/protocol.go` | parsing of CSV lines; no state |
| MPSC queue | `concurrency/MPSCQueue.hpp` | cells with sequence numbers, tickets; many producers, one consumer; used by tests only |
| Ring buffer | `concurrency/RingBuffer.hpp` | ring with one slot left free, counters, `size()` from any thread; used by tests only |
| Client | `client.py` | load generator and its audit |

## Modules

| Module | Models | Remarks |
| --- | --- | --- |
| `ObjectPool` | the pool | `acquire`, `release` as actions on the index stack |
| `OrderBook` | book and matching loop | extends `ObjectPool` (orders are slots of the pool); one operator per iteration of `match_order` |
| `MatchingEngine` | `submit_order` step by step | `pc` is `idle`, `match` (in `match_order`) or `reclaim` (releasing); properties and inductive invariant |
| `PriceTimeBook` | what a book promises | a set of open orders, a taker, the fills: the taker always trades with the first in price-time priority |
| `MatchingEngineProofs` | theorems on the engine | lemmas on single steps; the invariant, priority and crossing, the refinement of `PriceTimeBook` |
| `EngineBookProofs` | theorems on the engine that count | walks along the lists, slots handed out, depth of the fixed queues, level volumes, conservation of quantity, the length of a call |
| `DataLemmas` | nothing of the code | least counterexamples, remainders, sums over finite sets: what several proofs share |
| `QueueConstants` | index arithmetic of the queues | |
| `SPSCQueue`, `MPSCQueue`, `RingBuffer` | the three queues | one step per access to a shared location |
| `BoundedFifo` | what a queue promises | |
| `ItemQueueProofs`, `QueueProofs` | theorems on the queues | first `MPSCQueue` and `SPSCQueue` (as `Spsc`), then `RingBuffer` and all three as `MCQueues` composes them |
| `EnginePipeline` | `main.cpp` and `shm.go` | all threads, signal, crash, restart; the egress queue is a bounded FIFO, which `SpscQueueIsFifo` proves of `SPSCQueue` |
| `EnginePipelineProofs` | theorems on the pipeline | and on its threads under the scheduler |
| `EngineScheduling` | the threads of `EnginePipeline` under `SCHED_FIFO` | composes the pipeline with a run queue on `CPUs` processors |
| `MetricsWorker` | `MetricsWorker.cpp` and the snapshots of `main.cpp` | with contents; in `EnginePipeline` a snapshot is only counted |
| `MetricsWorkerProofs` | theorems on the metrics worker | |
| `Gateway` | `main.go` | handlers, writers, registry, routing; the engine behind the rings answers as `main.cpp` addresses its reports |
| `GatewayProofs` | theorems on the gateway | and on its parser |
| `Protocol` | `protocol.go` | `TrimSpace`, `ParseCSV`, `assignField`; a reference definition of the format |
| `MCMatchingEngine`, `MCQueues`, `MCMetricsWorker`, `MCGateway` | instances | sets of inputs; `MCQueues` holds one queue of each kind, `MCGateway` the gateway and its parser |

How models and code correspond:

* **Engine.** A pointer to an order is its pool index, `NULL` the null pointer; the fields of `Order` are functions on the
  indices. `SkipLevel` is an iteration of the `while` of `match_order` that moves the bound, `Trade` one that executes, and
  `EndMatch` the exit with the insertion of the rest. Both branches (buy, sell) are one operator with `Touch` as the side's
  bound. Quantities and volumes are taken modulo `U32`, which stands for 2^32. `side` is any byte, as on the wire. `exec_q` and
  `trash_q` hold `FixedCapacity` items (10000), and `push` does not check: `Overrun` is the state before a push on a full one, from
  which the model has no step, since what the write behind the array does is undefined.
* **Queues.** In `SPSCQueue`, `PushBegin`/`PushReload`/`PushWrite`/`PushPublish` and `PopBegin`/`PopRead`/`PopRelease` are the accesses of
  `push` and `pop` in program order. Release stores and acquire loads of the counters order the plain accesses to the slots,
  so an interleaving model is adequate; the 64-bit counters do not wrap. In `MPSCQueue` a producer loads the tail (`PushLoad`),
  looks at the cell's sequence number (`PushLook`), races for the ticket (`PushClaim`, or `PushRetry` when the weak
  compare-and-swap fails, for a reason or not), writes and publishes; the consumer advances `head_` before it copies
  (`PopBegin`), as lines 86-90 do. In `RingBuffer` the counters are stepped after the indices, and `size()` is two loads
  (`SizeBegin`, `SizeEnd`) by the producer, the consumer or a third thread, with the unsigned difference taken modulo `Word`.
* **Pipeline.** A packet is its number in the ingress stream. A report records the packet it names and the packet whose price
  and quantity it carries, which is all that the properties tell apart. The result of `submit_order` is chosen freely among
  a reject, a resting order and 1 to `MaxFills` trades. `Crash` may happen at any step and keeps the shared memory only.
  A full ingress ring makes `Enqueue` return false without a change of state.
* **Scheduling.** `EngineScheduling` guards each thread's steps of `EnginePipeline` by "holds a CPU". The runnable threads are
  a queue ordered by priority, then FIFO; the first `CPUs` of them run. A thread leaves the queue when it blocks or ends and goes
  behind its priority when it yields or wakes. The scheduler is external and modelled from `sched(7)`'s rules for `SCHED_FIFO`;
  the priorities are those of the scripts (99) and of `MetricsWorker.cpp:23` (50).
* **Metrics.** A snapshot holds the cumulative counters, a latency in cycles and the backpressure flag. A line holds the numbers
  of the JSON record (order count, delta, hits, the three percentiles, backpressure events) and, as history, the number of samples behind them.
  A bucket counts modulo `U32`. The clock is `report_due`, which
  `Tick` sets at any time. `samples` and `logged` are history variables.
* **Protocol.** A line is a sequence of characters: digits, comma, space, and one that stands for every other. The widths of the
  fields are constants. `Iteration` is one round of the loop of `ParseCSV` and `Loop` all of them. The reference, `Meanings`, says
  nothing of a loop: it asks for places at which the line can be cut into numbers that fit. One comma behind the last field is part
  of the format, since the loop does not look at an empty field at the end.
* **Gateway.** A packet is its trader. The write lock is free when the egress goroutine is not between `RLock` and
  `RUnlock`, so `Register` and `Cleanup` are single steps. A channel is closed when its handler is `done`. A report carries
  the two ids that `main.cpp` sets (`Rejection`, `Acceptance`, `Fill`) and, as history, the traders whose orders it is about. `main.cpp`
  leaves an id that does not apply at 0, and 0 is also an id that a client may send: both are in the model.

## Runs

| Run | Checks | Bounds |
| --- | --- | --- |
| `engine_structure` | lists, volumes, pool, when the fixed queues overrun, conservation of quantity, termination of `submit_order` and a bound on its iterations, also with a side that is neither buy nor sell | pool 4, ticks 0..3, up to 5 orders of quantity 1 or 3, `FixedCapacity` = 2, `U32` = 4 |
| `engine_priority` | never crossed, bounds, priority, two-sided trades, refinement of `PriceTimeBook` | pool 3, two traders, up to 4 orders of quantity 0, 1 or 2 |
| `engine_boundary` | finding: end prices match their own side | as above, all prices |
| `queues` | all three queues: race freedom, FIFO refinement, every item popped, counters, `size()` | capacity 2, 4 pushes of 2 values, 2 producers, 1 refused push, batches of up to 2 |
| `pipeline_delivery` | order, completeness and progress of delivery, with one crash | rings of 2, queue of 1, 3 packets with up to 2 fills |
| `scheduled_three_cpus` | main returns after a signal, the worker is not starved, unread reports are intact | 3 CPUs, rings and queue of 2, 2 packets with up to 2 fills, gateway may stop |
| `scheduled_one_cpu` | finding: the worker starves | 1 CPU, ring of 1 |
| `pipeline_stale_packet` | finding: a report with another order's fields | ring of 2, 3 packets |
| `pipeline_zero_drop` | finding: reports left behind by a graceful exit | as above, one signal |
| `metrics_worker` | percentiles, throughput, every snapshot logged | queue of 2, 3 buckets, 4 snapshots, `U32` = 3, `U64` = 16 |
| `gateway_routing` | closed channels, parties, routing progress, no lost message, end of sessions; the parser against the format | 2 sessions, traders 0, 1 and 2, 2 messages, capacities 1; lines of up to 6 characters, 2 fields of one and two digits |
| `gateway_rebind` | finding: teardown unbinds a trader of another session | as above, traders 1 and 2 |

`pipeline_delivery` uses `ServeSpec`, the pipeline without a signal: its properties are about an engine that has not been told to
stop (the theorems hold of `Spec`, signals included). Signals are in the `scheduled_*` runs and in `pipeline_zero_drop`.

Why the bounds are enough for the interesting cases: four ticks give two inner levels and both end levels, so a sweep crosses
an empty level and stops at the end of the array; five orders give a level of three with removal at head, and a pool that
runs out and recovers; `U32` = 4 makes the level counter wrap; an order of three meets three orders of one, one more than the fixed
queues hold. Four pushes wrap a ring of two twice, and two producers on
two cells meet on one ticket, on one cell in two laps, and on a full queue. Rings and queues of one
or two slots are full and empty in most states; three packets are needed to overwrite a released slot of a ring of two, and two
fills per packet to have the core wait in the middle of an order. Two packets and two fills fill a ring and a queue of two, so
that core and publisher are both stuck when the signal comes. Four snapshots overflow a metrics queue of two, put
two samples into one bucket (and three, with which it wraps), one among the outliers, and refuse more orders than are accepted. Two messages on two sessions suffice for a trader known to
both, for a full channel (a fill between two traders of one session offers two reports to it) and for a full ingress ring. Six
characters hold two fields of two digits with a trailing comma, a field too many, an empty field and a number too wide.

`CHECK_DEADLOCK FALSE` is set where the bounds on calls or messages make the instance stop.

**Fairness.** A call of the core that was entered goes on (`WF` of `CallStep`). `EnginePipeline` assumes that each
thread of the engine runs (`WF` per thread), that the gateway reads reports and finishes an `Enqueue` it began, and that an ended engine is started
again (the loop of `run_pipeline.sh`, elsewhere an operator). That the threads run is not taken for granted: `EngineScheduling` replaces
it by the scheduler, with strong fairness of each thread for its steps while it holds a CPU (a thread that gets a CPU again and again makes progress)
and weak fairness for main's timer and wake-up; nothing is assumed of the gateway there. With the three CPUs of `run_n2n.sh` every thread then runs; with the one of
`run_pipeline.sh:58` none but the core does, so the liveness results on the pipeline say nothing of that deployment.

In the queues a consumer keeps polling and a push that was begun goes on (`WF`); `RingBuffer` needs `SF` of `pop_batch`, since a
consumer that is in `size()` is not in `pop_batch`. No fairness is assumed of a compare-and-swap beyond that the producer goes on: one that
fails spuriously may retry for ever, which no property forbids. The metrics worker runs and time passes (`WF` of
`logging_loop` and `Tick`). Goroutines are scheduled fairly; a Go `RWMutex` keeps
new readers out while a writer waits, which justifies strong fairness of `Register` and `Cleanup`. Nobody is assumed to send, to
read from a socket, to signal or to crash.

## Findings

1. *End prices* (`OrderBook.hpp:27,74`): a buy at `MAX_PRICE_TICKS` meets the buys resting there, since `best_ask` starts on
   that level; a sell at 0 likewise. All theorems on crossing and sides therefore assume `InteriorLimits`.
2. *Stale packet* (`main.cpp:111,128,137`): price and quantity of accept and reject reports are read after the slot was released.
3. *Shutdown* (`main.cpp:223`): the publisher may end before the core has pushed its last reports. Related: when the process is
   stopping and the ring is full, the publisher overwrites unread reports (line 229); and if one order yields more reports than
   the egress queue holds, the core may spin for ever on the full queue (`ShutdownCompletes` needs `MaxFills <= QueueCapacity`;
   the code has 10000 executions against 8192 slots).
4. *Rebinding* (`gateway/main.go:44,66`): the teardown of a session removes traders that another session has registered since.
5. *One CPU* (`run_pipeline.sh:58`): the repository's README says (line 122) that `SCHED_FIFO 50` keeps the metrics thread from being starved.
   On the one CPU that this script gives the engine, the core spins at priority 99 and no other thread ever runs. The three CPUs of
   `run_n2n.sh:78` are enough (`scheduled_three_cpus`).

The following have no run of their own, but limit what holds:

* *Fixed queues* (`FixedQueue.hpp:16`, `OrderBook.hpp:12-13`, `main.cpp:96`): `exec_q` and `trash_q` hold 10000 items, `push` does not
  check, and the pool has 1000000 orders. An order that fills more than 10000 resting ones writes behind the arrays.
  `engine_structure` reaches that state on its instance; `QueuesSuffice` says what it takes and `PoolRulesOutOverrun` that a pool of at
  most 10001 orders would exclude it. All results on the engine are about executions up to the first overrun.
* *Trader 0* (`main.cpp:132,147`, `protocol.go:55`, `gateway/main.go:70,107,116`): an accept has taker 0 and a reject has both ids 0. The
  parser takes a trader id of 0 and the gateway registers it, so a session on which trader 0 sends receives the rejects and accepts of
  all traders. `RoutedToParty` makes this exception. Otherwise a reject reaches nobody.
* *The audit of `client.py`* (`README.md:173-179` of the repository): "Total Orders Sent = Order Accepted Count + Order Filled Count / 2 + Order
  Rejected Count", and "Any delta [...] indicates an in-flight network drop or memory race condition". A delta has other causes: rejects
  are not delivered, and an order that fills two resting ones counts twice (three orders, two accepts and four fill frames: 2 + 4/2 = 4).
  `client.py` is not modelled, so no run states the equation.
* *Histogram* (`MetricsWorker.hpp:26`): a bucket is a `uint32_t` and wraps after 2^32 samples, which are then missing from the
  percentiles. `PercentileIsOrderStatistic` is stated up to the first wrap (`Fits`).

Smaller observations, which the models reproduce and the properties are stated around: a percentile that falls among the outliers
is logged as 0, and so is a target rounded down to 0 (`OrderStatistic` says 0 in both cases); `current_orders - pool_failures`
wraps when more orders were refused than accepted; once an order has been refused every later snapshot counts as backpressure;
snapshots still queued at shutdown are not logged; a packet the core takes up after the publisher has left gets no report;
`MPSCQueue::pop` returns nothing while the oldest ticket is claimed but unpublished, though later ones may be published (the
comment at `MPSCQueue.hpp:94` says the queue is empty); `RingBuffer::size()` may wrap when called by a thread that is neither the
producer nor the consumer (`SizeInRange` is about those two).

## Proofs

All proofs are checked from the named assumptions on the constants only (`PoolAssumption`, `OrderBookAssumption`,
`EngineAssumption`, `QueueAssumption`, `PipelineAssumption`, `GatewayAssumption`, `ProtocolAssumption`, `MetricsAssumption`, and `CountersFit`: the
core's 64-bit order counter does not wrap within the modelled number of snapshots), and where a statement says so from
`InteriorLimits` (a side is buy or sell, no buy is priced `MAX_PRICE_TICKS` and no sell 0), `LargeEnough` (an MPSC queue has two cells or more: with one, the
sequence number of a published cell is that of a free one) or `Sizes` (a ring has fewer slots than `size_t` has values).

* **Engine** (`EngineInvariant`, `TypeCorrect`, `BestBounds`, `NeverCrossed`, `TwoSidedTrades`, `PriceTimeOrder`).
  None of the properties is inductive: that the head of the best level has priority depends on the links, these on which slots are
  live, and that on pool and trash queue. `EngineInv` therefore says: the free stack has no duplicates
  and begins an arrangement of all slots, so that a slot to be released has room on it (`StackOK`, `Arranged`); each live
  slot holds a submitted order with an id of its own and is on the book, incoming, or waiting in `trash_q` (`LiveInv`, `CallInv`,
  `TrashInv`); and for the lists, instead of reachability, which would need induction over data, it states locally that the head of
  a level is its earliest order and `next_order` leads to the next later order of the same price, with `prev_order` its inverse
  (`ListInv`). `BestBoundsHold` closes it. `NeverCrossed`, `TwoSidedTrades` and `PriceTimeOrder` add that
  `best_bid < best_ask` always (`BoundsApart`), which needs `InteriorLimits`. There is one lemma per action (`AcceptOK`,
  `SkipOK`, `TradeOK`, `EndOK`, `ReleaseDeadOK`, `ReturnOK`, ...), on lemmas for `acquire`, `release`, `remove_order` at
  the head and `insert_order`.
* **Fixed queues** (`QueuesSuffice`, `PoolRulesOutOverrun`). While something is left to match, every trade so far has filled its resting
  order, so both queues are equally long (`FixedQueueInv`). `trash_q` holds distinct orders in use, besides the incoming one and the next
  one (`TrashIsUsed`). So a push that finds a queue full has more than `FixedCapacity` + 1 orders in use: the book was deeper than the queue.
* **The book promised** (`EngineIsPriceTimeBook`). A resting slot stands for the order with its id, trader, side, price and remaining
  quantity; ids make this one-to-one (`OrdersDiffer`). `AcceptOrder`, `MatchTrade`, `MatchEnd` and `clear_execution_queue` are the
  abstract `Arrive`, `Fill`, `Settle` and `Collect`; the other steps leave the abstract book unchanged. That a fill takes an order
  nobody precedes is the argument of `PriceTimeOrder`; that a rest may settle is `RestCrossesNothing`.
* **Lists** (`ListsSound`). `EngineInv` is about single links; `LevelsAreFifo` is about whole levels. `LevelIsWalk` reads `Level` as the part
  before `nullptr` of the walk that starts at `head` and follows `next_order`. Everything found on the walk rests on the level (`WalkRests`)
  with ids increasing (`WalkSorted`), so nothing is found twice and, by the pigeonhole principle, the walk ends within `PoolCapacity` steps
  (`WalkEnds`). Nothing is missed: the earliest order of the level that the walk does not find would lie between two successive
  orders of it, which `ListInv` excludes.
* **Counting** (`PoolAccounts`, `VolumesFollow`, `QuantityKept`). The used slots are the complement of the duplicate-free stack, hence as
  many as `used_count` says (`UsedIsLive`). Volumes and open quantity are sums over finite sets: a trade takes its quantity off one summand
  (`TradeTakes`), the end of `match_order` adds one (`EndEffect`), every other step changes none (`BookKept`). `VolumesFollow` takes the
  level's sum modulo `U32`, with the wrapping subtraction of the code; `QuantityKept` compares the sum over the whole book with `total_volume`.
* **Length of a call** (`CallsAreBounded`). `StepsLeft` counts the levels ahead of the bound, two for each resting order (a trade and a release),
  one for each order in `trash_q`, and the two ends; it drops with every iteration, since a trade that does not fill its resting order
  leaves nothing of the incoming one (`SkipNearer`, `TradeNearer`, `RestNearer`). At the start it is at most `MAX_PRICE_TICKS` plus twice the
  pool's capacity, the incoming order not being on the book (`CallBegins`). With weak fairness of `CallStep` this is why `SubmitReturns` holds.
* **Induction over data.** Where an argument is by induction (that a recursively defined walk or sum exists, that the ids of a walk
  increase, that sums add up, that a loop keeps its invariant), `DataLemmas` and, for the parser, `GatewayProofs` supply the least counterexample instead: a set of numbers that is not empty has a least element
  (`LeastNumber`), a collection of finite sets a minimal one (`MinimalSubset`). `SumFunctionOnSet` is shown to equal a tabulated
  sum, from which its value on a set with one element more, less or changed follows (`SumAdd`, `SumRemove`, `SumChange`).
* **SPSC queue** (`SpscQueueInvariant`, `SpscTypeCorrect`, `SpscRaceFree`, `SpscQueueIsFifo`). `SpscQueueInv` adds to the types that the cached head
  trails the real one, that a writing producer has room even by its stale view, and that all slots between the counters hold values.
  Indices less than `Capacity` apart have different slots (`SlotOfLaps`), hence no race; publishing is the abstract push and
  releasing the abstract pop.
* **MPSC queue** (`QueueInvariant`, `TypeCorrect`, `RaceFree`, `QueueIsFifo` of `ItemQueueProofs`). The invariant gives each cell one of three
  meanings by its sequence number: free for a ticket, holding one, or being written by exactly one producer, the owner of the ticket.
  A producer that has looked at a cell may be overtaken; that its claim is still sound follows because the cell can have changed only if
  the tail did, and then the compare-and-swap fails. The abstract push happens at the claim, so tickets are the order of the FIFO.
* **Ring buffer** (`RingInvariant`, `RingTypeCorrect`, `RingRaceFree`, `RingCounts`, `RingSizeSafe`, `RingIsFifo`). The counters trail the
  indices by the operation in progress; hence the difference the producer or the consumer reads is between 0 and the capacity.
* **The queues of the run** (`AllInvariant`, `QueuesTypeCorrect`, `QueuesRaceFree`, `QueuesAreFifos`, `QueuesCount`, `QueuesSizeSafe`). These state the
  properties of `MCQueues` itself. A step of the composition is a step of one queue and leaves the others alone (`AllStep`), so the
  three invariants hold together and each property follows from the lemmas on its queue.
* **Pipeline** (`ServeInvariant`, `TypeCorrect`, `PacketsInOrder`, `DeliveryInvariant`, `ReportsInOrder`, `ReportsWithoutGap`). `ServeInv` relates the
  ingress indices and slots to the packet numbers, the core's position in its loop to what it has released, and the stop flags to who has
  ended. `DeliveryInv` is about the reports on their way, `Flow`: the unread part of the egress ring, the report the publisher
  holds, and the egress queue, in this order. The publisher's steps do not change `Flow`, the core appends to it, the gateway takes
  its first report, a crash cuts off its end. Reports in `Flow` are in order after the last delivered one, and without gap if
  there was no crash. `OnceInv` adds that only a crash parts `submit_order` from the store of the index, so without one each packet is
  submitted once. Of the reports, all this holds until a signal: after it the publisher may overwrite a full ring.
* **Scheduling** (`SchedulerRefinesPipeline`, `UnreadKept`). The scheduler only decides which step comes next (`ScheduledStep`), so every safety
  result on the pipeline holds of its threads under `SCHED_FIFO`, on any number of CPUs. `UnreadReportsIntact` is `DeliveryInv` read at
  the egress ring: the unread slots are the first part of `Flow` (`UnreadIsFlow`).
* **Metrics worker** (`WorkerInvariant`, `WorkerTypeCorrect`, `ThroughputsAddUp`, `PercentilesAreOrderStatistics`). `WorkerInv`: base, current counters,
  queued snapshots and the core's counters are in order (`QueueInv`), so no delta wraps; while no bucket has wrapped, `running_sum(i)` is the
  number of samples up to `i` (`HistogramInv`, `CountsAll`), which `DrainCounts` shows by adding one to a summand; the last line agrees with the base of the next (`LineInv`).
  The percentile that the report loop finds is the least bucket whose running sum reaches the target, and with `HistogramInv` that is the
  least value with that many samples up to it (`KthSmallest`, `PercentileOK`).
* **Gateway** (`GatewayInvariant`, `TypeCorrect`, `NeverSendsOnClosed`, `ReportsReachParties`). `BindingInv`: what the registry names is a session
  that recorded the trader and has not torn down, so that its teardown will find the entry. A report's ids are parties or 0 (`ReportsMade`),
  so whoever the registry names for one of them is a session of a party, or of trader 0.
* **Parser** (`ParserCorrect`, `ParserIsFormat`): lines of any length, packets of any number of fields. `TraceInv` says of the loop, after
  any number of iterations, how far `left` and `counter` have come and that the fields up to there are the numbers found. If the loop ends
  well, the places where it went on are a cut of the trimmed line (`LoopCuts`); conversely the loop goes along every cut, since a field
  holds no comma and the inner loop stops at the first (`LoopFollows`), so no line has two meanings. `CutOfTrimmed` and `CutOfLine` carry
  cuts from a line to its trimmed part and back. What the digits of a field stand for (`ValueOf`) is the same on both sides.

Only model-checked: liveness (`SubmitReturns`, `EveryItemPopped`, `EveryPacketAnswered`, `ShutdownCompletes`, `WorkerNotStarved`,
`EverySnapshotLogged`, `EveryReportRouted`, `EveryMessageSettled`, `SessionEnds`), since the provers do not handle fairness. Every
other property of a passing run is a theorem.

## Not modelled

* Bytes and layout of packets, and that the C++ and Go structs agree: a matter of two compilers.
* Sockets, log lines and their JSON text; the columns of a telemetry line that are copied from the snapshot.
* What follows a push on a full `exec_q` or `trash_q`: the write is out of range, and the model stops before it.
* Prices above `MAX_PRICE_TICKS`: the array access is out of range, and what follows is not defined by the code.
* Latencies of 2^64 / 10^9 cycles or more, where the conversion to nanoseconds overflows.
* Several reports per packet in `Gateway` (they are in `EnginePipeline`): the gateway treats each report alone.
* `Timer.hpp`, compiled only for telemetry builds and used by no code of the engine; `client.py`, a load generator with the
  audit discussed above; the telemetry stack and the remaining
  scripts, apart from the restart loop, the CPUs and the priorities.

With these exceptions every operation of the engine and the gateway that changes state is an action of a module.
