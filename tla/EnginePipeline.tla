--------------------------- MODULE EnginePipeline ---------------------------
(***************************************************************************)
(* The engine process of src/main.cpp and the ends of its shared-memory    *)
(* rings in gateway/shm.go: the gateway writes order packets into the      *)
(* ingress ring; the core thread submits them and pushes execution reports *)
(* into the egress queue; the publisher thread moves reports to the egress *)
(* ring, where the gateway reads them; the metrics worker takes snapshots; *)
(* the main thread waits for a signal and tears the process down.  The     *)
(* shared memory outlives the process: after a crash, or after a graceful  *)
(* exit, run_pipeline.sh starts a new one on the same segment.             *)
(*                                                                         *)
(* A packet is the number of its place in the ingress stream.  The result  *)
(* of submit_order is any that the matching engine can give: a reject, a   *)
(* resting order (0 trades) or up to MaxFills trades.  A packet that is    *)
(* not NEW_ORDER is rejected as well.  The egress queue is a bounded FIFO, *)
(* which ItemQueueProofs proves of the SPSC queue.  The threads' own       *)
(* copies of the indices that only they store (current_read in the core,   *)
(* current_write in the publisher) always equal what is stored.            *)
(***************************************************************************)
EXTENDS Integers, Sequences

CONSTANTS RingSize,         \* slots of each shared-memory ring (65536)
          QueueCapacity,    \* slots of the egress queue (8192)
          MetricsCapacity,  \* slots of the metrics queue (4096)
          BATCH_WINDOW,     \* orders per metrics snapshot (64)
          MaxFills,         \* the most trades one order makes
          MaxPackets,       \* bound: packets the gateway enqueues
          MaxCrashes,       \* bound: crashes of the engine process
          MaxSignals        \* bound: SIGINT or SIGTERM

ASSUME PipelineAssumption ==
  /\ {RingSize, QueueCapacity, MetricsCapacity, BATCH_WINDOW} \subseteq Nat \ {0}
  /\ {MaxFills, MaxPackets, MaxCrashes, MaxSignals} \subseteq Nat

VARIABLES
  ingress_read_idx, ingress_write_idx, ingress_ring,  \* shared memory
  egress_read_idx, egress_write_idx, egress_ring,
  inpc,                                   \* the gateway in Enqueue
  outpc, packet, delivered,               \* the gateway in Dequeue, the last report it returned
  engine_active, mpc, egress_queue, metrics_queue,
  cpc, processed, outcome, fill, report, iteration_counter,
  ppc, outbound_packet,    \* the publisher
  wpc, active_,                           \* the metrics worker
  submitted, crashes, signals             \* history: last packet submitted; bounds

ingressVars == <<ingress_read_idx, ingress_write_idx, ingress_ring>>
egressVars == <<egress_read_idx, egress_write_idx, egress_ring>>
gatewayVars == <<inpc, outpc, packet, delivered>>
coreVars == <<cpc, processed, outcome, fill, report, iteration_counter>>
publisherVars == <<ppc, outbound_packet>>
workerVars == <<wpc, active_>>
mainVars == <<engine_active, mpc>>
boundVars == <<crashes, signals>>
processVars == <<mainVars, egress_queue, metrics_queue, coreVars, publisherVars, workerVars>>
vars == <<ingressVars, egressVars, gatewayVars, processVars, submitted, boundVars>>

Slots == 0 .. RingSize - 1
Slot(i) == i % RingSize

\* What submit_order yields: Rejected, or the number of trades in the execution queue.
\* A report names its order, its place among the order's reports, whether it is the
\* last of them, and the packet whose price and quantity it carries.
Rejected == -1
Outcomes == {Rejected} \cup 0 .. MaxFills
Reports == [order : 1 .. MaxPackets, n : 1 .. MaxFills + 1, last : BOOLEAN, body : 0 .. MaxPackets]
NoReport == [order |-> 0, n |-> 1, last |-> TRUE, body |-> 0]

TypeOK ==
  /\ ingress_write_idx \in 0 .. MaxPackets
  /\ ingress_write_idx - ingress_read_idx \in 0 .. RingSize
  /\ ingress_ring \in [Slots -> 0 .. MaxPackets]
  /\ egress_read_idx \in Nat /\ egress_write_idx \in Nat
  /\ egress_ring \in [Slots -> Reports \cup {NoReport}]
  /\ inpc \in {"idle", "publish"}
  /\ outpc \in {"idle", "release"}
  /\ {packet, delivered, report, outbound_packet} \subseteq Reports \cup {NoReport}
  /\ engine_active \in BOOLEAN /\ active_ \in BOOLEAN
  /\ mpc \in {"wait", "join_core", "join_publisher", "shutdown", "join_worker", "exited", "crashed"}
  /\ egress_queue \in Seq(Reports) /\ Len(egress_queue) <= QueueCapacity
  /\ metrics_queue \in 0 .. MetricsCapacity
  /\ cpc \in {"loop", "poll", "release", "build", "push", "batch", "done"}
  /\ processed \in 0 .. MaxPackets /\ submitted \in 0 .. MaxPackets
  /\ outcome \in Outcomes /\ fill \in 1 .. MaxFills + 1
  /\ iteration_counter \in 0 .. BATCH_WINDOW - 1
  /\ ppc \in {"loop", "pop", "room", "write", "publish", "done"}
  /\ wpc \in {"test", "drain", "done"}
  /\ crashes \in 0 .. MaxCrashes /\ signals \in 0 .. MaxSignals

\* The state of a process that has just started (main, lines 79-101 and 218-221).
ProcessInit ==
  /\ engine_active = TRUE /\ mpc = "wait"
  /\ egress_queue = <<>> /\ metrics_queue = 0
  /\ cpc = "loop" /\ processed = 0 /\ outcome = Rejected /\ fill = 1
  /\ report = NoReport /\ iteration_counter = 0
  /\ ppc = "loop" /\ outbound_packet = NoReport
  /\ wpc = "test" /\ active_ = TRUE

Init ==
  /\ ingress_read_idx = 0 /\ ingress_write_idx = 0
  /\ egress_read_idx = 0 /\ egress_write_idx = 0
  /\ ingress_ring = [i \in Slots |-> 0]
  /\ egress_ring = [i \in Slots |-> NoReport]
  /\ inpc = "idle" /\ outpc = "idle"
  /\ packet = NoReport /\ delivered = NoReport
  /\ ProcessInit
  /\ submitted = 0 /\ crashes = 0 /\ signals = 0

-----------------------------------------------------------------------------
\* The gateway.  Enqueue writes the slot, then stores the index; when the ring is
\* full it returns false and changes nothing.
EnqueueWrite_unchecked ==
  /\ inpc = "idle"
  /\ ingress_write_idx < MaxPackets
  /\ ingress_ring' = [ingress_ring EXCEPT ![Slot(ingress_write_idx)] = ingress_write_idx + 1]
  /\ inpc' = "publish"
  /\ UNCHANGED <<ingress_read_idx, ingress_write_idx, egressVars, outpc, packet, delivered,
                 processVars, submitted, boundVars>>
EnqueueWrite ==
  /\ inpc = "idle"
  /\ ingress_write_idx < MaxPackets
  /\ ingress_write_idx - ingress_read_idx # RingSize
  /\ ingress_ring' = [ingress_ring EXCEPT ![Slot(ingress_write_idx)] = ingress_write_idx + 1]
  /\ inpc' = "publish"
  /\ UNCHANGED <<ingress_read_idx, ingress_write_idx, egressVars, outpc, packet, delivered,
                 processVars, submitted, boundVars>>

EnqueuePublish ==
  /\ inpc = "publish"
  /\ ingress_write_idx' = ingress_write_idx + 1
  /\ inpc' = "idle"
  /\ UNCHANGED <<ingress_read_idx, ingress_ring, egressVars, outpc, packet, delivered,
                 processVars, submitted, boundVars>>

\* Dequeue copies the slot, then stores the index and returns the report.
DequeueRead ==
  /\ outpc = "idle"
  /\ egress_read_idx # egress_write_idx
  /\ packet' = egress_ring[Slot(egress_read_idx)]
  /\ outpc' = "release"
  /\ UNCHANGED <<ingressVars, egressVars, inpc, delivered, processVars, submitted, boundVars>>

DequeueRelease ==
  /\ outpc = "release"
  /\ egress_read_idx' = egress_read_idx + 1
  /\ delivered' = packet
  /\ outpc' = "idle"
  /\ UNCHANGED <<ingressVars, egress_write_idx, egress_ring, inpc, packet, processVars,
                 submitted, boundVars>>

-----------------------------------------------------------------------------
\* The core thread.
CoreFrame ==
  UNCHANGED <<ingress_write_idx, ingress_ring, egressVars, gatewayVars, mainVars,
              publisherVars, workerVars, boundVars>>

CoreLoop ==
  /\ cpc = "loop"
  /\ cpc' = IF engine_active THEN "poll" ELSE "done"
  /\ UNCHANGED <<ingress_read_idx, egress_queue, metrics_queue, processed, outcome, fill,
                 report, iteration_counter, submitted>>
  /\ CoreFrame

CoreIdle ==
  /\ cpc = "poll"
  /\ ingress_read_idx = ingress_write_idx
  /\ cpc' = "loop"
  /\ UNCHANGED <<ingress_read_idx, egress_queue, metrics_queue, processed, outcome, fill,
                 report, iteration_counter, submitted>>
  /\ CoreFrame

\* The slot is the core's until it stores the index, so the packet is read and
\* submitted in one step.
CoreSubmit(result) ==
  /\ cpc = "poll"
  /\ ingress_read_idx # ingress_write_idx
  /\ processed' = ingress_ring[Slot(ingress_read_idx)]
  /\ submitted' = processed'
  /\ outcome' = result
  /\ fill' = 1
  /\ cpc' = "release"
  /\ UNCHANGED <<ingress_read_idx, egress_queue, metrics_queue, report, iteration_counter>>
  /\ CoreFrame

\* The slot is given back to the gateway before the reports are built.
CoreRelease ==
  /\ cpc = "release"
  /\ ingress_read_idx' = ingress_read_idx + 1
  /\ cpc' = "build"
  /\ UNCHANGED <<egress_queue, metrics_queue, processed, outcome, fill, report,
                 iteration_counter, submitted>>
  /\ CoreFrame

\* Reject and accept reports take price and quantity from the slot, through the
\* reference `packet`; fill reports take them from the trade.
IsFill == outcome > 0
LastReport == IsFill => fill = outcome

CoreBuild ==
  /\ cpc = "build"
  /\ report' = [order |-> processed, n |-> fill, last |-> LastReport,
                body |-> IF IsFill THEN processed
                                   ELSE ingress_ring[Slot(ingress_read_idx - 1)]]
  /\ cpc' = "push"
  /\ UNCHANGED <<ingress_read_idx, egress_queue, metrics_queue, processed, outcome, fill,
                 iteration_counter, submitted>>
  /\ CoreFrame

\* The core spins while the queue is full.
CorePush ==
  /\ cpc = "push"
  /\ Len(egress_queue) < QueueCapacity
  /\ egress_queue' = Append(egress_queue, report)
  /\ IF LastReport THEN cpc' = "batch" /\ UNCHANGED fill
                   ELSE cpc' = "build" /\ fill' = fill + 1
  /\ UNCHANGED <<ingress_read_idx, metrics_queue, processed, outcome, report,
                 iteration_counter, submitted>>
  /\ CoreFrame

\* Every BATCH_WINDOW orders a snapshot is pushed; it is dropped when the queue is full.
CoreBatch ==
  LET full == iteration_counter + 1 >= BATCH_WINDOW IN
  /\ cpc = "batch"
  /\ iteration_counter' = IF full THEN 0 ELSE iteration_counter + 1
  /\ metrics_queue' = IF full /\ metrics_queue < MetricsCapacity
                      THEN metrics_queue + 1 ELSE metrics_queue
  /\ cpc' = "loop"
  /\ UNCHANGED <<ingress_read_idx, egress_queue, processed, outcome, fill, report, submitted>>
  /\ CoreFrame

core_thread ==
  \/ CoreLoop \/ CoreIdle \/ (\E result \in Outcomes : CoreSubmit(result))
  \/ CoreRelease \/ CoreBuild \/ CorePush \/ CoreBatch

-----------------------------------------------------------------------------
\* The publisher thread.  It leaves its loop when the process is stopping and the
\* queue is empty.
PublisherFrame ==
  UNCHANGED <<ingressVars, egress_read_idx, gatewayVars, mainVars, metrics_queue, coreVars,
              workerVars, submitted, boundVars>>

PublisherLoop ==
  /\ ppc = "loop"
  /\ ppc' = IF engine_active \/ egress_queue # <<>> THEN "pop" ELSE "done"
  /\ UNCHANGED <<egress_write_idx, egress_ring, egress_queue, outbound_packet>>
  /\ PublisherFrame

PublisherPop ==
  /\ ppc = "pop"
  /\ IF egress_queue = <<>>
     THEN ppc' = "loop" /\ UNCHANGED <<egress_queue, outbound_packet>>
     ELSE /\ outbound_packet' = Head(egress_queue)
          /\ egress_queue' = Tail(egress_queue)
          /\ ppc' = "room"
  /\ UNCHANGED <<egress_write_idx, egress_ring>>
  /\ PublisherFrame

\* The publisher waits for a free slot, and no longer once the process is stopping.
RingFull_off_by_one == egress_write_idx - egress_read_idx > RingSize
RingFull == egress_write_idx - egress_read_idx >= RingSize

PublisherRoom_no_break ==
  /\ ppc = "room"
  /\ ~RingFull
  /\ ppc' = "write"
  /\ UNCHANGED <<egress_write_idx, egress_ring, egress_queue, outbound_packet>>
  /\ PublisherFrame
PublisherRoom_drops ==
  /\ ppc = "room"
  /\ ppc' = IF RingFull THEN "loop" ELSE "write"
  /\ UNCHANGED <<egress_write_idx, egress_ring, egress_queue, outbound_packet>>
  /\ PublisherFrame
PublisherRoom ==
  /\ ppc = "room"
  /\ ~RingFull \/ ~engine_active
  /\ ppc' = "write"
  /\ UNCHANGED <<egress_write_idx, egress_ring, egress_queue, outbound_packet>>
  /\ PublisherFrame

PublisherWrite ==
  /\ ppc = "write"
  /\ egress_ring' = [egress_ring EXCEPT ![Slot(egress_write_idx)] = outbound_packet]
  /\ ppc' = "publish"
  /\ UNCHANGED <<egress_write_idx, egress_queue, outbound_packet>>
  /\ PublisherFrame

PublisherPublish ==
  /\ ppc = "publish"
  /\ egress_write_idx' = egress_write_idx + 1
  /\ ppc' = "loop"
  /\ UNCHANGED <<egress_ring, egress_queue, outbound_packet>>
  /\ PublisherFrame

egress_publisher_thread ==
  PublisherLoop \/ PublisherPop \/ PublisherRoom \/ PublisherWrite \/ PublisherPublish

-----------------------------------------------------------------------------
\* The metrics worker drains the queue between two looks at active_.
logging_loop ==
  /\ \/ /\ wpc = "test"
        /\ wpc' = IF active_ THEN "drain" ELSE "done"
        /\ UNCHANGED metrics_queue
     \/ /\ wpc = "drain" /\ metrics_queue = 0
        /\ wpc' = "test"
        /\ UNCHANGED metrics_queue
     \/ /\ wpc = "drain" /\ metrics_queue > 0
        /\ metrics_queue' = metrics_queue - 1
        /\ UNCHANGED wpc
  /\ UNCHANGED <<ingressVars, egressVars, gatewayVars, mainVars, egress_queue, coreVars,
                 publisherVars, active_, submitted, boundVars>>

\* The main thread: wait for the signal, join the threads, stop the worker.
main ==
  /\ \/ mpc = "wait" /\ ~engine_active /\ mpc' = "join_core" /\ UNCHANGED active_
     \/ mpc = "join_core" /\ cpc = "done" /\ mpc' = "join_publisher" /\ UNCHANGED active_
     \/ mpc = "join_publisher" /\ ppc = "done" /\ mpc' = "shutdown" /\ UNCHANGED active_
     \/ mpc = "shutdown" /\ active_' = FALSE /\ mpc' = "join_worker"
     \/ mpc = "join_worker" /\ wpc = "done" /\ mpc' = "exited" /\ UNCHANGED active_
  /\ UNCHANGED <<ingressVars, egressVars, gatewayVars, engine_active, egress_queue,
                 metrics_queue, coreVars, publisherVars, wpc, submitted, boundVars>>

signal_handler ==
  /\ mpc \notin {"exited", "crashed"}
  /\ signals < MaxSignals
  /\ engine_active' = FALSE
  /\ signals' = signals + 1
  /\ UNCHANGED <<ingressVars, egressVars, gatewayVars, mpc, egress_queue, metrics_queue,
                 coreVars, publisherVars, workerVars, submitted, crashes>>

\* The process dies at any point; what is in the shared memory stays.
Crash ==
  /\ mpc \notin {"exited", "crashed"}
  /\ crashes < MaxCrashes
  /\ crashes' = crashes + 1
  /\ mpc' = "crashed" /\ cpc' = "done" /\ ppc' = "done" /\ wpc' = "done"
  /\ egress_queue' = <<>> /\ metrics_queue' = 0
  /\ UNCHANGED <<ingressVars, egressVars, gatewayVars, engine_active, processed, outcome, fill,
                 report, iteration_counter, outbound_packet, active_, submitted, signals>>

\* run_pipeline.sh starts the next process, which goes on at the stored indices.
Start ==
  /\ mpc \in {"exited", "crashed"}
  /\ engine_active' = TRUE /\ mpc' = "wait"
  /\ egress_queue' = <<>> /\ metrics_queue' = 0
  /\ cpc' = "loop" /\ processed' = 0 /\ outcome' = Rejected /\ fill' = 1
  /\ report' = NoReport /\ iteration_counter' = 0
  /\ ppc' = "loop" /\ outbound_packet' = NoReport
  /\ wpc' = "test" /\ active_' = TRUE
  /\ UNCHANGED <<ingress_write_idx, ingress_ring, egressVars, gatewayVars, submitted, boundVars>>

Restart_rereads ==
  /\ Start
  /\ ingress_read_idx' = IF ingress_read_idx > 0 THEN ingress_read_idx - 1 ELSE 0
Restart_skips_backlog ==
  /\ Start
  /\ ingress_read_idx' = ingress_write_idx
Restart ==
  /\ Start
  /\ UNCHANGED ingress_read_idx

Enqueue == EnqueueWrite \/ EnqueuePublish
Dequeue == DequeueRead \/ DequeueRelease

\* What happens to an engine that is not told to stop, when main only waits; and all.
ServeNext == \/ Enqueue
             \/ Dequeue
             \/ core_thread
             \/ egress_publisher_thread
             \/ logging_loop
             \/ Crash
             \/ Restart
Next == ServeNext \/ main \/ signal_handler

\* The operating system runs the gateway and every thread of the engine (EngineScheduling
\* derives it for the three CPUs of run_n2n.sh, and refutes it for the one of
\* run_pipeline.sh), and an ended engine is started again; nothing makes a client send, a
\* signal arrive or the process die.
Fairness ==
  /\ WF_vars(core_thread)
  /\ WF_vars(egress_publisher_thread)
  /\ WF_vars(logging_loop)
  /\ WF_vars(Restart)
  /\ WF_vars(EnqueuePublish)
  /\ WF_vars(Dequeue)
ServeSpec == Init /\ [][ServeNext]_vars /\ Fairness
Spec == Init /\ [][Next]_vars /\ Fairness /\ WF_vars(main)

-----------------------------------------------------------------------------
\* Report s comes after report r in the stream the core produces.
After(r, s) == r.order < s.order \/ (r.order = s.order /\ r.n < s.n)

\* Report s comes right after report r.
Follows(r, s) == IF r.last THEN s.order = r.order + 1 /\ s.n = 1
                           ELSE s.order = r.order /\ s.n = r.n + 1

\* Until the engine is told to stop, the gateway never sees a report twice or out of
\* order, whatever crashes and restarts happen in between: the ingress index is stored
\* before the first report of an order is pushed, and the egress index after the slot is
\* written.  (A stopping publisher no longer waits for room and overwrites reports.)
DeliveredInOrder ==
  [][outpc = "release" /\ outpc' = "idle" /\ signals = 0 => After(delivered, delivered')]_vars

\* If moreover the process has not crashed, the gateway sees every report: neither the
\* bounded egress queue nor the bounded ring loses one.
NoReportSkipped ==
  [][outpc = "release" /\ outpc' = "idle" /\ signals = 0 /\ crashes = 0
       => Follows(delivered, delivered')]_vars

\* No packet is passed over, also across crashes and graceful exits: the index is stored
\* only after the packet was submitted.  A crash between the two submits the packet
\* again, to the empty book of the next process; nothing else does.
NoPacketSkipped ==
  [][cpc = "poll" /\ cpc' = "release" =>
       submitted' = submitted + 1 \/ (submitted' = submitted /\ crashes > 0)]_vars

\* A packet that waits in the ring is answered, unless the process crashes once more or is
\* told to stop: full queues and rings hold the core up but never for good.
EveryPacketAnswered ==
  \A k \in 1 .. MaxPackets, c \in 0 .. MaxCrashes :
    (ingress_write_idx >= k /\ ingress_read_idx < k /\ crashes = c)
      ~> (\/ delivered.order > k \/ (delivered.order = k /\ delivered.last)
          \/ crashes > c \/ signals > 0)

\* After a signal every thread ends and main returns, also when the gateway has
\* stopped reading reports.  It needs MaxFills <= QueueCapacity: the publisher may be
\* gone while the core still pushes the reports of its last order.
ShutdownCompletes == ~engine_active ~> mpc \in {"exited", "crashed"}

\* A reject or accept report carries the price and the quantity of the order that it
\* names.
ReportMatchesOrder == delivered.body = delivered.order

\* When the process has exited gracefully, no report is left in the egress queue.
NoReportLost == mpc = "exited" => egress_queue = <<>>
=============================================================================
