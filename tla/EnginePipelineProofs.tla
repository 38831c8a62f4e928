------------------------ MODULE EnginePipelineProofs ------------------------
(***************************************************************************)
(* Theorems about EnginePipeline for every size of the rings, the queues   *)
(* and the batch window, any number of packets, fills, crashes and signals.*)
(***************************************************************************)
EXTENDS EngineScheduling, TLAPS

-----------------------------------------------------------------------------
(***************************************************************************)
(* The inductive invariant.                                                *)
(***************************************************************************)

\* The ingress slots between the two indices hold the packets of those places.
IngressInv ==
  /\ ingress_read_idx \in Nat
  /\ \A i \in Nat : ingress_read_idx <= i /\ i < ingress_write_idx =>
       ingress_ring[Slot(i)] = i + 1
  /\ inpc = "publish" =>
       /\ ingress_write_idx < MaxPackets
       /\ ingress_write_idx - ingress_read_idx < RingSize
       /\ ingress_ring[Slot(ingress_write_idx)] = ingress_write_idx + 1

\* The index follows the packet that was submitted: it is one behind from submit_order
\* until it is stored, and after a crash in between.
CoreInv ==
  /\ submitted \in {ingress_read_idx, ingress_read_idx + 1}
  /\ cpc = "release" =>
       processed = ingress_read_idx + 1 /\ ingress_read_idx < ingress_write_idx
  /\ cpc \in {"build", "push", "batch"} => processed = ingress_read_idx /\ ingress_read_idx > 0
  /\ cpc = "release" => submitted = ingress_read_idx + 1 /\ fill = 1
  /\ cpc \in {"build", "push", "batch"} => submitted = ingress_read_idx
  /\ cpc \in {"release", "build", "push"} => IF IsFill THEN fill <= outcome ELSE fill = 1
  /\ cpc = "push" => /\ report \in Reports
                     /\ report.order = processed /\ report.n = fill
                     /\ report.last = LastReport

\* Only a signal stops the process in an orderly way.
StopInv == /\ mpc = "crashed" => crashes > 0
           /\ signals = 0 => engine_active /\ mpc \in {"wait", "crashed"}

ServeInv == TypeOK /\ IngressInv /\ CoreInv /\ StopInv

-----------------------------------------------------------------------------
(***************************************************************************)
(* Numbers and slots.                                                      *)
(***************************************************************************)

\* The constants, one by one.
LEMMA Constants ==
  /\ RingSize \in Nat \ {0} /\ QueueCapacity \in Nat \ {0}
  /\ MetricsCapacity \in Nat \ {0} /\ BATCH_WINDOW \in Nat \ {0}
  /\ MaxFills \in Nat /\ MaxPackets \in Nat /\ MaxCrashes \in Nat /\ MaxSignals \in Nat
BY PipelineAssumption

\* An index has its slot in the ring.
LEMMA SlotRange == ASSUME NEW i \in Nat PROVE Slot(i) \in Slots
BY Constants DEF Slot, Slots

\* Indices less than a lap apart have different slots.
LEMMA SlotsOfLap ==
  ASSUME NEW i \in Nat, NEW j \in Nat, i < j, j - i < RingSize
  PROVE  Slot(i) # Slot(j)
<1>1. RingSize \in Nat \ {0} BY Constants
<1>2. ASSUME NEW n \in Nat PROVE \E a \in Int : n = RingSize * a + Slot(n)
  <2>1. n \div RingSize \in Int /\ n = RingSize * (n \div RingSize) + Slot(n)
    BY <1>1 DEF Slot
  <2> QED BY Zenon, <2>1
<1> PICK a \in Int : i = RingSize * a + Slot(i) BY <1>2
<1> PICK b \in Int : j = RingSize * b + Slot(j) BY <1>2
<1> DEFINE d == b - a
           e == RingSize * d
<1>3. d \in Int /\ e = RingSize * b - RingSize * a BY <1>1
<1> HIDE DEF d
<1>4. e <= 0 \/ e >= RingSize
  <2>1. CASE d <= 0 BY <1>1, <1>3, <2>1
  <2>2. CASE d >= 1 BY <1>1, <1>3, <2>2
  <2> QED BY <1>3, <2>1, <2>2
<1>5. Slot(i) \in Int /\ Slot(j) \in Int BY SlotRange DEF Slots
<1> DEFINE x == RingSize * a
           y == RingSize * b
<1>6. x \in Int /\ y \in Int /\ e = y - x /\ i = x + Slot(i) /\ j = y + Slot(j)
  BY <1>1, <1>3
<1> HIDE DEF e, x, y
<1> QED BY <1>1, <1>4, <1>5, <1>6

\* The indices of a window of RingSize have different slots.
LEMMA WindowDistinct ==
  ASSUME NEW r \in Nat, NEW i \in Nat, NEW j \in Nat, i # j,
         r <= i, i < r + RingSize, r <= j, j < r + RingSize
  PROVE  Slot(i) # Slot(j)
<1>1. (i < j /\ j - i < RingSize) \/ (j < i /\ i - j < RingSize) BY Constants
<1> QED BY Zenon, <1>1, SlotsOfLap

\* What the invariant says of the ingress indices.
LEMMA IngressNumbers ==
  ASSUME TypeOK, IngressInv
  PROVE  /\ ingress_read_idx \in Nat /\ ingress_write_idx \in Nat
         /\ ingress_read_idx <= ingress_write_idx /\ ingress_write_idx <= MaxPackets
         /\ ingress_write_idx <= ingress_read_idx + RingSize
BY Constants DEF TypeOK, IngressInv

-----------------------------------------------------------------------------
(***************************************************************************)
(* The packets.                                                            *)
(***************************************************************************)

\* The invariant holds at the start.
LEMMA ServeInit == Init => ServeInv
<1> SUFFICES ASSUME Init PROVE ServeInv OBVIOUS
<1>1. TypeOK BY Constants DEF Init, ProcessInit, TypeOK, Slots, Outcomes, Rejected
<1>2. IngressInv BY DEF Init, IngressInv
<1>3. CoreInv BY DEF Init, ProcessInit, CoreInv
<1>4. StopInv BY DEF Init, ProcessInit, StopInv
<1> QED BY <1>1, <1>2, <1>3, <1>4 DEF ServeInv

\* The gateway's two ends of the rings.
LEMMA GatewayServes == ASSUME ServeInv, Enqueue \/ Dequeue PROVE ServeInv'
<1> USE DEF ServeInv
<1>0. /\ ingress_read_idx \in Nat /\ ingress_write_idx \in Nat
      /\ ingress_read_idx <= ingress_write_idx /\ ingress_write_idx <= MaxPackets
      /\ ingress_write_idx <= ingress_read_idx + RingSize
      /\ RingSize \in Nat \ {0} /\ MaxPackets \in Nat
  BY IngressNumbers, Constants
<1>1. CASE EnqueueWrite
  <2>1. /\ ingress_write_idx < MaxPackets
        /\ ingress_write_idx - ingress_read_idx < RingSize
    BY <1>0, <1>1 DEF EnqueueWrite
  <2>2. ingress_ring' = [ingress_ring EXCEPT ![Slot(ingress_write_idx)] = ingress_write_idx + 1]
    BY <1>1 DEF EnqueueWrite
  <2>3. ingress_ring \in [Slots -> 0 .. MaxPackets] BY DEF TypeOK
  <2>4. Slot(ingress_write_idx) \in Slots BY <1>0, SlotRange
  <2>5. ingress_write_idx + 1 \in 0 .. MaxPackets BY <1>0, <2>1
  <2>6. ingress_ring' \in [Slots -> 0 .. MaxPackets] BY <2>2, <2>3, <2>4, <2>5
  <2>7. TypeOK'
    BY SMTT(30), <1>1, <2>6 DEF EnqueueWrite, TypeOK, egressVars, processVars, mainVars, coreVars,
                      publisherVars, workerVars, boundVars
  <2>8. IngressInv'
    <3>1. ingress_ring'[Slot(ingress_write_idx)] = ingress_write_idx + 1 BY <2>2, <2>3, <2>4
    <3>2. ASSUME NEW i \in Nat, ingress_read_idx <= i, i < ingress_write_idx
          PROVE  ingress_ring'[Slot(i)] = i + 1
      <4>1. Slot(i) # Slot(ingress_write_idx) BY <1>0, <2>1, <3>2, WindowDistinct
      <4>2. Slot(i) \in Slots BY SlotRange
      <4>3. ingress_ring[Slot(i)] = i + 1 BY <3>2 DEF IngressInv
      <4> QED BY <4>1, <4>2, <4>3, <2>2, <2>3
    <3>3. UNCHANGED <<ingress_read_idx, ingress_write_idx>> BY <1>1 DEF EnqueueWrite
    <3> QED BY <1>0, <2>1, <3>1, <3>2, <3>3 DEF IngressInv
  <2>9. CoreInv' /\ StopInv'
    BY <1>1 DEF EnqueueWrite, CoreInv, StopInv, IsFill, LastReport, processVars, mainVars,
                coreVars, boundVars
  <2> QED BY <2>7, <2>8, <2>9
<1>2. CASE EnqueuePublish
  <2>1. /\ ingress_write_idx < MaxPackets
        /\ ingress_write_idx - ingress_read_idx < RingSize
        /\ ingress_ring[Slot(ingress_write_idx)] = ingress_write_idx + 1
    BY <1>2 DEF EnqueuePublish, IngressInv
  <2>2. ingress_write_idx' \in 0 .. MaxPackets
        /\ ingress_write_idx' - ingress_read_idx \in 0 .. RingSize
    BY <1>0, <1>2, <2>1 DEF EnqueuePublish
  <2>3. TypeOK'
    BY SMTT(30), <1>2, <2>2 DEF EnqueuePublish, TypeOK, egressVars, processVars, mainVars, coreVars,
                      publisherVars, workerVars, boundVars
  <2>4. IngressInv' BY <1>0, <1>2, <2>1 DEF EnqueuePublish, IngressInv
  <2>5. CoreInv' /\ StopInv'
    BY <1>0, <1>2 DEF EnqueuePublish, CoreInv, StopInv, IsFill, LastReport, processVars,
                      mainVars, coreVars, boundVars
  <2> QED BY <2>3, <2>4, <2>5
<1>3. CASE Dequeue
  <2>1. UNCHANGED <<ingressVars, egress_write_idx, egress_ring, inpc, processVars, submitted, boundVars>>
    BY <1>3 DEF Dequeue, DequeueRead, DequeueRelease, egressVars
  <2>2. /\ egress_read_idx' \in Nat /\ outpc' \in {"idle", "release"}
        /\ {packet', delivered'} \subseteq Reports \cup {NoReport}
    <3>1. Slot(egress_read_idx) \in Slots BY SlotRange DEF TypeOK
    <3>2. CASE DequeueRead BY <3>1, <3>2 DEF DequeueRead, egressVars, TypeOK
    <3>3. CASE DequeueRelease BY <3>1, <3>3 DEF DequeueRelease, TypeOK
    <3> QED BY Zenon, <1>3, <3>2, <3>3 DEF Dequeue
  <2>3. TypeOK'
    BY <2>1, <2>2 DEF TypeOK, ingressVars, processVars, mainVars, coreVars, publisherVars,
                      workerVars, boundVars
  <2>4. IngressInv' BY <2>1 DEF IngressInv, ingressVars
  <2>5. CoreInv' /\ StopInv'
    BY <2>1 DEF CoreInv, StopInv, IsFill, LastReport, ingressVars, processVars, mainVars,
                coreVars, boundVars
  <2> QED BY <2>3, <2>4, <2>5
<1> QED BY <1>1, <1>2, <1>3 DEF Enqueue

\* What the core changes has its type.
LEMMA CoreTypes ==
  ASSUME TypeOK, CoreFrame,
         ingress_write_idx - ingress_read_idx' \in 0 .. RingSize,
         egress_queue' \in Seq(Reports), Len(egress_queue') <= QueueCapacity,
         metrics_queue' \in 0 .. MetricsCapacity,
         cpc' \in {"loop", "poll", "release", "build", "push", "batch", "done"},
         processed' \in 0 .. MaxPackets, submitted' \in 0 .. MaxPackets,
         outcome' \in Outcomes, fill' \in 1 .. MaxFills + 1,
         report' \in Reports \cup {NoReport},
         iteration_counter' \in 0 .. BATCH_WINDOW - 1
  PROVE  TypeOK'
<1>1. /\ ingress_write_idx' \in 0 .. MaxPackets
      /\ ingress_write_idx' - ingress_read_idx' \in 0 .. RingSize
      /\ ingress_ring' \in [Slots -> 0 .. MaxPackets]
  BY DEF TypeOK, CoreFrame
<1>2. /\ egress_read_idx' \in Nat /\ egress_write_idx' \in Nat
      /\ egress_ring' \in [Slots -> Reports \cup {NoReport}]
      /\ inpc' \in {"idle", "publish"} /\ outpc' \in {"idle", "release"}
      /\ {packet', delivered', report', outbound_packet'} \subseteq Reports \cup {NoReport}
  BY DEF TypeOK, CoreFrame, egressVars, gatewayVars, publisherVars
<1>3. /\ engine_active' \in BOOLEAN /\ active_' \in BOOLEAN
      /\ mpc' \in {"wait", "join_core", "join_publisher", "shutdown", "join_worker", "exited",
                   "crashed"}
      /\ ppc' \in {"loop", "pop", "room", "write", "publish", "done"}
      /\ wpc' \in {"test", "drain", "done"}
      /\ crashes' \in 0 .. MaxCrashes /\ signals' \in 0 .. MaxSignals
  BY DEF TypeOK, CoreFrame, mainVars, publisherVars, workerVars, boundVars
<1> QED BY Zenon, <1>1, <1>2, <1>3 DEF TypeOK

\* The core: what it submits is the packet at the read index.
LEMMA CoreServes == ASSUME ServeInv, core_thread PROVE ServeInv'
<1> USE DEF ServeInv
<1>0. /\ ingress_read_idx \in Nat /\ ingress_write_idx \in Nat
      /\ ingress_read_idx <= ingress_write_idx /\ ingress_write_idx <= MaxPackets
      /\ ingress_write_idx <= ingress_read_idx + RingSize
      /\ RingSize \in Nat \ {0} /\ MaxPackets \in Nat /\ MaxFills \in Nat
      /\ QueueCapacity \in Nat \ {0} /\ MetricsCapacity \in Nat \ {0}
      /\ BATCH_WINDOW \in Nat \ {0}
  BY IngressNumbers, Constants
<1>f. /\ StopInv'
      /\ UNCHANGED <<ingress_write_idx, ingress_ring, inpc>>
      /\ CoreFrame
  <2>1. CoreFrame
    BY DEF core_thread, CoreLoop, CoreIdle, CoreSubmit, CoreRelease, CoreBuild, CorePush, CoreBatch
  <2> QED BY <2>1 DEF CoreFrame, StopInv, mainVars, boundVars, gatewayVars
<1>i. ingress_read_idx' = ingress_read_idx => IngressInv'
  BY <1>f DEF IngressInv
<1>1. CASE CoreLoop \/ CoreIdle
  <2>1. /\ cpc' \in {"loop", "poll", "done"}
        /\ UNCHANGED <<ingress_read_idx, egress_queue, metrics_queue, processed, outcome, fill,
                       report, iteration_counter, submitted>>
    BY Zenon, <1>1 DEF CoreLoop, CoreIdle
  <2>2. TypeOK' BY Zenon, CoreTypes, <1>f, <2>1 DEF TypeOK
  <2>3. CoreInv' BY <2>1 DEF CoreInv
  <2> QED BY <2>1, <2>2, <2>3, <1>f, <1>i
<1>2. ASSUME NEW result \in Outcomes, CoreSubmit(result) PROVE ServeInv'
  <2>1. ingress_read_idx < ingress_write_idx BY <1>0, <1>2 DEF CoreSubmit
  <2>2. ingress_ring[Slot(ingress_read_idx)] = ingress_read_idx + 1
    BY <1>0, <2>1 DEF IngressInv
  <2>3. /\ processed' = ingress_read_idx + 1 /\ submitted' = ingress_read_idx + 1
        /\ outcome' = result /\ fill' = 1 /\ cpc' = "release"
        /\ UNCHANGED <<ingress_read_idx, egress_queue, metrics_queue, report, iteration_counter>>
    BY <1>2, <2>2 DEF CoreSubmit
  <2>4. processed' \in 0 .. MaxPackets /\ submitted' \in 0 .. MaxPackets
    BY <1>0, <2>1, <2>3
  <2>5. TypeOK' BY <1>0, CoreTypes, <1>f, <2>3, <2>4 DEF TypeOK
  <2>6. IF IsFill' THEN fill' <= outcome' ELSE fill' = 1
    BY <1>0, <2>3 DEF IsFill, Outcomes, Rejected
  <2>7. CoreInv' BY <1>f, <2>1, <2>3, <2>6 DEF CoreInv
  <2> QED BY <2>3, <2>5, <2>7, <1>f, <1>i
<1>3. CASE CoreRelease
  <2>1. /\ processed = ingress_read_idx + 1 /\ submitted = ingress_read_idx + 1
        /\ ingress_read_idx < ingress_write_idx
        /\ IF IsFill THEN fill <= outcome ELSE fill = 1
    BY <1>3 DEF CoreRelease, CoreInv
  <2>2. /\ ingress_read_idx' = ingress_read_idx + 1 /\ cpc' = "build"
        /\ UNCHANGED <<egress_queue, metrics_queue, processed, outcome, fill, report,
                       iteration_counter, submitted>>
    BY <1>3 DEF CoreRelease
  <2>3. ingress_write_idx - ingress_read_idx' \in 0 .. RingSize BY <1>0, <2>1, <2>2
  <2>4. TypeOK' BY Zenon, CoreTypes, <1>f, <2>2, <2>3 DEF TypeOK
  <2>5. IngressInv' BY <1>0, <1>f, <2>1, <2>2 DEF IngressInv
  <2>6. CoreInv' BY <1>0, <2>1, <2>2 DEF CoreInv, IsFill
  <2> QED BY <2>4, <2>5, <2>6, <1>f
<1>4. CASE CoreBuild
  <2>1. /\ processed = ingress_read_idx /\ submitted = ingress_read_idx /\ ingress_read_idx > 0
        /\ IF IsFill THEN fill <= outcome ELSE fill = 1
    BY <1>4 DEF CoreBuild, CoreInv
  <2>2. /\ cpc' = "push"
        /\ UNCHANGED <<ingress_read_idx, egress_queue, metrics_queue, processed, outcome, fill,
                       iteration_counter, submitted>>
    BY <1>4 DEF CoreBuild
  <2> DEFINE body == IF IsFill THEN processed ELSE ingress_ring[Slot(ingress_read_idx - 1)]
  <2>3. report' = [order |-> processed, n |-> fill, last |-> LastReport, body |-> body]
    BY <1>4 DEF CoreBuild
  <2>4. Slot(ingress_read_idx - 1) \in Slots BY <1>0, <2>1, SlotRange
  <2>5. body \in 0 .. MaxPackets BY <1>0, <2>1, <2>4 DEF TypeOK
  <2>6. processed \in 1 .. MaxPackets /\ fill \in 1 .. MaxFills + 1
    BY <1>0, <2>1 DEF TypeOK
  <2>7. LastReport \in BOOLEAN BY DEF LastReport
  <2> HIDE DEF body
  <2>8. report' \in Reports BY <2>3, <2>5, <2>6, <2>7 DEF Reports
  <2>9. TypeOK' BY Zenon, CoreTypes, <1>f, <2>2, <2>8 DEF TypeOK
  <2>10. /\ report'.order = processed' /\ report'.n = fill'
         /\ report'.last = LastReport'
    BY <2>2, <2>3 DEF LastReport, IsFill
  <2>11. CoreInv' BY <2>1, <2>2, <2>8, <2>10 DEF CoreInv, IsFill
  <2> QED BY <2>2, <2>9, <2>11, <1>f, <1>i
<1>5. CASE CorePush
  <2>1. /\ processed = ingress_read_idx /\ submitted = ingress_read_idx /\ ingress_read_idx > 0
        /\ IF IsFill THEN fill <= outcome ELSE fill = 1
        /\ report \in Reports
    BY <1>5 DEF CorePush, CoreInv
  <2>2. /\ Len(egress_queue) < QueueCapacity
        /\ egress_queue' = Append(egress_queue, report)
        /\ UNCHANGED <<ingress_read_idx, metrics_queue, processed, outcome, report,
                       iteration_counter, submitted>>
        /\ IF LastReport THEN cpc' = "batch" /\ fill' = fill ELSE cpc' = "build" /\ fill' = fill + 1
    BY <1>5 DEF CorePush
  <2>3. egress_queue' \in Seq(Reports) /\ Len(egress_queue') <= QueueCapacity
    BY <1>0, <2>1, <2>2 DEF TypeOK
  <2>4. ~LastReport => IsFill /\ fill + 1 <= outcome /\ outcome <= MaxFills
    BY <1>0, <2>1 DEF LastReport, IsFill, TypeOK, Outcomes, Rejected
  <2>5. fill' \in 1 .. MaxFills + 1 BY <1>0, <2>2, <2>4 DEF TypeOK, Outcomes, Rejected
  <2>6. TypeOK' BY Zenon, CoreTypes, <1>f, <2>2, <2>3, <2>5 DEF TypeOK
  <2>7. CoreInv'
    <3>1. CASE LastReport BY <2>1, <2>2, <3>1 DEF CoreInv
    <3>2. CASE ~LastReport BY <2>1, <2>2, <2>4, <3>2 DEF CoreInv, IsFill
    <3> QED BY <3>1, <3>2
  <2> QED BY <2>2, <2>6, <2>7, <1>f, <1>i
<1>6. CASE CoreBatch
  <2>1. /\ cpc' = "loop"
        /\ UNCHANGED <<ingress_read_idx, egress_queue, processed, outcome, fill, report, submitted>>
    BY <1>6 DEF CoreBatch
  <2>2. iteration_counter' \in 0 .. BATCH_WINDOW - 1 /\ metrics_queue' \in 0 .. MetricsCapacity
    BY <1>0, <1>6 DEF CoreBatch, TypeOK
  <2>3. TypeOK' BY Zenon, CoreTypes, <1>f, <2>1, <2>2 DEF TypeOK
  <2>4. CoreInv' BY <2>1 DEF CoreInv
  <2> QED BY <2>1, <2>3, <2>4, <1>f, <1>i
<1> QED BY <1>1, <1>2, <1>3, <1>4, <1>5, <1>6 DEF core_thread

\* The publisher touches no packet.
LEMMA PublisherServes == ASSUME ServeInv, egress_publisher_thread PROVE ServeInv'
<1> USE DEF ServeInv
<1>0. PublisherFrame
  BY DEF egress_publisher_thread, PublisherLoop, PublisherPop, PublisherRoom, PublisherWrite,
         PublisherPublish
<1>1. IngressInv' /\ CoreInv' /\ StopInv'
  BY <1>0 DEF PublisherFrame, IngressInv, CoreInv, StopInv, IsFill, LastReport, ingressVars,
              gatewayVars, mainVars, coreVars, boundVars
<1>2. /\ ppc' \in {"loop", "pop", "room", "write", "publish", "done"}
      /\ egress_write_idx' \in Nat
      /\ egress_ring' \in [Slots -> Reports \cup {NoReport}]
      /\ egress_queue' \in Seq(Reports) /\ Len(egress_queue') <= QueueCapacity
      /\ outbound_packet' \in Reports \cup {NoReport}
  <2>0. /\ egress_queue \in Seq(Reports) /\ Len(egress_queue) <= QueueCapacity
        /\ egress_write_idx \in Nat
        /\ egress_ring \in [Slots -> Reports \cup {NoReport}]
        /\ outbound_packet \in Reports \cup {NoReport} /\ QueueCapacity \in Nat
        /\ Slot(egress_write_idx) \in Slots
    BY Zenon, SlotRange, Constants DEF TypeOK
  <2>1. CASE PublisherPop
    <3>1. CASE egress_queue = <<>> BY <2>0, <2>1, <3>1 DEF PublisherPop
    <3>2. CASE egress_queue # <<>>
      <4>1. /\ Head(egress_queue) \in Reports /\ Tail(egress_queue) \in Seq(Reports)
            /\ Len(Tail(egress_queue)) <= QueueCapacity
        BY <2>0, <3>2
      <4> QED BY <2>0, <2>1, <3>2, <4>1 DEF PublisherPop
    <3> QED BY <3>1, <3>2
  <2>2. CASE PublisherLoop \/ PublisherRoom \/ PublisherPublish
    BY <2>0, <2>2 DEF PublisherLoop, PublisherRoom, PublisherPublish
  <2>3. CASE PublisherWrite BY <2>0, <2>3 DEF PublisherWrite
  <2> QED BY <2>1, <2>2, <2>3 DEF egress_publisher_thread
<1>3. TypeOK'
  BY SMTT(30), <1>0, <1>2 DEF PublisherFrame, TypeOK, ingressVars, gatewayVars, mainVars, coreVars,
                    workerVars, boundVars
<1> QED BY <1>1, <1>3

\* The worker, the main thread, signals, crashes and restarts.
LEMMA ProcessServes ==
  ASSUME ServeInv, logging_loop \/ main \/ signal_handler \/ Crash \/ Restart
  PROVE  ServeInv'
<1> USE DEF ServeInv, ingressVars, egressVars, gatewayVars, mainVars, coreVars, publisherVars,
            workerVars, boundVars
<1>0. /\ MetricsCapacity \in Nat /\ MaxCrashes \in Nat /\ MaxSignals \in Nat /\ MaxFills \in Nat
      /\ BATCH_WINDOW \in Nat \ {0} /\ QueueCapacity \in Nat /\ MaxPackets \in Nat
  BY Constants
<1>1. CASE logging_loop
  <2>1. TypeOK' BY <1>0, <1>1 DEF logging_loop, TypeOK
  <2>2. IngressInv' /\ CoreInv' /\ StopInv'
    BY <1>1 DEF logging_loop, IngressInv, CoreInv, StopInv, IsFill, LastReport
  <2> QED BY <2>1, <2>2
<1>2. CASE main
  <2>0. active_' \in BOOLEAN BY Zenon, <1>2 DEF main, TypeOK
  <2>1. TypeOK'
    <3>1. mpc' \in {"join_core", "join_publisher", "shutdown", "join_worker", "exited"}
      BY <1>2 DEF main
    <3>2. UNCHANGED <<ingressVars, egressVars, gatewayVars, engine_active, egress_queue,
                      metrics_queue, coreVars, publisherVars, wpc, submitted, boundVars>>
      BY <1>2 DEF main
    <3> QED BY <2>0, <3>1, <3>2 DEF TypeOK
  <2>2. IngressInv' /\ CoreInv' BY <1>2 DEF main, IngressInv, CoreInv, IsFill, LastReport
  <2>3. StopInv' BY <1>2 DEF main, StopInv
  <2> QED BY <2>1, <2>2, <2>3
<1>3. CASE signal_handler
  <2>1. TypeOK'
    <3>1. engine_active' \in BOOLEAN BY Zenon, <1>3 DEF signal_handler
    <3>2. signals' \in 0 .. MaxSignals BY <1>0, <1>3 DEF signal_handler, TypeOK
    <3>3. UNCHANGED <<ingressVars, egressVars, gatewayVars, mpc, egress_queue, metrics_queue,
                      coreVars, publisherVars, workerVars, submitted, crashes>>
      BY <1>3 DEF signal_handler
    <3> QED BY <3>1, <3>2, <3>3 DEF TypeOK
  <2>2. IngressInv' /\ CoreInv'
    BY <1>3 DEF signal_handler, IngressInv, CoreInv, IsFill, LastReport
  <2>3. signals' # 0 BY <1>0, <1>3 DEF signal_handler, TypeOK
  <2>4. StopInv' BY <1>3, <2>3 DEF signal_handler, StopInv
  <2> QED BY <2>1, <2>2, <2>4
<1>4. CASE Crash
  <2>1. TypeOK' BY <1>0, <1>4 DEF Crash, TypeOK
  <2>2. IngressInv' /\ CoreInv' BY <1>4 DEF Crash, IngressInv, CoreInv
  <2>3. crashes' > 0 BY <1>0, <1>4 DEF Crash, TypeOK
  <2>4. StopInv' BY <1>4, <2>3 DEF Crash, StopInv
  <2> QED BY <2>1, <2>2, <2>4
<1>5. CASE Restart
  <2>1. TypeOK'
    BY <1>0, <1>5 DEF Restart, Start, TypeOK, Outcomes, Rejected
  <2>2. IngressInv' /\ CoreInv' /\ StopInv'
    BY <1>5 DEF Restart, Start, IngressInv, CoreInv, StopInv
  <2> QED BY <2>1, <2>2
<1> QED BY <1>1, <1>2, <1>3, <1>4, <1>5

\* Every step keeps the packets in order.
LEMMA ServeNextOK == ServeInv /\ [Next]_vars => ServeInv'
<1> SUFFICES ASSUME ServeInv, [Next]_vars PROVE ServeInv' OBVIOUS
<1>1. CASE UNCHANGED vars
  <2> USE <1>1 DEF vars, ingressVars, egressVars, gatewayVars, processVars, mainVars, coreVars,
                   publisherVars, workerVars, boundVars
  <2>1. TypeOK' BY DEF ServeInv, TypeOK
  <2>2. IngressInv' /\ CoreInv' /\ StopInv'
    BY DEF ServeInv, IngressInv, CoreInv, StopInv, IsFill, LastReport
  <2> QED BY <2>1, <2>2 DEF ServeInv
<1> QED
  BY <1>1, GatewayServes, CoreServes, PublisherServes, ProcessServes DEF Next, ServeNext

\* The invariant of the packets, under any crashes and signals.
THEOREM ServeInvariant == Spec => []ServeInv
BY ServeInit, ServeNextOK, PTL DEF Spec

\* Indices, queues and counters stay in their ranges: no ring and no queue overflows.
THEOREM TypeCorrect == Spec => []TypeOK
<1>1. ServeInv => TypeOK BY DEF ServeInv
<1> QED BY <1>1, ServeInvariant, PTL

\* main joins the core before it goes on, and only a crash parts submit_order from the store
\* of the index.
OnceInv ==
  /\ mpc \in {"join_publisher", "shutdown", "join_worker", "exited"} => cpc = "done"
  /\ crashes = 0 /\ cpc # "release" => submitted = ingress_read_idx

\* The core keeps this: it stores the index before it goes on.
LEMMA CoreOnce == ASSUME ServeInv, OnceInv, core_thread PROVE OnceInv'
<1>1. UNCHANGED <<mpc, crashes>>
  BY Zenon DEF core_thread, CoreLoop, CoreIdle, CoreSubmit, CoreRelease, CoreBuild, CorePush,
               CoreBatch, CoreFrame, mainVars, boundVars
<1>2. cpc # "done"
  BY DEF core_thread, CoreLoop, CoreIdle, CoreSubmit, CoreRelease, CoreBuild, CorePush, CoreBatch
<1>3. CASE cpc = "release"
  <2>1. CoreRelease
    BY <1>3 DEF core_thread, CoreLoop, CoreIdle, CoreSubmit, CoreBuild, CorePush, CoreBatch
  <2>2. ingress_read_idx' = ingress_read_idx + 1 /\ submitted' = submitted
    BY Zenon, <2>1 DEF CoreRelease
  <2>3. submitted = ingress_read_idx + 1 BY Zenon, <1>3 DEF ServeInv, CoreInv
  <2> QED BY Zenon, <1>1, <1>2, <2>2, <2>3 DEF OnceInv
<1>4. CASE cpc # "release"
  <2>1. \/ cpc' = "release"
        \/ UNCHANGED <<submitted, ingress_read_idx>>
    BY Zenon, <1>4 DEF core_thread, CoreLoop, CoreIdle, CoreSubmit, CoreRelease, CoreBuild,
                       CorePush, CoreBatch
  <2> QED BY Zenon, <1>1, <1>2, <1>4, <2>1 DEF OnceInv
<1> QED BY Zenon, <1>3, <1>4

\* Every step keeps it.
LEMMA OnceNext == ServeInv /\ OnceInv /\ [Next]_vars => OnceInv'
<1> SUFFICES ASSUME ServeInv, OnceInv, [Next]_vars PROVE OnceInv' OBVIOUS
<1> DEFINE frame == UNCHANGED <<mpc, cpc, crashes, submitted, ingress_read_idx>>
<1>1. CASE frame BY Zenon, <1>1 DEF OnceInv
<1>2. CASE core_thread BY Zenon, <1>2, CoreOnce
<1>3. CASE main
  <2>1. UNCHANGED <<cpc, crashes, submitted, ingress_read_idx>>
    BY Zenon, <1>3 DEF main, coreVars, boundVars, ingressVars
  <2>2. mpc' \in {"join_publisher", "shutdown", "join_worker", "exited"} => cpc = "done"
    BY <1>3 DEF main, OnceInv
  <2> QED BY Zenon, <2>1, <2>2 DEF OnceInv
<1>4. CASE Crash
  <2>1. crashes' # 0 BY <1>4, Constants DEF Crash, ServeInv, TypeOK
  <2>2. cpc' = "done" BY Zenon, <1>4 DEF Crash
  <2> QED BY Zenon, <2>1, <2>2 DEF OnceInv
<1>5. CASE Restart
  <2>1. /\ mpc' = "wait" /\ mpc \in {"exited", "crashed"}
        /\ UNCHANGED <<crashes, submitted, ingress_read_idx>>
    BY Zenon, <1>5 DEF Restart, Start, boundVars
  <2>2. CASE mpc = "crashed"
    <3>1. crashes # 0 BY <2>2, Constants DEF ServeInv, StopInv, TypeOK
    <3> QED BY <2>1, <3>1 DEF OnceInv
  <2>3. CASE mpc = "exited"
    <3>1. cpc = "done" BY Zenon, <2>3 DEF OnceInv
    <3> QED BY <2>1, <3>1 DEF OnceInv
  <2> QED BY Zenon, <2>1, <2>2, <2>3
<1>6. Enqueue \/ Dequeue \/ egress_publisher_thread \/ logging_loop \/ signal_handler
        \/ UNCHANGED vars => frame
  BY ZenonT(40) DEF Enqueue, EnqueueWrite, EnqueuePublish, Dequeue, DequeueRead, DequeueRelease,
       egress_publisher_thread, PublisherLoop, PublisherPop, PublisherRoom, PublisherWrite,
       PublisherPublish, PublisherFrame, logging_loop, signal_handler, vars, ingressVars,
       processVars, mainVars, coreVars, boundVars
<1> HIDE DEF frame
<1> QED BY Zenon, <1>1, <1>2, <1>3, <1>4, <1>5, <1>6 DEF Next, ServeNext

\* Each packet is submitted once and in turn, for every ring size, whatever stops and
\* restarts; a crash between submit_order and the store of the index makes the next process
\* submit the last one again.
THEOREM PacketsInOrder == Spec => NoPacketSkipped
<1> DEFINE InOrder == cpc = "poll" /\ cpc' = "release" =>
                        submitted' = submitted + 1 \/ (submitted' = submitted /\ crashes > 0)
<1>1. ASSUME ServeInv, OnceInv, [Next]_vars, cpc = "poll", cpc' = "release"
      PROVE  submitted' = submitted + 1 \/ (submitted' = submitted /\ crashes > 0)
  <2>1. submitted' = ingress_read_idx' + 1
    <3>1. ServeInv' BY ZenonT(40), <1>1, ServeNextOK
    <3> QED BY <1>1, <3>1 DEF ServeInv, CoreInv
  <2>2. ingress_read_idx' = ingress_read_idx
    BY ZenonT(40), <1>1 DEF Next, ServeNext, Enqueue, EnqueueWrite, EnqueuePublish, Dequeue, DequeueRead,
                DequeueRelease, core_thread, CoreLoop, CoreIdle, CoreSubmit, CoreRelease,
                CoreBuild, CorePush, CoreBatch, egress_publisher_thread, PublisherLoop,
                PublisherPop, PublisherRoom, PublisherWrite, PublisherPublish, PublisherFrame,
                logging_loop, main, signal_handler, Crash, Restart, vars, ingressVars
  <2>3. submitted \in {ingress_read_idx, ingress_read_idx + 1} /\ ingress_read_idx \in Nat
    BY <1>1 DEF ServeInv, CoreInv, IngressInv
  <2>4. crashes \in Nat /\ (crashes = 0 => submitted = ingress_read_idx)
    BY <1>1, Constants DEF OnceInv, ServeInv, TypeOK
  <2> QED BY ONLY <2>1, <2>2, <2>3, <2>4
<1>2. ServeInv /\ OnceInv /\ [Next]_vars => [InOrder]_vars BY <1>1
<1>3. Init => OnceInv BY DEF Init, ProcessInit, OnceInv
<1> QED BY <1>2, <1>3, OnceNext, ServeInvariant, PTL DEF Spec, NoPacketSkipped

-----------------------------------------------------------------------------
(***************************************************************************)
(* The reports.  Until a signal, what lies between the core and the        *)
(* gateway is one sequence, spread over the egress ring, the publisher's   *)
(* hand and the egress queue.                                              *)
(***************************************************************************)

Holding == ppc \in {"room", "write", "publish"}
Held == IF Holding THEN 1 ELSE 0
Window == egress_write_idx - egress_read_idx
InFlight == Window + Held + Len(egress_queue)
Flow == [k \in 1 .. InFlight |->
           IF k <= Window THEN egress_ring[Slot(egress_read_idx + k - 1)]
           ELSE IF Holding /\ k = Window + 1 THEN outbound_packet
           ELSE egress_queue[k - Window - Held]]

\* The ring is never overfull, and both ends handle its first and its next report.
EgressInv ==
  /\ Window \in 0 .. RingSize
  /\ ppc \in {"write", "publish"} => Window < RingSize
  /\ ppc = "publish" => egress_ring[Slot(egress_write_idx)] = outbound_packet
  /\ outpc = "release" => Window > 0 /\ packet = egress_ring[Slot(egress_read_idx)]

\* r is a report that the core has built and pushed.
Emitted(r) ==
  IF cpc \in {"build", "push"}
  THEN After(r, [order |-> processed, n |-> fill])
  ELSE r.order <= ingress_read_idx

\* The reports in flight are in order, after the last one delivered.
StreamInv ==
  /\ Emitted(delivered)
  /\ \A k \in 1 .. InFlight : After(delivered, Flow[k]) /\ Emitted(Flow[k])
  /\ \A k, l \in 1 .. InFlight : k < l => After(Flow[k], Flow[l])

\* Without a crash they have no gap.
Newest == IF InFlight = 0 THEN delivered ELSE Flow[InFlight]
ChainInv ==
  /\ InFlight > 0 => Follows(delivered, Flow[1])
  /\ \A k \in 1 .. InFlight - 1 : Follows(Flow[k], Flow[k + 1])
  /\ IF cpc \in {"build", "push"}
     THEN Follows(Newest, [order |-> processed, n |-> fill])
     ELSE Newest.last /\ Newest.order = ingress_read_idx

DeliveryInv ==
  signals = 0 => EgressInv /\ StreamInv /\ (crashes = 0 => ChainInv)

\* A report has a place in the stream.
LEMMA ReportNumbers ==
  ASSUME NEW r \in Reports \cup {NoReport}
  PROVE  r.order \in Nat /\ r.n \in Nat /\ r.last \in BOOLEAN
<1>1. CASE r \in Reports
  <2>1. r.order \in 1 .. MaxPackets /\ r.n \in 1 .. MaxFills + 1 /\ r.last \in BOOLEAN
    BY <1>1 DEF Reports
  <2> QED BY <2>1, Constants
<1>2. CASE r = NoReport
  <2>1. r.order = 0 /\ r.n = 1 BY <1>2 DEF NoReport
  <2>2. r.last \in BOOLEAN BY <1>2 DEF NoReport
  <2> QED BY <2>1, <2>2
<1> QED BY <1>1, <1>2

\* The flow is a sequence of reports.
LEMMA FlowOK ==
  ASSUME TypeOK, EgressInv
  PROVE  /\ Window \in Nat /\ Held \in {0, 1} /\ Len(egress_queue) \in Nat /\ InFlight \in Nat
         /\ InFlight = Window + Held + Len(egress_queue)
         /\ egress_read_idx \in Nat /\ egress_write_idx \in Nat
         /\ egress_queue \in Seq(Reports)
         /\ \A k \in 1 .. InFlight : Flow[k] \in Reports \cup {NoReport}
<1>1. /\ Window \in Nat /\ Held \in {0, 1} /\ Len(egress_queue) \in Nat
      /\ egress_read_idx \in Nat /\ egress_write_idx \in Nat /\ egress_queue \in Seq(Reports)
  BY DEF EgressInv, Held, TypeOK
<1>2. InFlight = Window + Held + Len(egress_queue) /\ InFlight \in Nat BY <1>1 DEF InFlight
<1>3. ASSUME NEW k \in 1 .. InFlight PROVE Flow[k] \in Reports \cup {NoReport}
  <2>1. CASE k <= Window
    <3>1. Slot(egress_read_idx + k - 1) \in Slots BY <1>1, SlotRange
    <3>2. Flow[k] = egress_ring[Slot(egress_read_idx + k - 1)] BY <2>1 DEF Flow
    <3> QED BY <3>1, <3>2 DEF TypeOK
  <2>2. CASE Holding /\ k = Window + 1
    <3>1. Flow[k] = outbound_packet BY <1>1, <2>2 DEF Flow
    <3> QED BY <3>1 DEF TypeOK
  <2>3. CASE ~(k <= Window) /\ ~(Holding /\ k = Window + 1)
    <3>1. Flow[k] = egress_queue[k - Window - Held] BY <2>3 DEF Flow
    <3>2. k - Window - Held \in 1 .. Len(egress_queue) BY <1>1, <1>2, <2>3 DEF Held
    <3> QED BY <1>1, <3>1, <3>2
  <2> QED BY <2>1, <2>2, <2>3
<1> QED BY <1>1, <1>2, <1>3

\* A step of another thread leaves the flow alone.
LEMMA FlowFrame ==
  ASSUME UNCHANGED <<egress_read_idx, egress_write_idx, egress_ring, ppc, outbound_packet,
                     egress_queue>>
  PROVE  Flow' = Flow /\ InFlight' = InFlight /\ Window' = Window
<1>1. Window' = Window /\ Holding' = Holding /\ Held' = Held /\ InFlight' = InFlight
  BY DEF Window, Holding, Held, InFlight
<1> QED BY <1>1 DEF Flow, Slot

\* The flow is determined by its elements.
LEMMA FlowSame ==
  ASSUME InFlight' = InFlight, \A k \in 1 .. InFlight : Flow'[k] = Flow[k]
  PROVE  Flow' = Flow
BY DEF Flow

\* The publisher carries reports along the flow: no step of it changes the flow.
LEMMA PublisherFlow ==
  ASSUME TypeOK, EgressInv, engine_active, egress_publisher_thread
  PROVE  Flow' = Flow /\ InFlight' = InFlight /\ EgressInv'
<1>0. /\ Window \in Nat /\ Held \in {0, 1} /\ Len(egress_queue) \in Nat /\ InFlight \in Nat
      /\ InFlight = Window + Held + Len(egress_queue)
      /\ egress_read_idx \in Nat /\ egress_write_idx \in Nat
      /\ egress_queue \in Seq(Reports)
      /\ RingSize \in Nat \ {0} /\ Window <= RingSize
      /\ egress_write_idx = egress_read_idx + Window
      /\ egress_ring \in [Slots -> Reports \cup {NoReport}]
  <2>1. /\ Window \in Nat /\ Held \in {0, 1} /\ Len(egress_queue) \in Nat /\ InFlight \in Nat
        /\ InFlight = Window + Held + Len(egress_queue)
        /\ egress_read_idx \in Nat /\ egress_write_idx \in Nat
        /\ egress_queue \in Seq(Reports)
    BY FlowOK
  <2>2. RingSize \in Nat \ {0} BY Constants
  <2>3. Window <= RingSize BY <2>2 DEF EgressInv
  <2>4. egress_write_idx = egress_read_idx + Window BY <2>1 DEF Window
  <2>5. egress_ring \in [Slots -> Reports \cup {NoReport}] BY DEF TypeOK
  <2> QED BY ONLY <2>1, <2>2, <2>3, <2>4, <2>5
<1>f. UNCHANGED <<egress_read_idx, outpc, packet>>
  BY DEF egress_publisher_thread, PublisherLoop, PublisherPop, PublisherRoom, PublisherWrite,
         PublisherPublish, PublisherFrame, gatewayVars
<1>1. CASE PublisherLoop \/ (PublisherPop /\ egress_queue = <<>>) \/ PublisherRoom
  <2>1. /\ UNCHANGED <<egress_write_idx, egress_ring, outbound_packet, egress_queue>>
        /\ \/ ppc = "room" /\ ppc' = "write" /\ Window < RingSize
           \/ ppc \in {"loop", "pop"} /\ ppc' \in {"loop", "pop", "done"}
    BY <1>0, <1>1 DEF PublisherLoop, PublisherPop, PublisherRoom, RingFull, Window
  <2>2. Holding' = Holding /\ Held' = Held /\ Window' = Window /\ InFlight' = InFlight
    <3>1. Holding' = Holding BY ONLY <2>1 DEF Holding
    <3>2. Window' = Window BY ONLY Zenon, <1>f, <2>1 DEF Window
    <3>3. Held' = Held BY ONLY Zenon, <3>1 DEF Held
    <3> QED BY ONLY Zenon, <2>1, <3>1, <3>2, <3>3 DEF InFlight
  <2>3. Flow' = Flow BY <1>f, <2>1, <2>2 DEF Flow, Slot
  <2>4. EgressInv' BY <1>f, <2>1, <2>2 DEF EgressInv
  <2> QED BY <2>2, <2>3, <2>4
<1>2. CASE PublisherPop /\ egress_queue # <<>>
  <2>1. /\ ppc = "pop" /\ ppc' = "room" /\ outbound_packet' = Head(egress_queue)
        /\ egress_queue' = Tail(egress_queue)
        /\ UNCHANGED <<egress_write_idx, egress_ring>>
    BY <1>2 DEF PublisherPop
  <2>2. /\ ~Holding /\ Held = 0 /\ Holding' /\ Held' = 1 /\ Window' = Window
        /\ Len(egress_queue') = Len(egress_queue) - 1 /\ Len(egress_queue) > 0
        /\ InFlight' = InFlight
    <3>1. ~Holding /\ Held = 0 /\ Holding' /\ Held' = 1 /\ Window' = Window
      BY <1>f, <2>1 DEF Holding, Held, Window
    <3>2. Len(egress_queue') = Len(egress_queue) - 1 /\ Len(egress_queue) > 0
      BY <1>0, <1>2, <2>1
    <3> QED BY <1>0, <3>1, <3>2 DEF InFlight
  <2>3. ASSUME NEW k \in 1 .. InFlight PROVE Flow'[k] = Flow[k]
    <3>1. CASE k <= Window
      <4>1. Flow'[k] = egress_ring'[Slot(egress_read_idx' + k - 1)] BY <2>2, <3>1 DEF Flow, Slot
      <4>2. Flow[k] = egress_ring[Slot(egress_read_idx + k - 1)] BY <3>1 DEF Flow
      <4> QED BY <4>1, <4>2, <2>1, <1>f
    <3>2. CASE k = Window + 1
      <4>1. Flow'[k] = outbound_packet' BY <1>0, <2>2, <3>2 DEF Flow
      <4>2. Flow[k] = egress_queue[1] BY <1>0, <2>2, <3>2 DEF Flow
      <4> QED BY <4>1, <4>2, <2>1, <2>2, <1>0
    <3>3. CASE k > Window + 1
      <4>1. Flow'[k] = egress_queue'[k - Window - 1] BY <1>0, <2>2, <3>3 DEF Flow
      <4>2. Flow[k] = egress_queue[k - Window] BY <1>0, <2>2, <3>3 DEF Flow
      <4>3. k - Window - 1 \in 1 .. Len(egress_queue) - 1 BY <1>0, <2>2, <3>3
      <4> QED BY <4>1, <4>2, <4>3, <2>1, <2>2, <1>0
    <3> QED BY <1>0, <3>1, <3>2, <3>3
  <2>4. Flow' = Flow BY <2>2, <2>3, FlowSame
  <2>5. EgressInv' BY <1>f, <2>1, <2>2 DEF EgressInv
  <2> QED BY <2>2, <2>4, <2>5
<1>3. CASE PublisherWrite
  <2>1. /\ ppc = "write" /\ ppc' = "publish" /\ Window < RingSize
        /\ egress_ring' = [egress_ring EXCEPT ![Slot(egress_write_idx)] = outbound_packet]
        /\ UNCHANGED <<egress_write_idx, egress_queue, outbound_packet>>
    BY <1>3 DEF PublisherWrite, EgressInv
  <2>2. Holding /\ Holding' /\ Held' = Held /\ Window' = Window /\ InFlight' = InFlight
    BY <1>f, <2>1 DEF Holding, Held, Window, InFlight
  <2>3. ASSUME NEW k \in 1 .. Window
        PROVE  egress_ring'[Slot(egress_read_idx + k - 1)] = egress_ring[Slot(egress_read_idx + k - 1)]
    <3>1. egress_read_idx + k - 1 \in Nat /\ egress_read_idx <= egress_read_idx + k - 1
          /\ egress_read_idx + k - 1 < egress_write_idx
          /\ egress_write_idx < egress_read_idx + RingSize
      BY <1>0, <2>1
    <3>2. Slot(egress_read_idx + k - 1) # Slot(egress_write_idx)
      BY <1>0, <3>1, WindowDistinct
    <3>3. Slot(egress_read_idx + k - 1) \in Slots BY <3>1, SlotRange
    <3> QED BY <1>0, <2>1, <3>2, <3>3
  <2>4. ASSUME NEW k \in 1 .. InFlight PROVE Flow'[k] = Flow[k]
    <3>1. CASE k <= Window
      <4>1. Flow'[k] = egress_ring'[Slot(egress_read_idx' + k - 1)] BY <2>2, <3>1 DEF Flow, Slot
      <4>2. Flow[k] = egress_ring[Slot(egress_read_idx + k - 1)] BY <3>1 DEF Flow
      <4>3. k \in 1 .. Window BY <1>0, <3>1
      <4> QED BY <4>1, <4>2, <4>3, <2>3, <1>f
    <3>2. CASE ~(k <= Window) BY <2>1, <2>2, <3>2 DEF Flow
    <3> QED BY <3>1, <3>2
  <2>5. Flow' = Flow BY <2>2, <2>4, FlowSame
  <2>6. egress_ring'[Slot(egress_write_idx')] = outbound_packet'
    <3>1. Slot(egress_write_idx) \in Slots BY <1>0, SlotRange
    <3> QED BY <1>0, <2>1, <3>1
  <2>7. outpc = "release" => egress_ring'[Slot(egress_read_idx)] = egress_ring[Slot(egress_read_idx)]
    <3> SUFFICES ASSUME outpc = "release"
                 PROVE  egress_ring'[Slot(egress_read_idx)] = egress_ring[Slot(egress_read_idx)]
      OBVIOUS
    <3>1. 1 \in 1 .. Window /\ egress_read_idx + 1 - 1 = egress_read_idx
      BY <1>0 DEF EgressInv
    <3> QED BY <2>3, <3>1
  <2>8. EgressInv' BY <1>f, <2>1, <2>2, <2>6, <2>7 DEF EgressInv
  <2> QED BY <2>2, <2>5, <2>8
<1>4. CASE PublisherPublish
  <2>1. /\ ppc = "publish" /\ ppc' = "loop" /\ Window < RingSize
        /\ egress_ring[Slot(egress_write_idx)] = outbound_packet
        /\ egress_write_idx' = egress_write_idx + 1
        /\ UNCHANGED <<egress_ring, egress_queue, outbound_packet>>
    BY <1>4 DEF PublisherPublish, EgressInv
  <2>2. /\ Holding /\ Held = 1 /\ ~Holding' /\ Held' = 0
        /\ Window' = Window + 1 /\ InFlight' = InFlight
    <3>1. Holding /\ Held = 1 /\ ~Holding' /\ Held' = 0 BY <2>1 DEF Holding, Held
    <3>2. Window' = Window + 1 BY <1>0, <1>f, <2>1 DEF Window
    <3> QED BY <1>0, <2>1, <3>1, <3>2 DEF InFlight
  <2>3. ASSUME NEW k \in 1 .. InFlight PROVE Flow'[k] = Flow[k]
    <3>1. CASE k <= Window
      <4>1. Flow'[k] = egress_ring'[Slot(egress_read_idx' + k - 1)]
        BY <1>0, <2>2, <3>1 DEF Flow, Slot
      <4>2. Flow[k] = egress_ring[Slot(egress_read_idx + k - 1)] BY <3>1 DEF Flow
      <4> QED BY <4>1, <4>2, <2>1, <1>f
    <3>2. CASE k = Window + 1
      <4>1. Flow'[k] = egress_ring'[Slot(egress_read_idx' + k - 1)]
        BY <1>0, <2>2, <3>2 DEF Flow, Slot
      <4>2. egress_read_idx + k - 1 = egress_write_idx BY <1>0, <3>2
      <4>3. Flow[k] = outbound_packet BY <1>0, <2>2, <3>2 DEF Flow
      <4> QED BY <4>1, <4>2, <4>3, <2>1, <1>f
    <3>3. CASE k > Window + 1
      <4>1. Flow'[k] = egress_queue'[k - (Window + 1)] BY <1>0, <2>2, <3>3 DEF Flow
      <4>2. Flow[k] = egress_queue[k - Window - 1] BY <1>0, <2>2, <3>3 DEF Flow
      <4>3. k - (Window + 1) = k - Window - 1 BY <1>0
      <4> QED BY <4>1, <4>2, <4>3, <2>1
    <3> QED BY <1>0, <3>1, <3>2, <3>3
  <2>4. Flow' = Flow BY <2>2, <2>3, FlowSame
  <2>5. EgressInv' BY <1>0, <1>f, <2>1, <2>2 DEF EgressInv
  <2> QED BY <2>2, <2>4, <2>5
<1> QED BY <1>1, <1>2, <1>3, <1>4 DEF egress_publisher_thread

\* A push of the core appends its report.
LEMMA PushFlow ==
  ASSUME TypeOK, EgressInv, CorePush
  PROVE  /\ InFlight' = InFlight + 1 /\ Flow'[InFlight + 1] = report
         /\ \A k \in 1 .. InFlight : Flow'[k] = Flow[k]
<1>0. /\ Window \in Nat /\ Held \in {0, 1} /\ Len(egress_queue) \in Nat /\ InFlight \in Nat
      /\ InFlight = Window + Held + Len(egress_queue) /\ egress_queue \in Seq(Reports)
  BY FlowOK
<1>1. /\ egress_queue' = Append(egress_queue, report)
      /\ UNCHANGED <<egress_read_idx, egress_write_idx, egress_ring, ppc, outbound_packet>>
  BY DEF CorePush, CoreFrame, egressVars, publisherVars
<1>2. Holding' = Holding /\ Held' = Held /\ Window' = Window BY <1>1 DEF Holding, Held, Window
<1>3. /\ Len(egress_queue') = Len(egress_queue) + 1
      /\ egress_queue'[Len(egress_queue) + 1] = report
      /\ \A i \in 1 .. Len(egress_queue) : egress_queue'[i] = egress_queue[i]
  BY <1>0, <1>1
<1>4. InFlight' = InFlight + 1 BY <1>0, <1>2, <1>3 DEF InFlight
<1>5. Flow'[InFlight + 1] = report
  <2> DEFINE k == InFlight + 1
  <2>1. /\ k \in 1 .. InFlight' /\ ~(k <= Window) /\ ~(Holding /\ k = Window + 1)
        /\ k - Window - Held = Len(egress_queue) + 1
    BY <1>0, <1>4 DEF Held
  <2> HIDE DEF k
  <2>2. Flow'[k] = egress_queue'[k - Window - Held] BY <1>2, <2>1 DEF Flow
  <2> QED BY <1>3, <2>1, <2>2 DEF k
<1>6. ASSUME NEW k \in 1 .. InFlight PROVE Flow'[k] = Flow[k]
  <2>0. k \in 1 .. InFlight' BY <1>0, <1>4
  <2>1. CASE k <= Window
    <3>1. Flow'[k] = egress_ring'[Slot(egress_read_idx' + k - 1)]
      BY <1>2, <2>0, <2>1 DEF Flow, Slot
    <3>2. Flow[k] = egress_ring[Slot(egress_read_idx + k - 1)] BY Zenon, <2>1 DEF Flow
    <3> QED BY <3>1, <3>2, <1>1
  <2>2. CASE Holding /\ k = Window + 1
    <3>1. Flow'[k] = outbound_packet' BY <1>0, <1>2, <2>0, <2>2 DEF Flow
    <3>2. Flow[k] = outbound_packet BY <1>0, <2>2 DEF Flow
    <3> QED BY <3>1, <3>2, <1>1
  <2>3. CASE ~(k <= Window) /\ ~(Holding /\ k = Window + 1)
    <3>1. Flow'[k] = egress_queue'[k - Window - Held] BY <1>2, <2>0, <2>3 DEF Flow
    <3>2. Flow[k] = egress_queue[k - Window - Held] BY <2>3 DEF Flow
    <3>3. k - Window - Held \in 1 .. Len(egress_queue) BY <1>0, <2>3 DEF Held
    <3> QED BY <1>3, <3>1, <3>2, <3>3
  <2> QED BY <2>1, <2>2, <2>3
<1> QED BY <1>4, <1>5, <1>6

\* The gateway takes the first report of the flow.
LEMMA ReleaseFlow ==
  ASSUME TypeOK, EgressInv, DequeueRelease
  PROVE  /\ InFlight > 0 /\ delivered' = Flow[1]
         /\ InFlight' = InFlight - 1
         /\ \A k \in 1 .. InFlight - 1 : Flow'[k] = Flow[k + 1]
         /\ EgressInv'
<1>0. /\ Window \in Nat /\ Held \in {0, 1} /\ Len(egress_queue) \in Nat /\ InFlight \in Nat
      /\ InFlight = Window + Held + Len(egress_queue)
      /\ egress_read_idx \in Nat /\ egress_write_idx \in Nat /\ RingSize \in Nat
  BY FlowOK, Constants
<1>1. /\ Window > 0 /\ packet = egress_ring[Slot(egress_read_idx)]
      /\ outpc' = "idle" /\ egress_read_idx' = egress_read_idx + 1 /\ delivered' = packet
      /\ UNCHANGED <<egress_write_idx, egress_ring, ppc, outbound_packet, egress_queue>>
  BY DEF DequeueRelease, EgressInv, processVars, publisherVars
<1>2. Holding' = Holding /\ Held' = Held /\ Window' = Window - 1
  BY <1>0, <1>1 DEF Holding, Held, Window
<1>3. InFlight' = InFlight - 1 /\ InFlight > 0 BY <1>0, <1>1, <1>2 DEF InFlight
<1>4. delivered' = Flow[1]
  <2>1. Flow[1] = egress_ring[Slot(egress_read_idx + 1 - 1)] BY <1>0, <1>1, <1>3 DEF Flow
  <2>2. egress_read_idx + 1 - 1 = egress_read_idx BY <1>0
  <2> QED BY Zenon, <1>1, <2>1, <2>2
<1>5. ASSUME NEW k \in 1 .. InFlight - 1 PROVE Flow'[k] = Flow[k + 1]
  <2>0. k \in 1 .. InFlight' /\ k + 1 \in 1 .. InFlight BY <1>0, <1>3
  <2>1. CASE k <= Window - 1
    <3>1. Flow'[k] = egress_ring'[Slot(egress_read_idx' + k - 1)]
      BY <1>2, <2>0, <2>1 DEF Flow, Slot
    <3>2. Flow[k + 1] = egress_ring[Slot(egress_read_idx + (k + 1) - 1)]
      BY <1>0, <2>0, <2>1 DEF Flow
    <3>3. egress_read_idx' + k - 1 = egress_read_idx + (k + 1) - 1 BY <1>0, <1>1
    <3> QED BY <3>1, <3>2, <3>3, <1>1
  <2>2. CASE Holding /\ k = Window
    <3>1. Flow'[k] = outbound_packet' BY <1>0, <1>2, <2>0, <2>2 DEF Flow
    <3>2. Flow[k + 1] = outbound_packet BY <1>0, <2>0, <2>2 DEF Flow
    <3> QED BY <3>1, <3>2, <1>1
  <2>3. CASE ~(k <= Window - 1) /\ ~(Holding /\ k = Window)
    <3>1. ~(k + 1 <= Window) /\ ~(Holding /\ k + 1 = Window + 1) /\ ~(Holding /\ k = (Window - 1) + 1)
      BY <1>0, <2>3
    <3>2. Flow'[k] = egress_queue'[k - (Window - 1) - Held] BY Zenon, <1>2, <2>0, <2>3, <3>1 DEF Flow
    <3>3. Flow[k + 1] = egress_queue[(k + 1) - Window - Held] BY <2>0, <3>1 DEF Flow
    <3>4. k - (Window - 1) - Held = (k + 1) - Window - Held BY <1>0
    <3> QED BY <3>2, <3>3, <3>4, <1>1
  <2> QED BY <2>1, <2>2, <2>3
<1>6. EgressInv' BY <1>0, <1>1, <1>2 DEF EgressInv
<1> QED BY <1>3, <1>4, <1>5, <1>6

\* A process that dies leaves of the flow what is in the ring.
LEMMA CutFlow ==
  ASSUME TypeOK, EgressInv, Crash \/ Restart
  PROVE  /\ InFlight' \in Nat /\ InFlight' <= InFlight
         /\ \A k \in 1 .. InFlight' : Flow'[k] = Flow[k]
         /\ EgressInv'
<1>0. /\ Window \in Nat /\ Held \in {0, 1} /\ Len(egress_queue) \in Nat /\ InFlight \in Nat
      /\ InFlight = Window + Held + Len(egress_queue)
  BY Zenon, FlowOK
<1>1. /\ UNCHANGED <<egress_read_idx, egress_write_idx, egress_ring, outpc, packet>>
      /\ ppc' \in {"done", "loop"} /\ egress_queue' = <<>>
  BY DEF Crash, Restart, Start, egressVars, gatewayVars
<1>2. ~Holding' /\ Held' = 0 /\ Window' = Window /\ Len(egress_queue') = 0
  BY <1>1 DEF Holding, Held, Window
<1>3. InFlight' = Window /\ InFlight' <= InFlight BY <1>0, <1>2 DEF InFlight
<1>4. ASSUME NEW k \in 1 .. InFlight' PROVE Flow'[k] = Flow[k]
  <2>1. k <= Window /\ k \in 1 .. InFlight BY <1>0, <1>3
  <2>2. Flow'[k] = egress_ring'[Slot(egress_read_idx' + k - 1)] BY <1>2, <2>1 DEF Flow, Slot
  <2>3. Flow[k] = egress_ring[Slot(egress_read_idx + k - 1)] BY <2>1 DEF Flow
  <2> QED BY <2>2, <2>3, <1>1
<1>5. EgressInv' BY <1>1, <1>2 DEF EgressInv
<1> QED BY <1>0, <1>3, <1>4, <1>5

-----------------------------------------------------------------------------
(***************************************************************************)
(* The order of the reports.                                               *)
(***************************************************************************)

\* The core has gone past every packet whose report it has pushed.
LEMMA EmittedBound ==
  ASSUME ServeInv, NEW r \in Reports \cup {NoReport}, Emitted(r)
  PROVE  r.order <= ingress_read_idx
<1>1. r.order \in Nat /\ ingress_read_idx \in Nat BY ReportNumbers DEF ServeInv, IngressInv
<1>2. cpc \in {"build", "push"} => processed = ingress_read_idx BY DEF ServeInv, CoreInv
<1> QED BY <1>1, <1>2 DEF Emitted, After

\* What was pushed stays pushed.
LEMMA EmittedStep ==
  ASSUME ServeInv, [Next]_vars, NEW r \in Reports \cup {NoReport}, Emitted(r)
  PROVE  Emitted(r)'
<1>0. /\ r.order \in Nat /\ r.n \in Nat /\ ingress_read_idx \in Nat
      /\ processed \in Nat /\ fill \in Nat /\ r.order <= ingress_read_idx
  BY ReportNumbers, EmittedBound, Constants DEF ServeInv, IngressInv, TypeOK
<1>1. CASE UNCHANGED <<cpc, processed, fill, ingress_read_idx>> BY Zenon, <1>1 DEF Emitted
<1>2. CASE CoreLoop \/ CoreIdle \/ CoreBatch \/ Crash \/ Restart
  <2>1. cpc' \notin {"build", "push"} /\ ingress_read_idx' = ingress_read_idx
    BY ZenonT(40), <1>2 DEF CoreLoop, CoreIdle, CoreBatch, Crash, Restart, Start, ingressVars
  <2> QED BY Zenon, <1>0, <2>1 DEF Emitted
<1>3. ASSUME NEW result \in Outcomes, CoreSubmit(result) PROVE Emitted(r)'
  <2>1. cpc' = "release" /\ ingress_read_idx' = ingress_read_idx BY <1>3 DEF CoreSubmit
  <2> QED BY <1>0, <2>1 DEF Emitted
<1>4. CASE CoreRelease
  <2>1. processed' = ingress_read_idx + 1 BY ZenonT(40), <1>4 DEF CoreRelease, ServeInv, CoreInv
  <2>2. cpc' = "build" BY <1>4 DEF CoreRelease
  <2>3. After(r, [order |-> ingress_read_idx + 1, n |-> fill']) BY <1>0 DEF After
  <2> QED BY ONLY Zenon, <2>1, <2>2, <2>3 DEF Emitted
<1>5. CASE CoreBuild
  <2>1. cpc = "build" /\ cpc' = "push" /\ processed' = processed /\ fill' = fill
    BY <1>5 DEF CoreBuild
  <2> QED BY Zenon, <2>1 DEF Emitted
<1>6. CASE CorePush
  <2>1. cpc = "push" /\ processed' = processed /\ ingress_read_idx' = ingress_read_idx
    BY ZenonT(40), <1>6 DEF CorePush
  <2>2. CASE cpc' = "batch" BY ZenonT(40), <1>0, <2>1, <2>2 DEF Emitted
  <2>3. CASE cpc' = "build" /\ fill' = fill + 1 BY <1>0, <2>1, <2>3 DEF Emitted, After
  <2> QED BY <1>6, <2>2, <2>3 DEF CorePush
<1>7. CASE Enqueue \/ Dequeue \/ egress_publisher_thread \/ logging_loop \/ main \/ signal_handler
           \/ UNCHANGED vars
  <2>1. UNCHANGED <<cpc, processed, fill, ingress_read_idx>>
    BY ZenonT(40), <1>7 DEF Enqueue, EnqueueWrite, EnqueuePublish, Dequeue, DequeueRead, DequeueRelease,
                egress_publisher_thread, PublisherLoop, PublisherPop, PublisherRoom,
                PublisherWrite, PublisherPublish, PublisherFrame, logging_loop, main,
                signal_handler, vars, ingressVars, processVars, coreVars
  <2> QED BY SMTT(30), <1>1, <2>1
<1> QED
  BY ZenonT(40), <1>2, <1>3, <1>4, <1>5, <1>6, <1>7 DEF Next, ServeNext, core_thread

\* A step that appends nothing and delivers nothing keeps the order.
LEMMA StreamKept ==
  ASSUME ServeInv, [Next]_vars, EgressInv, StreamInv, delivered' = delivered,
         InFlight' \in Nat, InFlight' <= InFlight,
         \A k \in 1 .. InFlight' : Flow'[k] = Flow[k]
  PROVE  StreamInv'
<1>0. /\ InFlight \in Nat /\ delivered \in Reports \cup {NoReport}
      /\ \A k \in 1 .. InFlight : Flow[k] \in Reports \cup {NoReport}
  BY Zenon, FlowOK DEF ServeInv, TypeOK
<1>1. \A k \in 1 .. InFlight' : k \in 1 .. InFlight
  <2>1. InFlight \in Nat /\ InFlight' \in Nat /\ InFlight' <= InFlight BY ZenonT(40), <1>0
  <2> QED BY ONLY <2>1
<1>2. Emitted(delivered)' 
  <2>1. PICK d : d = delivered BY Zenon
  <2>2. Emitted(d)' BY ZenonT(40), <1>0, <2>1, EmittedStep DEF StreamInv
  <2> QED BY ZenonT(40), <2>1, <2>2 DEF Emitted
<1>3. ASSUME NEW k \in 1 .. InFlight' PROVE After(delivered', Flow'[k]) /\ Emitted(Flow[k])'
  <2>1. PICK r : r = Flow[k] BY ZenonT(40)
  <2>2. r \in Reports \cup {NoReport} /\ Emitted(r) /\ After(delivered, r)
    BY <1>0, <1>1, <2>1 DEF StreamInv
  <2>3. Emitted(r)' BY ZenonT(40), <2>2, EmittedStep
  <2>4. r = Flow'[k] BY <2>1
  <2> QED BY ZenonT(40), <2>2, <2>3, <2>4 DEF Emitted, After
<1>4. ASSUME NEW k \in 1 .. InFlight', NEW l \in 1 .. InFlight', k < l
      PROVE  After(Flow'[k], Flow'[l])
  <2>1. After(Flow[k], Flow[l]) BY Zenon, <1>1, <1>4 DEF StreamInv
  <2> QED BY Zenon, <2>1
<1> QED BY ZenonT(40), <1>2, <1>3, <1>4 DEF StreamInv

\* A pushed report comes after everything that is in flight or delivered.
LEMMA PushStream ==
  ASSUME ServeInv, [Next]_vars, EgressInv, StreamInv, CorePush
  PROVE  StreamInv'
<1>0. /\ InFlight \in Nat /\ delivered \in Reports \cup {NoReport}
      /\ \A k \in 1 .. InFlight : Flow[k] \in Reports \cup {NoReport}
  BY FlowOK DEF ServeInv, TypeOK
<1>1. /\ InFlight' = InFlight + 1 /\ Flow'[InFlight + 1] = report
      /\ \A k \in 1 .. InFlight : Flow'[k] = Flow[k]
  BY PushFlow DEF ServeInv
<1>2. /\ cpc = "push" /\ delivered' = delivered /\ processed' = processed
      /\ ingress_read_idx' = ingress_read_idx
      /\ cpc' = "batch" \/ (cpc' = "build" /\ fill' = fill + 1)
  BY ZenonT(40) DEF CorePush, CoreFrame, gatewayVars
<1>3. /\ report \in Reports /\ report.order = processed /\ report.n = fill
      /\ processed = ingress_read_idx /\ processed \in Nat /\ fill \in Nat
  BY <1>2, Constants DEF ServeInv, CoreInv, TypeOK
<1>4. ASSUME NEW r \in Reports \cup {NoReport}, Emitted(r)
      PROVE  After(r, report) /\ Emitted(r)'
  <2>1. After(r, report) BY <1>2, <1>3, <1>4 DEF Emitted, After
  <2> QED BY <1>4, <2>1, EmittedStep
<1>5. PICK new : new = report OBVIOUS
<1>6. Emitted(new)' BY <1>2, <1>3, <1>5 DEF Emitted, After
<1>7. Emitted(delivered)'
  <2>1. PICK d : d = delivered OBVIOUS
  <2>2. Emitted(d)' BY Zenon, <1>0, <1>4, <2>1 DEF StreamInv
  <2> QED BY <1>2, <2>1, <2>2 DEF Emitted
<1>8. ASSUME NEW k \in 1 .. InFlight' PROVE After(delivered', Flow'[k]) /\ Emitted(Flow[k])'
  <2>1. CASE k \in 1 .. InFlight
    <3>1. PICK r : r = Flow[k] OBVIOUS
    <3>2. r \in Reports \cup {NoReport} /\ Emitted(r) /\ After(delivered, r)
      BY <1>0, <2>1, <3>1 DEF StreamInv
    <3>3. Emitted(r)' BY <3>2, <1>4
    <3>4. r = Flow'[k] BY ZenonT(40), <1>1, <2>1, <3>1
    <3> QED BY ZenonT(40), <1>2, <3>2, <3>3, <3>4 DEF Emitted, After
  <2>2. CASE k = InFlight + 1
    <3>1. new = Flow'[k] BY <1>1, <1>5, <2>2
    <3>2. After(delivered, new) BY <1>0, <1>4, <1>5 DEF StreamInv
    <3> QED BY ZenonT(40), <1>2, <1>6, <3>1, <3>2 DEF Emitted, After
  <2>3. InFlight \in Nat /\ k \in 1 .. InFlight + 1 BY Zenon, <1>0, <1>1
  <2>4. k \in 1 .. InFlight \/ k = InFlight + 1 BY ONLY <2>3
  <2> QED BY Zenon, <2>1, <2>2, <2>4
<1>9. ASSUME NEW k \in 1 .. InFlight', NEW l \in 1 .. InFlight', k < l
      PROVE  After(Flow'[k], Flow'[l])
  <2>1. k \in 1 .. InFlight BY <1>0, <1>1, <1>9
  <2>2. CASE l \in 1 .. InFlight
    <3>1. After(Flow[k], Flow[l]) BY <1>9, <2>1, <2>2 DEF StreamInv
    <3> QED BY <1>1, <2>1, <2>2, <3>1
  <2>3. CASE l = InFlight + 1
    <3>1. After(Flow[k], report) BY ZenonT(40), <1>0, <1>4, <2>1 DEF StreamInv
    <3> QED BY <1>1, <2>1, <2>3, <3>1
  <2> QED BY <1>0, <1>1, <2>2, <2>3
<1> QED BY ZenonT(40), <1>7, <1>8, <1>9 DEF StreamInv

\* What the gateway takes comes after what it took before, and before the rest.
LEMMA ReleaseStream ==
  ASSUME ServeInv, [Next]_vars, EgressInv, StreamInv, DequeueRelease
  PROVE  StreamInv' /\ After(delivered, delivered')
<1>0. /\ InFlight \in Nat
      /\ \A k \in 1 .. InFlight : Flow[k] \in Reports \cup {NoReport}
  BY SMTT(30), FlowOK DEF ServeInv
<1>1. /\ InFlight > 0 /\ delivered' = Flow[1]
      /\ InFlight' = InFlight - 1
      /\ \A k \in 1 .. InFlight - 1 : Flow'[k] = Flow[k + 1]
  BY ReleaseFlow DEF ServeInv
<1>2. 1 \in 1 .. InFlight /\ \A k \in 1 .. InFlight' : k + 1 \in 1 .. InFlight /\ 1 < k + 1
  BY <1>0, <1>1
<1>3. Emitted(delivered)'
  <2>1. PICK d : d = Flow[1] OBVIOUS
  <2>2. d \in Reports \cup {NoReport} /\ Emitted(d) BY <1>0, <1>2, <2>1 DEF StreamInv
  <2>3. Emitted(d)' BY <2>2, EmittedStep
  <2>4. d = delivered' BY ZenonT(40), <1>1, <2>1
  <2> QED BY <2>3, <2>4 DEF Emitted
<1>4. ASSUME NEW k \in 1 .. InFlight' PROVE After(delivered', Flow'[k]) /\ Emitted(Flow[k])'
  <2>1. PICK r : r = Flow[k + 1] OBVIOUS
  <2>2. r \in Reports \cup {NoReport} /\ Emitted(r) /\ After(Flow[1], r)
    BY <1>0, <1>2, <2>1 DEF StreamInv
  <2>3. Emitted(r)' BY <2>2, EmittedStep
  <2>4. r = Flow'[k] BY ZenonT(40), <1>1, <2>1
  <2> QED BY <1>1, <2>2, <2>3, <2>4 DEF Emitted
<1>5. ASSUME NEW k \in 1 .. InFlight', NEW l \in 1 .. InFlight', k < l
      PROVE  After(Flow'[k], Flow'[l])
  <2>1. k + 1 < l + 1 BY <1>5
  <2>2. After(Flow[k + 1], Flow[l + 1]) BY <1>2, <2>1 DEF StreamInv
  <2> QED BY <1>1, <2>2
<1>6. After(delivered, delivered') BY ZenonT(40), <1>1, <1>2 DEF StreamInv
<1> QED BY ZenonT(40), <1>3, <1>4, <1>5, <1>6 DEF StreamInv

-----------------------------------------------------------------------------
(***************************************************************************)
(* The gaps between the reports.                                           *)
(***************************************************************************)

\* A step that leaves the flow alone keeps it without gaps.
LEMMA ChainKept ==
  ASSUME ServeInv, [Next]_vars, ChainInv, signals = 0, crashes = 0, ~CorePush,
         delivered' = delivered, InFlight' = InFlight, Flow' = Flow, crashes' = 0
  PROVE  ChainInv'
<1>0. Newest' = Newest BY SMTT(30) DEF Newest
<1>1. /\ InFlight' > 0 => Follows(delivered', Flow'[1])
      /\ \A k \in 1 .. InFlight' - 1 : Follows(Flow'[k], Flow'[k + 1])
  BY ZenonT(40) DEF ChainInv
<1>2. IF cpc' \in {"build", "push"}
      THEN Follows(Newest', [order |-> processed', n |-> fill'])
      ELSE Newest'.last /\ Newest'.order = ingress_read_idx'
  <2>1. CASE UNCHANGED <<cpc, processed, fill, ingress_read_idx>> BY ZenonT(40), <1>0, <2>1 DEF ChainInv
  <2>2. CASE CoreLoop \/ CoreIdle \/ CoreBatch
    <3>1. /\ cpc \notin {"build", "push"} /\ cpc' \notin {"build", "push"}
          /\ ingress_read_idx' = ingress_read_idx
      BY Zenon, <2>2 DEF CoreLoop, CoreIdle, CoreBatch
    <3> QED BY <1>0, <3>1 DEF ChainInv
  <2>3. ASSUME NEW result \in Outcomes, CoreSubmit(result)
        PROVE  cpc' = "release" /\ Newest'.last /\ Newest'.order = ingress_read_idx'
    <3>1. cpc = "poll" /\ cpc' = "release" /\ ingress_read_idx' = ingress_read_idx
      BY <2>3 DEF CoreSubmit
    <3> QED BY <1>0, <3>1 DEF ChainInv
  <2>4. CASE CoreRelease
    <3>1. cpc = "release" /\ cpc' = "build" /\ processed' = processed /\ fill' = fill
      BY <2>4 DEF CoreRelease
    <3>2. processed = ingress_read_idx + 1 BY Zenon, <3>1 DEF ServeInv, CoreInv
    <3>3. Newest.last /\ Newest.order = ingress_read_idx BY <3>1 DEF ChainInv
    <3>4. fill = 1
      BY Zenon, <3>1 DEF ServeInv, CoreInv
    <3> QED BY <1>0, <3>1, <3>2, <3>3, <3>4 DEF Follows
  <2>5. CASE CoreBuild
    <3>1. cpc = "build" /\ cpc' = "push" /\ processed' = processed /\ fill' = fill
      BY Zenon, <2>5 DEF CoreBuild
    <3> QED BY Zenon, <1>0, <3>1 DEF ChainInv
  <2>6. CASE Enqueue \/ Dequeue \/ egress_publisher_thread \/ logging_loop \/ main \/ signal_handler
             \/ UNCHANGED vars
    <3>1. UNCHANGED <<cpc, processed, fill, ingress_read_idx>>
      BY ZenonT(40), <2>6 DEF Enqueue, EnqueueWrite, EnqueuePublish, Dequeue, DequeueRead, DequeueRelease,
                  egress_publisher_thread, PublisherLoop, PublisherPop, PublisherRoom,
                  PublisherWrite, PublisherPublish, PublisherFrame, logging_loop, main,
                  signal_handler, vars, ingressVars, processVars, coreVars
    <3> QED BY SMTT(30), <2>1, <3>1
  <2>7. ~Crash /\ ~Restart
    <3>1. mpc = "wait" BY SMTT(30) DEF ServeInv, StopInv
    <3> QED BY <3>1 DEF Crash, Restart, Start
  <2> QED
    BY SMTT(30), <2>2, <2>3, <2>4, <2>5, <2>6, <2>7 DEF Next, ServeNext, core_thread
<1> QED BY <1>1, <1>2 DEF ChainInv

\* A pushed report follows the newest one.
LEMMA PushChain ==
  ASSUME ServeInv, EgressInv, ChainInv, CorePush
  PROVE  ChainInv'
<1>0. InFlight \in Nat BY FlowOK DEF ServeInv
<1>1. /\ InFlight' = InFlight + 1 /\ Flow'[InFlight + 1] = report
      /\ \A k \in 1 .. InFlight : Flow'[k] = Flow[k]
  BY PushFlow DEF ServeInv
<1>2. /\ cpc = "push" /\ delivered' = delivered /\ processed' = processed
      /\ ingress_read_idx' = ingress_read_idx
  BY DEF CorePush, CoreFrame, gatewayVars
<1>3. IF LastReport THEN cpc' = "batch" ELSE cpc' = "build" /\ fill' = fill + 1
  BY DEF CorePush
<1>4. /\ report.order = processed /\ report.n = fill /\ report.last = LastReport
      /\ processed = ingress_read_idx
  BY ZenonT(40), <1>2 DEF ServeInv, CoreInv
<1>5. Follows(Newest, report) BY ZenonT(40), <1>2, <1>4 DEF ChainInv, Follows
<1>6. Newest' = report BY <1>0, <1>1 DEF Newest
<1>7. Follows(delivered', Flow'[1])
  <2>1. CASE InFlight = 0
    <3>1. InFlight + 1 = 1 /\ Newest = delivered BY ONLY SMTT(30), <2>1 DEF Newest
    <3> QED BY Zenon, <1>1, <1>2, <1>5, <3>1
  <2>2. CASE InFlight > 0
    <3>1. 1 \in 1 .. InFlight BY <1>0, <2>2
    <3> QED BY <1>1, <1>2, <2>2, <3>1 DEF ChainInv
  <2> QED BY <1>0, <2>1, <2>2
<1>8. ASSUME NEW k \in 1 .. InFlight' - 1 PROVE Follows(Flow'[k], Flow'[k + 1])
  <2>1. k \in 1 .. InFlight BY <1>0, <1>1
  <2>2. CASE k = InFlight
    <3>1. Newest = Flow[k] BY ONLY SMTT(30), <1>0, <2>1, <2>2 DEF Newest
    <3> QED BY <1>1, <1>5, <2>1, <2>2, <3>1
  <2>3. CASE k < InFlight
    <3>1. k \in 1 .. InFlight - 1 /\ k + 1 \in 1 .. InFlight BY <1>0, <2>1, <2>3
    <3> QED BY <1>1, <2>1, <3>1 DEF ChainInv
  <2> QED BY <1>0, <2>1, <2>2, <2>3
<1>9. IF cpc' \in {"build", "push"}
      THEN Follows(Newest', [order |-> processed', n |-> fill'])
      ELSE Newest'.last /\ Newest'.order = ingress_read_idx'
  <2>1. CASE LastReport BY ZenonT(40), <1>2, <1>3, <1>4, <1>6, <2>1
  <2>2. CASE ~LastReport BY Zenon, <1>2, <1>3, <1>4, <1>6, <2>2 DEF Follows
  <2> QED BY <2>1, <2>2
<1> QED BY Zenon, <1>7, <1>8, <1>9 DEF ChainInv

\* What the gateway takes follows what it took before.
LEMMA ReleaseChain ==
  ASSUME ServeInv, EgressInv, ChainInv, DequeueRelease
  PROVE  ChainInv' /\ Follows(delivered, delivered')
<1>0. InFlight \in Nat BY FlowOK DEF ServeInv
<1>1. /\ InFlight > 0 /\ delivered' = Flow[1]
      /\ InFlight' = InFlight - 1
      /\ \A k \in 1 .. InFlight - 1 : Flow'[k] = Flow[k + 1]
  BY ReleaseFlow DEF ServeInv
<1>2. UNCHANGED <<cpc, processed, fill, ingress_read_idx>>
  BY SMTT(30) DEF DequeueRelease, ingressVars, processVars, coreVars
<1>3. Newest' = Newest
  <2>1. CASE InFlight = 1 BY SMTT(30), <1>1, <2>1 DEF Newest
  <2>2. CASE InFlight > 1
    <3>1. InFlight - 1 \in 1 .. InFlight - 1 /\ InFlight' # 0 /\ InFlight # 0
          /\ (InFlight - 1) + 1 = InFlight
      BY <1>0, <1>1, <2>2
    <3>2. Flow'[InFlight - 1] = Flow[(InFlight - 1) + 1] BY Zenon, <1>1, <3>1
    <3> QED BY <1>1, <3>1, <3>2 DEF Newest
  <2> QED BY <1>0, <1>1, <2>1, <2>2
<1>4. Follows(delivered, delivered') BY <1>1 DEF ChainInv
<1>5. InFlight' > 0 => Follows(delivered', Flow'[1])
  <2> SUFFICES ASSUME InFlight' > 0 PROVE Follows(delivered', Flow'[1]) OBVIOUS
  <2>1. 1 \in 1 .. InFlight - 1 BY SMTT(30), <1>0, <1>1
  <2>2. Follows(Flow[1], Flow[1 + 1]) BY Zenon, <2>1 DEF ChainInv
  <2> QED BY <1>1, <2>1, <2>2
<1>6. ASSUME NEW k \in 1 .. InFlight' - 1 PROVE Follows(Flow'[k], Flow'[k + 1])
  <2>1. k \in 1 .. InFlight - 1 /\ k + 1 \in 1 .. InFlight - 1 BY <1>0, <1>1
  <2>2. Follows(Flow[k + 1], Flow[(k + 1) + 1]) BY Zenon, <2>1 DEF ChainInv
  <2> QED BY <1>1, <2>1, <2>2
<1>7. IF cpc' \in {"build", "push"}
      THEN Follows(Newest', [order |-> processed', n |-> fill'])
      ELSE Newest'.last /\ Newest'.order = ingress_read_idx'
  BY <1>2, <1>3 DEF ChainInv
<1> QED BY Zenon, <1>4, <1>5, <1>6, <1>7 DEF ChainInv

-----------------------------------------------------------------------------
(***************************************************************************)
(* Delivery.                                                               *)
(***************************************************************************)

\* Nothing is in flight at the start.
LEMMA DeliveryInit == Init => DeliveryInv
<1> SUFFICES ASSUME Init PROVE DeliveryInv OBVIOUS
<1>0. ~Holding /\ Held = 0 /\ Window = 0 /\ Len(egress_queue) = 0
  BY DEF Init, ProcessInit, Holding, Held, Window
<1>1. InFlight = 0 BY <1>0 DEF InFlight
<1>2. EgressInv BY <1>0, Constants DEF Init, ProcessInit, EgressInv
<1>3. cpc = "loop" /\ delivered = NoReport /\ ingress_read_idx = 0
  BY DEF Init, ProcessInit
<1>4. NoReport.order = 0 /\ NoReport.last = TRUE BY DEF NoReport
<1>5. 1 .. InFlight = {} /\ 1 .. InFlight - 1 = {} BY SMTT(30), <1>1
<1>6. StreamInv BY ONLY <1>3, <1>4, <1>5 DEF StreamInv, Emitted
<1>7. Newest = NoReport BY Zenon, <1>1, <1>3 DEF Newest
<1>8. ChainInv BY ONLY <1>1, <1>3, <1>4, <1>5, <1>7 DEF ChainInv
<1> QED BY <1>2, <1>6, <1>8 DEF DeliveryInv

\* A step that touches neither the flow nor the ends of the ring.
LEMMA QuietDelivery ==
  ASSUME ServeInv, [Next]_vars, EgressInv, StreamInv, signals = 0, ~CorePush,
         UNCHANGED <<egress_read_idx, egress_write_idx, egress_ring, ppc, outbound_packet,
                     egress_queue, delivered, crashes>>,
         \/ UNCHANGED <<outpc, packet>>
         \/ Window > 0 /\ packet' = egress_ring[Slot(egress_read_idx)]
  PROVE  EgressInv' /\ StreamInv' /\ (crashes = 0 /\ ChainInv => ChainInv')
<1>0. InFlight \in Nat BY FlowOK DEF ServeInv
<1>1. Flow' = Flow /\ InFlight' = InFlight /\ Window' = Window BY Zenon, FlowFrame
<1>2. EgressInv' BY <1>1 DEF EgressInv
<1>3. StreamInv' BY <1>0, <1>1, StreamKept
<1>4. crashes = 0 /\ ChainInv => ChainInv' BY <1>1, ChainKept
<1> QED BY Zenon, <1>2, <1>3, <1>4

\* Every step keeps the reports in order.
LEMMA DeliveryNext == ServeInv /\ DeliveryInv /\ [Next]_vars => DeliveryInv'
<1> SUFFICES ASSUME ServeInv, DeliveryInv, [Next]_vars, signals' = 0
             PROVE  EgressInv' /\ StreamInv' /\ (crashes' = 0 => ChainInv')
  BY SMTT(30) DEF DeliveryInv
<1>0. ~signal_handler /\ signals = 0
  <2>1. signals \in Nat BY Constants DEF ServeInv, TypeOK
  <2>2. ~signal_handler BY <2>1 DEF signal_handler
  <2> QED
    BY ZenonT(40), <2>2 DEF Next, ServeNext, Enqueue, EnqueueWrite, EnqueuePublish, Dequeue, DequeueRead,
                DequeueRelease, core_thread, CoreLoop, CoreIdle, CoreSubmit, CoreRelease,
                CoreBuild, CorePush, CoreBatch, CoreFrame, egress_publisher_thread,
                PublisherLoop, PublisherPop, PublisherRoom, PublisherWrite, PublisherPublish,
                PublisherFrame, logging_loop, main, Crash, Restart, Start, vars, boundVars
<1>1. EgressInv /\ StreamInv /\ (crashes = 0 => ChainInv) BY <1>0 DEF DeliveryInv
<1>2. engine_active BY <1>0 DEF ServeInv, StopInv
<1>3. CASE CorePush
  <2>1. crashes' = crashes BY Zenon, <1>3 DEF CorePush, CoreFrame, boundVars
  <2>2. EgressInv'
    BY <1>1, <1>3 DEF CorePush, CoreFrame, egressVars, gatewayVars, publisherVars, EgressInv, Window
  <2> QED BY <1>1, <1>3, <2>1, <2>2, PushStream, PushChain
<1>4. CASE DequeueRelease
  <2>1. crashes' = crashes BY <1>4 DEF DequeueRelease, boundVars
  <2>2. EgressInv' BY <1>1, <1>4, ReleaseFlow DEF ServeInv
  <2> QED BY <1>1, <1>4, <2>1, <2>2, ReleaseStream, ReleaseChain
<1>5. CASE egress_publisher_thread
  <2>0. InFlight \in Nat BY <1>1, FlowOK DEF ServeInv
  <2>1. Flow' = Flow /\ InFlight' = InFlight /\ EgressInv'
    BY SMTT(30), <1>1, <1>2, <1>5, PublisherFlow DEF ServeInv
  <2>2. crashes' = crashes /\ delivered' = delivered /\ ~CorePush
    <3>1. PublisherFrame
      BY <1>5 DEF egress_publisher_thread, PublisherLoop, PublisherPop, PublisherRoom,
                  PublisherWrite, PublisherPublish
    <3>2. cpc' = cpc BY <3>1 DEF PublisherFrame, coreVars
    <3> QED BY SMTT(30), <3>1, <3>2 DEF PublisherFrame, boundVars, gatewayVars, CorePush
  <2>3. StreamInv' BY <1>1, <2>0, <2>1, <2>2, StreamKept
  <2>4. crashes' = 0 => ChainInv' BY SMTT(30), <1>0, <1>1, <2>1, <2>2, ChainKept
  <2> QED BY <2>1, <2>3, <2>4
<1>6. CASE Crash \/ Restart
  <2>1. /\ InFlight' \in Nat /\ InFlight' <= InFlight
        /\ \A k \in 1 .. InFlight' : Flow'[k] = Flow[k]
        /\ EgressInv'
    BY Zenon, <1>1, <1>6, CutFlow DEF ServeInv
  <2>2. delivered' = delivered BY Zenon, <1>6 DEF Crash, Restart, Start, gatewayVars
  <2>3. StreamInv' BY <1>1, <2>1, <2>2, StreamKept
  <2>4. crashes' # 0
    <3>1. crashes \in Nat BY Constants DEF ServeInv, TypeOK
    <3>2. CASE Crash BY <3>1, <3>2 DEF Crash
    <3>3. CASE Restart
      <4>1. mpc = "crashed" BY <1>0, <3>3 DEF Restart, Start, ServeInv, StopInv
      <4> QED BY <3>1, <3>3, <4>1 DEF Restart, Start, boundVars, ServeInv, StopInv
    <3> QED BY Zenon, <1>6, <3>2, <3>3
  <2> QED BY <2>1, <2>3, <2>4
<1>7. CASE DequeueRead
  <2>1. Window > 0
    <3>1. Window \in Nat /\ egress_read_idx \in Nat /\ egress_write_idx \in Nat
      BY Zenon, <1>1, FlowOK DEF ServeInv
    <3> QED BY <3>1, <1>7 DEF DequeueRead, Window
  <2>2. /\ ~CorePush /\ packet' = egress_ring[Slot(egress_read_idx)]
        /\ UNCHANGED <<egress_read_idx, egress_write_idx, egress_ring, ppc, outbound_packet,
                       egress_queue, delivered, crashes>>
    BY <1>7 DEF DequeueRead, egressVars, processVars, publisherVars, boundVars, coreVars, CorePush
  <2> QED BY <1>0, <1>1, <2>1, <2>2, QuietDelivery
<1>8. CASE Enqueue \/ logging_loop \/ main \/ UNCHANGED vars
  <2>1. /\ ~CorePush
        /\ UNCHANGED <<egress_read_idx, egress_write_idx, egress_ring, ppc, outbound_packet,
                       egress_queue, delivered, crashes, outpc, packet>>
    BY ZenonT(40), <1>8 DEF Enqueue, EnqueueWrite, EnqueuePublish, logging_loop, main, vars, egressVars,
                processVars, publisherVars, boundVars, coreVars, gatewayVars, CorePush
  <2> QED BY ZenonT(40), <1>0, <1>1, <2>1, QuietDelivery
<1>9. CASE core_thread /\ ~CorePush
  <2>1. UNCHANGED <<egress_read_idx, egress_write_idx, egress_ring, ppc, outbound_packet,
                    egress_queue, delivered, crashes, outpc, packet>>
    BY ZenonT(40), <1>9 DEF core_thread, CoreLoop, CoreIdle, CoreSubmit, CoreRelease, CoreBuild, CoreBatch,
                CoreFrame, egressVars, publisherVars, boundVars, gatewayVars
  <2> QED BY ZenonT(40), <1>0, <1>1, <1>9, <2>1, QuietDelivery
<1> QED
  BY <1>0, <1>3, <1>4, <1>5, <1>6, <1>7, <1>8, <1>9 DEF Next, ServeNext, Dequeue

\* The invariant of the reports.
THEOREM DeliveryInvariant == Spec => []DeliveryInv
BY DeliveryInit, DeliveryNext, ServeInvariant, PTL DEF Spec

\* Only DequeueRelease hands a report over.
LEMMA HandOver ==
  ASSUME [Next]_vars, outpc = "release", outpc' = "idle"
  PROVE  DequeueRelease
BY Zenon DEF Next, ServeNext, Enqueue, EnqueueWrite, EnqueuePublish, Dequeue, DequeueRead,
       core_thread, CoreLoop, CoreIdle, CoreSubmit, CoreRelease, CoreBuild, CorePush, CoreBatch,
       CoreFrame, egress_publisher_thread, PublisherLoop, PublisherPop, PublisherRoom,
       PublisherWrite, PublisherPublish, PublisherFrame, logging_loop, main, signal_handler,
       Crash, Restart, Start, vars, gatewayVars

\* Until the engine is told to stop, the gateway sees no report twice and none out of
\* order, for every size of ring and queue and any number of crashes and restarts.
THEOREM ReportsInOrder == Spec => DeliveredInOrder
<1> DEFINE InOrder == outpc = "release" /\ outpc' = "idle" /\ signals = 0
                      => After(delivered, delivered')
<1>1. ASSUME ServeInv, DeliveryInv, [Next]_vars, outpc = "release", outpc' = "idle", signals = 0
      PROVE  After(delivered, delivered')
  BY <1>1, HandOver, ReleaseStream DEF DeliveryInv
<1>2. ServeInv /\ DeliveryInv /\ [Next]_vars => [InOrder]_vars BY <1>1
<1> QED BY <1>2, ServeInvariant, DeliveryInvariant, PTL DEF Spec, DeliveredInOrder

\* And without a crash it sees every one: no full queue or ring loses a report.
THEOREM ReportsWithoutGap == Spec => NoReportSkipped
<1> DEFINE NoGap == outpc = "release" /\ outpc' = "idle" /\ signals = 0 /\ crashes = 0
                    => Follows(delivered, delivered')
<1>1. ASSUME ServeInv, DeliveryInv, [Next]_vars, outpc = "release", outpc' = "idle",
             signals = 0, crashes = 0
      PROVE  Follows(delivered, delivered')
  BY <1>1, HandOver, ReleaseChain DEF DeliveryInv
<1>2. ServeInv /\ DeliveryInv /\ [Next]_vars => [NoGap]_vars BY <1>1
<1> QED BY <1>2, ServeInvariant, DeliveryInvariant, PTL DEF Spec, NoReportSkipped

-----------------------------------------------------------------------------
(***************************************************************************)
(* The scheduler.  It only decides which step comes next, so the process   *)
(* that EngineScheduling runs on its CPUs does nothing that the pipeline   *)
(* does not do, and what holds of every step of the pipeline carries over. *)
(***************************************************************************)

\* A scheduled step is a step of the pipeline, or one of the scheduler alone.
LEMMA ScheduledStep ==
  ASSUME [SNext]_schedVars
  PROVE  [Next]_vars /\ crashes' = crashes
<1>1. CASE UNCHANGED vars BY Zenon, <1>1 DEF vars, boundVars
<1>2. CASE main \/ signal_handler
  <2>1. Next BY Zenon, <1>2 DEF Next
  <2> QED BY Zenon, <1>2, <2>1 DEF main, signal_handler, boundVars
<1>3. CASE core_thread \/ egress_publisher_thread \/ logging_loop
  <2>1. Next BY Zenon, <1>3 DEF Next, ServeNext
  <2>2. crashes' = crashes
    BY Zenon, <1>3 DEF core_thread, CoreLoop, CoreIdle, CoreSubmit, CoreRelease, CoreBuild,
                       CorePush, CoreBatch, CoreFrame, egress_publisher_thread, PublisherLoop,
                       PublisherPop, PublisherRoom, PublisherWrite, PublisherPublish,
                       PublisherFrame, logging_loop, boundVars
  <2> QED BY Zenon, <2>1, <2>2
<1>4. CASE Restart \/ Enqueue \/ Dequeue
  <2>1. Next BY Zenon, <1>4 DEF Next, ServeNext
  <2> QED BY Zenon, <1>4, <2>1 DEF Restart, Start, Enqueue, EnqueueWrite, EnqueuePublish,
                                   Dequeue, DequeueRead, DequeueRelease, boundVars
<1> QED
  BY Zenon, <1>1, <1>2, <1>3, <1>4
  DEF SNext, CoreRuns, PublisherRuns, WorkerRuns, MainRuns, MainSleeps, MainWakes, SignalRuns,
      Restarts, GatewayRuns, schedVars

\* The threads under SCHED_FIFO (scripts/run_pipeline.sh and run_n2n.sh), on any number of
\* CPUs, behave as the pipeline does under an arbitrary interleaving.
THEOREM SchedulerRefinesPipeline == SSpec => Init /\ [][Next]_vars
<1>1. SInit => Init BY DEF SInit
<1>2. [SNext]_schedVars => [Next]_vars BY ScheduledStep
<1> QED BY <1>1, <1>2, PTL DEF SSpec

\* The flow starts with the unread part of the egress ring.
LEMMA UnreadIsFlow ==
  ASSUME TypeOK, EgressInv, ChainInv
  PROVE  /\ egress_write_idx - egress_read_idx <= RingSize
         /\ \A i \in egress_read_idx .. egress_write_idx - 1 :
              Follows(IF i = egress_read_idx THEN delivered ELSE egress_ring[Slot(i - 1)],
                      egress_ring[Slot(i)])
<1>0. /\ Window \in Nat /\ InFlight \in Nat /\ Window <= InFlight
      /\ egress_read_idx \in Nat /\ egress_write_idx \in Nat
      /\ Window <= RingSize /\ egress_write_idx = egress_read_idx + Window
  <2>1. /\ Window \in Nat /\ Held \in {0, 1} /\ Len(egress_queue) \in Nat /\ InFlight \in Nat
        /\ InFlight = Window + Held + Len(egress_queue)
        /\ egress_read_idx \in Nat /\ egress_write_idx \in Nat
    BY Zenon, FlowOK
  <2>2. Window <= RingSize BY Constants DEF EgressInv
  <2> QED BY <2>1, <2>2 DEF Window
<1>1. ASSUME NEW k \in 1 .. Window
      PROVE  Flow[k] = egress_ring[Slot(egress_read_idx + k - 1)]
  <2>1. k \in 1 .. InFlight /\ k <= Window BY <1>0
  <2> QED BY ONLY <2>1 DEF Flow
<1>2. SUFFICES ASSUME NEW i \in egress_read_idx .. egress_write_idx - 1
              PROVE  Follows(IF i = egress_read_idx THEN delivered ELSE egress_ring[Slot(i - 1)],
                             egress_ring[Slot(i)])
  BY <1>0 DEF Window
<1>3. CASE i = egress_read_idx
  <2>1. 1 \in 1 .. Window /\ InFlight > 0 /\ egress_read_idx + 1 - 1 = i BY <1>0, <1>3
  <2>2. Flow[1] = egress_ring[Slot(i)] BY ONLY <1>1, <2>1
  <2>3. Follows(delivered, Flow[1]) BY Zenon, <2>1 DEF ChainInv
  <2> QED BY Zenon, <1>0, <1>3, <2>2, <2>3
<1>4. CASE i # egress_read_idx
  <2> DEFINE k == i - egress_read_idx
  <2>1. /\ k \in 1 .. Window /\ k + 1 \in 1 .. Window /\ k \in 1 .. InFlight - 1
        /\ egress_read_idx + k - 1 = i - 1 /\ egress_read_idx + (k + 1) - 1 = i
    BY <1>0, <1>4
  <2> HIDE DEF k
  <2>2. Flow[k] = egress_ring[Slot(i - 1)] /\ Flow[k + 1] = egress_ring[Slot(i)]
    BY ONLY <1>1, <2>1
  <2>3. Follows(Flow[k], Flow[k + 1]) BY Zenon, <2>1 DEF ChainInv
  <2> QED BY Zenon, <1>0, <1>4, <2>2, <2>3
<1> QED BY <1>0, <1>3, <1>4

\* Until a signal, the publisher (main.cpp, lines 192-216) never writes over a report that
\* the gateway has not read, and the unread ones continue the last one delivered without a
\* gap.
THEOREM UnreadKept == SSpec => []UnreadReportsIntact
<1> DEFINE Alive == crashes = 0
<1>1. SInit => Init /\ Alive BY Zenon DEF SInit, Init
<1>2. Alive /\ [SNext]_schedVars => [Next]_vars /\ Alive' BY Zenon, ScheduledStep
<1>3. ServeInv /\ DeliveryInv /\ Alive => UnreadReportsIntact
  BY Zenon, UnreadIsFlow DEF UnreadReportsIntact, DeliveryInv, ServeInv
<1> HIDE DEF Alive
<1> QED BY <1>1, <1>2, <1>3, ServeInit, ServeNextOK, DeliveryInit, DeliveryNext, PTL DEF SSpec
=============================================================================
