-------------------------- MODULE EngineScheduling --------------------------
(***************************************************************************)
(* The engine process under the real-time scheduler.  The scripts start it *)
(* with SCHED_FIFO 99 on a fixed set of CPUs, one in run_pipeline.sh and   *)
(* three in run_n2n.sh; the core, the publisher and the main thread have   *)
(* that priority, and the constructor of MetricsWorker gives its thread    *)
(* 50.  A SCHED_FIFO thread runs until it blocks, yields or is preempted   *)
(* by a higher priority; a yield only lets threads of the same priority    *)
(* go first.  The core and a publisher that waits for a slot spin without  *)
(* yielding.                                                               *)
(*                                                                         *)
(* The runnable threads are a queue, highest priority first and each       *)
(* priority in FIFO order; the first CPUs of them run.  The gateway has    *)
(* CPUs of its own.  Crashes are left to EnginePipeline.                   *)
(***************************************************************************)
EXTENDS EnginePipeline

CONSTANT CPUs  \* CPUs that the engine's threads share

ASSUME SchedulingAssumption == CPUs \in Nat \ {0}

VARIABLE runq  \* the runnable threads, in the order in which they get a CPU

schedVars == <<vars, runq>>

Threads == {"main", "core", "publisher", "worker"}

\* Which threads hold a CPU.
Running == {runq[i] : i \in {j \in 1 .. Len(runq) : j <= CPUs}}
Runnable == {runq[i] : i \in 1 .. Len(runq)}

\* t stops being runnable.
Without(q, t) == SelectSeq(q, LAMBDA u : u # t)

\* t, of priority 99, goes behind the others of its priority and before the worker.
Behind(q, t) ==
  Without(Without(q, t), "worker") \o <<t>> \o SelectSeq(q, LAMBDA u : u = "worker")

\* main has created the threads and runs on until it sleeps; the worker is last.
InitialQueue == <<"main", "core", "publisher", "worker">>

SInit == Init /\ runq = InitialQueue

-----------------------------------------------------------------------------
CoreRuns ==
  /\ "core" \in Running
  /\ core_thread
  /\ runq' = IF cpc' = "done" THEN Without(runq, "core") ELSE runq

\* The publisher yields when it finds the queue empty.
PublisherRuns ==
  /\ "publisher" \in Running
  /\ egress_publisher_thread
  /\ runq' = CASE ppc' = "done" -> Without(runq, "publisher")
               [] ppc = "pop" /\ ppc' = "loop" -> Behind(runq, "publisher")
               [] OTHER -> runq

\* No other thread has the worker's priority, so its yield changes nothing.
WorkerRuns ==
  /\ "worker" \in Running
  /\ logging_loop
  /\ runq' = IF wpc' = "done" THEN Without(runq, "worker") ELSE runq

\* A thread that joins another one waits until that has ended.
Blocked ==
  \/ mpc = "join_core" /\ cpc # "done"
  \/ mpc = "join_publisher" /\ ppc # "done"
  \/ mpc = "join_worker" /\ wpc # "done"

MainRuns ==
  /\ "main" \in Running
  /\ main
  /\ runq' = IF mpc' = "exited" THEN <<>> ELSE runq

\* As MainSleeps, but main polls the flag without sleeping (mutant).
MainSleeps_polls ==
  /\ "main" \in Running
  /\ mpc = "wait" /\ engine_active
  /\ UNCHANGED schedVars

\* main sleeps for 100 ms as long as the engine is active, and in a join.
MainSleeps ==
  /\ "main" \in Running
  /\ (mpc = "wait" /\ engine_active) \/ Blocked
  /\ runq' = Without(runq, "main")
  /\ UNCHANGED vars

\* The sleep is over, a signal interrupts it, or the joined thread has ended.
MainWakes ==
  /\ mpc # "exited"
  /\ "main" \notin Runnable
  /\ ~Blocked
  /\ runq' = Behind(runq, "main")
  /\ UNCHANGED vars

\* The kernel delivers a signal to the main thread, which must have a CPU to run the handler.
SignalRuns ==
  /\ "main" \in Running
  /\ signal_handler
  /\ UNCHANGED runq

Restarts == Restart /\ runq' = InitialQueue
GatewayRuns == (Enqueue \/ Dequeue) /\ UNCHANGED runq

SNext == CoreRuns \/ PublisherRuns \/ WorkerRuns \/ MainRuns \/ MainSleeps \/ MainWakes
           \/ SignalRuns \/ Restarts \/ GatewayRuns

\* A thread makes progress if it is given a CPU again and again, timers expire, and an
\* ended engine is started again.  Nothing makes the gateway read or write.
SSpec ==
  /\ SInit
  /\ [][SNext]_schedVars
  /\ SF_schedVars(CoreRuns)
  /\ SF_schedVars(PublisherRuns)
  /\ SF_schedVars(WorkerRuns)
  /\ SF_schedVars(MainRuns)
  /\ WF_schedVars(MainSleeps)
  /\ WF_schedVars(MainWakes)
  /\ WF_schedVars(Restarts)

-----------------------------------------------------------------------------
\* The metrics worker is not starved: a snapshot that the core has pushed is drained, as
\* long as the engine is not told to stop.
WorkerNotStarved == metrics_queue > 0 ~> metrics_queue = 0 \/ ~engine_active

\* Until the engine is told to stop, the reports that the gateway has not read stand in
\* the egress ring unharmed: each one follows the one before it, the first one the last
\* report delivered.  Only a publisher that is told to stop while the ring is full breaks
\* out of its wait and writes over an unread report.
UnreadReportsIntact ==
  signals = 0 =>
    /\ egress_write_idx - egress_read_idx <= RingSize
    /\ \A i \in egress_read_idx .. egress_write_idx - 1 :
         Follows(IF i = egress_read_idx THEN delivered ELSE egress_ring[Slot(i - 1)],
                 egress_ring[Slot(i)])
=============================================================================
