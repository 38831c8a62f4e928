--------------------------- MODULE QueueConstants ---------------------------
(***************************************************************************)
(* What the three queues of include/sequitur/concurrency have in common: a *)
(* power-of-two array of slots that counters index modulo its size.        *)
(***************************************************************************)
EXTENDS Integers

CONSTANTS Capacity,
          Values,
          None,
          MaxPush   \* bound: items pushed

ASSUME QueueAssumption == Capacity \in Nat \ {0} /\ MaxPush \in Nat /\ None \notin Values

Slot(i) == i % Capacity
=============================================================================
