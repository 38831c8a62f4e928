----------------------------- MODULE ObjectPool -----------------------------
(***************************************************************************)
(* The fixed-capacity object pool of include/sequitur/memory/ObjectPool.hpp*)
(* Objects are named by their index in the arena, free indices are kept on *)
(* an array used as a stack.  The pool belongs to one thread: acquire and  *)
(* release are never concurrent, so the compare-exchange loop on           *)
(* peak_usage is a plain maximum.                                          *)
(***************************************************************************)
EXTENDS Integers

CONSTANTS PoolCapacity,  \* capacity
          NULL           \* nullptr

ASSUME PoolAssumption == /\ PoolCapacity \in Nat
                         /\ NULL \notin 0 .. PoolCapacity - 1

VARIABLES free_indices, top, used_count, alloc_failures, peak_usage

poolVars == <<free_indices, top, used_count, alloc_failures, peak_usage>>

Slots == 0 .. PoolCapacity - 1

\* The indices on the stack, and the ones handed out.
FreeSlots == {free_indices[i] : i \in 0 .. top}
LiveSlots == Slots \ FreeSlots

PoolTypeOK ==
  /\ free_indices \in [Slots -> Slots]
  /\ top \in -1 .. PoolCapacity - 1
  /\ used_count \in Nat
  /\ alloc_failures \in Nat
  /\ peak_usage \in Nat

PoolInit ==
  /\ free_indices = [i \in Slots |-> i]
  /\ top = PoolCapacity - 1
  /\ used_count = 0
  /\ alloc_failures = 0
  /\ peak_usage = 0

\* acquire() on an exhausted pool: returns nullptr.
acquire_fails ==
  /\ top < 0
  /\ alloc_failures' = alloc_failures + 1
  /\ UNCHANGED <<free_indices, top, used_count, peak_usage>>

\* acquire() returning object o.  The placement new of line 54 is the caller's
\* assignment to the fields of o.
acquire(o) ==
  /\ top >= 0
  /\ o = free_indices[top]
  /\ top' = top - 1
  /\ used_count' = used_count + 1
  /\ peak_usage' = IF used_count + 1 > peak_usage THEN used_count + 1 ELSE peak_usage
  /\ UNCHANGED <<free_indices, alloc_failures>>

\* release(o), o not nullptr.
release(o) ==
  /\ top' = top + 1
  /\ free_indices' = [free_indices EXCEPT ![top + 1] = o]
  /\ used_count' = used_count - 1
  /\ UNCHANGED <<alloc_failures, peak_usage>>
=============================================================================
