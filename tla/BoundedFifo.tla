---------------------------- MODULE BoundedFifo -----------------------------
(***************************************************************************)
(* What a bounded queue between threads promises: items leave in the order *)
(* in which they entered, none is lost or repeated, a push is refused only *)
(* when the queue is full or stopped, a pop only when it is empty.         *)
(***************************************************************************)
EXTENDS Integers, Sequences

CONSTANTS Capacity, Values, None

VARIABLES items,    \* the contents, oldest first
          stopped,  \* whether shutdown was called
          pushed,   \* the outcome of the last push
          popped    \* the outcome of the last pop: an item, or None

fifoVars == <<items, stopped, pushed, popped>>

Init ==
  /\ items = <<>>
  /\ stopped = FALSE
  /\ pushed = "none"
  /\ popped = None

Push(v) ==
  /\ Len(items) < Capacity
  /\ items' = Append(items, v)
  /\ pushed' = "ok"
  /\ UNCHANGED <<stopped, popped>>

PushFull ==
  /\ Len(items) = Capacity
  /\ pushed' = "full"
  /\ UNCHANGED <<items, stopped, popped>>

PushStopped ==
  /\ stopped
  /\ pushed' = "stopped"
  /\ UNCHANGED <<items, stopped, popped>>

Pop ==
  /\ items # <<>>
  /\ popped' = Head(items)
  /\ items' = Tail(items)
  /\ UNCHANGED <<stopped, pushed>>

PopEmpty ==
  /\ items = <<>>
  /\ popped' = None
  /\ UNCHANGED <<items, stopped, pushed>>

Stop ==
  /\ stopped' = TRUE
  /\ UNCHANGED <<items, pushed, popped>>

Next == \/ \E v \in Values : Push(v)
        \/ PushFull
        \/ PushStopped
        \/ Pop
        \/ PopEmpty
        \/ Stop

Spec == Init /\ [][Next]_fifoVars
=============================================================================
