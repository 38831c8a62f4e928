-------------------------- MODULE ItemQueueProofs ---------------------------
(***************************************************************************)
(* Proofs about the queues that pop one item at a time, for every capacity *)
(* (above 1 for MPSCQueue), every set of values and of producers.          *)
(* MPSCQueue is extended, so that its variables keep their names;          *)
(* SPSCQueue is an instance over variables of its own, whose definitions   *)
(* are written Spsc!...                                                    *)
(***************************************************************************)
EXTENDS MPSCQueue, TLAPS

-----------------------------------------------------------------------------
(***************************************************************************)
(* Slots.                                                                  *)
(***************************************************************************)
\* An index has its slot in the ring.
LEMMA SlotRange == ASSUME NEW i \in Nat PROVE Slot(i) \in 0 .. Capacity - 1
BY QueueAssumption DEF Slot

\* Indices at most a lap apart share a slot only when they are equal or exactly a lap apart.
LEMMA SlotOfLaps ==
  ASSUME NEW i \in Nat, NEW j \in Nat, i <= j, j - i <= Capacity
  PROVE  Slot(i) = Slot(j) <=> i = j \/ j = i + Capacity
<1>1. Capacity \in Nat \ {0} BY QueueAssumption
<1>2. ASSUME NEW n \in Nat PROVE \E a \in Int : n = Capacity * a + Slot(n)
  <2>1. n \div Capacity \in Int /\ n = Capacity * (n \div Capacity) + Slot(n) BY <1>1 DEF Slot
  <2> QED BY Zenon, <2>1
<1> PICK a \in Int : i = Capacity * a + Slot(i) BY <1>2
<1> PICK b \in Int : j = Capacity * b + Slot(j) BY <1>2
<1> DEFINE d == b - a
           e == Capacity * d
<1>3. d \in Int /\ e = Capacity * b - Capacity * a BY <1>1
<1> HIDE DEF d
<1>4. \/ d <= -1 /\ e <= -Capacity
      \/ d = 0 /\ e = 0
      \/ d = 1 /\ e = Capacity
      \/ d >= 2 /\ e >= Capacity + Capacity
  <2>1. CASE d <= -1 BY <1>1, <1>3, <2>1
  <2>2. CASE d = 0 BY <1>1, <2>2
  <2>3. CASE d = 1 BY <1>1, <2>3
  <2>4. CASE d >= 2 BY <1>1, <1>3, <2>4
  <2> QED BY <1>3, <2>1, <2>2, <2>3, <2>4
<1>5. Slot(i) \in 0 .. Capacity - 1 /\ Slot(j) \in 0 .. Capacity - 1 BY SlotRange
<1> DEFINE x == Capacity * a
           y == Capacity * b
<1>6. x \in Int /\ y \in Int /\ e = y - x /\ i = x + Slot(i) /\ j = y + Slot(j)
  BY <1>1, <1>3
<1> HIDE DEF e, x, y
<1> QED BY <1>1, <1>4, <1>5, <1>6

\* The indices of a window of Capacity have different slots.
LEMMA WindowDistinct ==
  ASSUME NEW r \in Nat, NEW i \in Nat, NEW j \in Nat, i # j,
         r <= i, i < r + Capacity, r <= j, j < r + Capacity
  PROVE  Slot(i) # Slot(j)
<1>1. Capacity \in Nat \ {0} BY QueueAssumption
<1>2. \/ i <= j /\ j - i <= Capacity /\ j # i + Capacity
      \/ j <= i /\ i - j <= Capacity /\ i # j + Capacity
  BY <1>1
<1> QED BY Zenon, <1>2, SlotOfLaps

\* An index has the same slot one lap later.
LEMMA SlotNextLap == ASSUME NEW i \in Nat PROVE Slot(i + Capacity) = Slot(i)
<1>1. i + Capacity \in Nat /\ i <= i + Capacity /\ (i + Capacity) - i <= Capacity
  BY QueueAssumption
<1> QED BY <1>1, SlotOfLaps

\* A sequence is the function of its elements.
LEMMA SameSequence ==
  ASSUME NEW V, NEW s \in Seq(V), NEW n, Len(s) = n,
         NEW f, f = [i \in 1 .. n |-> f[i]],
         \A i \in 1 .. n : s[i] = f[i]
  PROVE  f = s
OBVIOUS

-----------------------------------------------------------------------------
(***************************************************************************)
(* MPSCQueue.                                                              *)
(***************************************************************************)
\* With one cell, "holds ticket t" and "free for ticket t + 1" are the same number.
LargeEnough == Capacity > 1

\* The cells of the tickets to come are free, up to a lap after the consumer.
FreeCells ==
  \A i \in Nat : tail_ <= i /\ i < released + Capacity => sequence[Slot(i)] = i

\* The cell of a claimed ticket is pending, or it is published and holds a value.
TakenCells ==
  \A i \in Nat : released <= i /\ i < tail_ =>
    Pending(i) \/ (sequence[Slot(i)] = i + 1 /\ data[Slot(i)] \in Values)

\* A producer that writes owns a claimed ticket alone, and its cell is not published.
Owners ==
  \A p \in Producers : Writing(p) =>
    /\ released <= ticket[p] /\ ticket[p] < tail_
    /\ sequence[Slot(ticket[p])] = ticket[p]
    /\ \A q \in Producers : Writing(q) /\ ticket[q] = ticket[p] => q = p

\* What a producer knows: the cell of a ticket it has been overtaken on shows it, a CAS
\* that would succeed finds a free cell, and what is about to be published is in it.
Locals ==
  \A p \in Producers :
    /\ ppc[p] # "idle" => item[p] \in Values
    /\ ppc[p] = "look" /\ ticket[p] < released => sequence[Slot(ticket[p])] > ticket[p]
    /\ ppc[p] = "cas" /\ ticket[p] = tail_ => tail_ < released + Capacity
    /\ ppc[p] = "publish" => data[Slot(ticket[p])] = item[p]

\* What the consumer knows: the cell it copies is published.
ConsumerKnows ==
  /\ cpc # "idle" => /\ head_ >= 1 /\ released < tail_
                     /\ sequence[Slot(released)] = released + 1
  /\ cpc = "release" => out = data[Slot(released)]

\* The inductive invariant.
QueueInv ==
  /\ LargeEnough /\ TypeOK
  /\ FreeCells /\ TakenCells /\ Owners /\ Locals /\ ConsumerKnows

\* The numbers the steps below compute with.
LEMMA Numbers ==
  ASSUME QueueInv
  PROVE  /\ Capacity \in Nat \ {0} /\ Capacity > 1
         /\ tail_ \in Nat /\ head_ \in Nat /\ released \in Nat
         /\ released <= tail_ /\ tail_ <= released + Capacity
         /\ Slot(released) \in Cells /\ Slot(tail_) \in Cells
         /\ \A p \in Producers : ticket[p] \in Nat /\ Slot(ticket[p]) \in Cells
<1>1. /\ Capacity \in Nat \ {0} /\ Capacity > 1 /\ tail_ \in Nat /\ head_ \in Nat
      /\ tail_ - released \in 0 .. Capacity
      /\ \A p \in Producers : ticket[p] \in Nat
  BY QueueAssumption DEF QueueInv, LargeEnough, TypeOK
<1>2. released \in Nat BY <1>1 DEF QueueInv, ConsumerKnows, released, TypeOK
<1> QED BY <1>1, <1>2, SlotRange DEF Cells

\* The cells are the ranges of the cells' functions.
LEMMA CellTypes ==
  ASSUME QueueInv
  PROVE  sequence \in [Cells -> Nat] /\ data \in [Cells -> Values \cup {None}]
BY DEF QueueInv, TypeOK

\* The invariant holds of the queue as constructed.
LEMMA QueueInvInit == LargeEnough /\ Init => QueueInv
<1> SUFFICES ASSUME LargeEnough, Init PROVE QueueInv OBVIOUS
<1>1. Capacity \in Nat \ {0} BY QueueAssumption
<1>2. released = 0 /\ tail_ = 0 BY DEF Init, released
<1>3. TypeOK
  <2>1. stop_flag_ \in BOOLEAN BY Zenon DEF Init
  <2>2. sequence \in [Cells -> Nat] BY <1>1 DEF Init, Cells
  <2>3. tail_ - released \in 0 .. Capacity BY <1>1, <1>2
  <2>4. \A p \in Producers : ticket[p] \in 0 .. tail_ BY <1>2 DEF Init
  <2>5. /\ data \in [Cells -> Values \cup {None}]
        /\ tail_ \in Nat /\ head_ \in Nat
        /\ ppc \in [Producers -> {"idle", "load", "look", "cas", "write", "publish"}]
        /\ item \in [Producers -> Values \cup {None}]
        /\ ticket \in [Producers -> Nat]
        /\ cpc = "idle" /\ out = None /\ pushed = "none" /\ popped = None
    BY DEF Init
  <2> QED BY <2>1, <2>2, <2>3, <2>4, <2>5 DEF TypeOK
<1>4. FreeCells
  <2> SUFFICES ASSUME NEW i \in Nat, i < Capacity PROVE sequence[Slot(i)] = i
    BY <1>1, <1>2 DEF FreeCells
  <2>1. Slot(i) = i /\ i \in Cells BY <1>1 DEF Slot, Cells
  <2> QED BY <2>1 DEF Init
<1>5. \A p \in Producers : ppc[p] = "idle" BY DEF Init
<1>6. TakenCells BY <1>2 DEF TakenCells
<1>7. Owners /\ Locals BY <1>5 DEF Owners, Locals, Writing
<1>8. ConsumerKnows BY DEF Init, ConsumerKnows
<1> QED BY <1>3, <1>4, <1>6, <1>7, <1>8 DEF QueueInv

\* A step of a producer that owns no ticket, before and after, leaves the cells and
\* their owners alone.
LEMMA CellsFrame ==
  ASSUME QueueInv, UNCHANGED <<sequence, data, tail_, head_, cpc>>,
         \A q \in Producers : Writing(q)' = Writing(q) /\ (Writing(q) => ticket'[q] = ticket[q])
  PROVE  /\ released' = released /\ FreeCells' /\ TakenCells' /\ Owners'
         /\ \A t : Pending(t)' = Pending(t)
<1>1. released' = released BY DEF released
<1>2. \A t : Pending(t)' = Pending(t) BY DEF Pending
<1>3. FreeCells' BY <1>1 DEF QueueInv, FreeCells, Slot
<1>4. TakenCells' BY <1>1, <1>2 DEF QueueInv, TakenCells, Slot
<1>5. Owners' BY <1>1 DEF QueueInv, Owners, Slot
<1> QED BY <1>1, <1>2, <1>3, <1>4, <1>5

\* What a step of producer p inside push, before it claims, may do to its locals.
LEMMA LocalStep ==
  ASSUME QueueInv, NEW p \in Producers, ~Writing(p),
         UNCHANGED <<queueVars, cpc, out, popped>>,
         NEW place \in {"idle", "load", "look", "cas"}, NEW v \in Values \cup {None},
         NEW t \in 0 .. tail_,
         ppc' = [ppc EXCEPT ![p] = place], item' = [item EXCEPT ![p] = v],
         ticket' = [ticket EXCEPT ![p] = t],
         place # "idle" => v \in Values, place = "look" => t = tail_,
         place = "cas" /\ t = tail_ => tail_ < released + Capacity,
         pushed' \in {"none", "ok", "full", "stopped"}
  PROVE  QueueInv'
<1>0. UNCHANGED <<sequence, data, tail_, head_, stop_flag_>> BY DEF queueVars, cellVars
<1>1. \A q \in Producers : /\ ppc'[q] = (IF q = p THEN place ELSE ppc[q])
                          /\ item'[q] = (IF q = p THEN v ELSE item[q])
                          /\ ticket'[q] = (IF q = p THEN t ELSE ticket[q])
  BY DEF QueueInv, TypeOK
<1>2. \A q \in Producers : Writing(q)' = Writing(q) /\ (Writing(q) => ticket'[q] = ticket[q])
  BY <1>1 DEF Writing
<1>3. released' = released /\ FreeCells' /\ TakenCells' /\ Owners' BY <1>0, <1>2, CellsFrame
<1>4. TypeOK'
  <2>1. tail_ \in Nat BY DEF QueueInv, TypeOK
  <2>2. /\ ppc' \in [Producers -> {"idle", "load", "look", "cas", "write", "publish"}]
        /\ item' \in [Producers -> Values \cup {None}]
        /\ ticket' \in [Producers -> Nat]
    BY <2>1 DEF QueueInv, TypeOK
  <2>3. \A q \in Producers : ticket'[q] \in 0 .. tail_ BY <1>1 DEF QueueInv, TypeOK
  <2> QED BY <1>0, <1>3, <2>2, <2>3 DEF QueueInv, TypeOK
<1>5. Locals' BY <1>0, <1>1, <1>3, Numbers DEF QueueInv, Locals, Slot, Writing
<1>6. ConsumerKnows' BY <1>0, <1>3 DEF QueueInv, ConsumerKnows, Slot
<1> QED BY <1>3, <1>4, <1>5, <1>6 DEF QueueInv, LargeEnough

\* The steps of push before the claim keep the invariant.
LEMMA BeforeClaim ==
  ASSUME QueueInv, NEW p \in Producers,
         (\E v \in Values : PushBegin(p, v)) \/ PushLoad(p) \/ PushLook(p) \/ PushRetry(p)
  PROVE  QueueInv'
<1>0. /\ tail_ \in Nat /\ 0 \in 0 .. tail_ /\ tail_ \in 0 .. tail_ /\ ticket[p] \in 0 .. tail_
      /\ item[p] \in Values \cup {None} /\ None \in Values \cup {None}
      /\ pushed \in {"none", "ok", "full", "stopped"}
      /\ ppc = [ppc EXCEPT ![p] = ppc[p]] /\ item = [item EXCEPT ![p] = item[p]]
      /\ ticket = [ticket EXCEPT ![p] = ticket[p]]
      /\ ppc[p] # "idle" => item[p] \in Values
  BY DEF QueueInv, TypeOK, Locals
<1>1. CASE \E v \in Values : PushBegin(p, v)
  <2> PICK v \in Values : PushBegin(p, v) BY <1>1
  <2>1. /\ ppc[p] = "idle" /\ ppc' = [ppc EXCEPT ![p] = "load"]
        /\ item' = [item EXCEPT ![p] = v] /\ ticket' = [ticket EXCEPT ![p] = ticket[p]]
        /\ UNCHANGED <<queueVars, cpc, out, popped>> /\ pushed' = pushed
    BY <1>0 DEF PushBegin, consumerVars
  <2>2. ~Writing(p) BY <2>1 DEF Writing
  <2> QED BY Zenon, <1>0, <2>1, <2>2, LocalStep
<1>2. CASE PushLoad(p)
  <2>1. /\ ppc[p] = "load" /\ ppc' = [ppc EXCEPT ![p] = "look"]
        /\ item' = [item EXCEPT ![p] = item[p]] /\ ticket' = [ticket EXCEPT ![p] = tail_]
        /\ UNCHANGED <<queueVars, cpc, out, popped>> /\ pushed' = pushed
    BY <1>0, <1>2 DEF PushLoad, consumerVars
  <2>2. ~Writing(p) BY <2>1 DEF Writing
  <2> QED BY Zenon, <1>0, <2>1, <2>2, LocalStep
<1>3. CASE PushRetry(p)
  <2>1. /\ ppc[p] = "cas" /\ ppc' = [ppc EXCEPT ![p] = "look"]
        /\ item' = [item EXCEPT ![p] = item[p]] /\ ticket' = [ticket EXCEPT ![p] = tail_]
        /\ UNCHANGED <<queueVars, cpc, out, popped>> /\ pushed' = pushed
    BY <1>0, <1>3 DEF PushRetry, consumerVars
  <2>2. ~Writing(p) BY <2>1 DEF Writing
  <2> QED BY Zenon, <1>0, <2>1, <2>2, LocalStep
<1>4. CASE PushLook(p)
  <2> DEFINE diff == sequence[Slot(ticket[p])] - ticket[p]
  <2>1. ppc[p] = "look" /\ UNCHANGED <<queueVars, cpc, out, popped>>
    BY <1>4 DEF PushLook, consumerVars
  <2>2. ~Writing(p) BY <2>1 DEF Writing
  <2>3. CASE diff = 0 /\ ppc' = [ppc EXCEPT ![p] = "cas"] /\ UNCHANGED <<item, ticket, pushed>>
    <3>1. ticket[p] = tail_ => tail_ < released + Capacity
      <4> SUFFICES ASSUME ticket[p] = tail_, tail_ = released + Capacity PROVE FALSE
        BY Numbers
      <4>1. Slot(tail_) = Slot(released) BY Numbers, SlotNextLap
      <4>2. sequence[Slot(released)] = released + Capacity
        BY <2>3, <4>1, Numbers, CellTypes
      <4>3. released < tail_ BY Numbers
      <4>4. CASE Pending(released)
        <5>1. sequence[Slot(released)] = released
          BY <4>4 DEF QueueInv, Owners, Pending
        <5> QED BY <4>2, <5>1, Numbers
      <4>5. CASE ~Pending(released)
        <5>1. sequence[Slot(released)] = released + 1
          BY <4>3, <4>5, Numbers DEF QueueInv, TakenCells
        <5> QED BY <4>2, <5>1, Numbers
      <4> QED BY <4>4, <4>5
    <3> QED BY Zenon, <1>0, <2>1, <2>2, <2>3, <3>1, LocalStep
  <2>4. CASE pushed' = "full" /\ PushReturns(p)
    BY Zenon, <1>0, <2>1, <2>2, <2>4, LocalStep DEF PushReturns
  <2>5. CASE ppc' = [ppc EXCEPT ![p] = "load"] /\ UNCHANGED <<item, ticket, pushed>>
    BY Zenon, <1>0, <2>1, <2>2, <2>5, LocalStep
  <2> QED BY <1>4, <2>3, <2>4, <2>5 DEF PushLook
<1> QED BY <1>1, <1>2, <1>3, <1>4

\* The claim: the cell of the ticket is free, and becomes the producer's own.
LEMMA ClaimKeepsInv ==
  ASSUME QueueInv, NEW p \in Producers, PushClaim(p) PROVE QueueInv'
<1>1. /\ ppc[p] = "cas" /\ ticket[p] = tail_ /\ tail_' = tail_ + 1 /\ pushed' = "ok"
      /\ ppc' = [ppc EXCEPT ![p] = "write"]
      /\ UNCHANGED <<sequence, data, head_, stop_flag_, item, ticket, cpc, out, popped>>
  BY DEF PushClaim, cellVars, consumerVars
<1>2. \A q \in Producers : ppc'[q] = (IF q = p THEN "write" ELSE ppc[q])
  BY <1>1 DEF QueueInv, TypeOK
<1>3. released' = released BY <1>1 DEF released
<1>4. tail_ < released + Capacity BY <1>1 DEF QueueInv, Locals
<1>5. sequence[Slot(tail_)] = tail_ BY <1>4, Numbers DEF QueueInv, FreeCells
<1>6. /\ \A q \in Producers : Writing(q)' <=> (q = p \/ Writing(q))
      /\ \A q \in Producers : Writing(q) => ticket[q] < tail_
  BY <1>1, <1>2 DEF Writing, QueueInv, Owners
<1>7. \A t : Pending(t)' <=> (Pending(t) \/ t = tail_) BY <1>1, <1>6 DEF Pending
<1>8. TypeOK'
  <2>1. tail_' - released' \in 0 .. Capacity BY <1>1, <1>3, <1>4, Numbers
  <2>2. ppc' \in [Producers -> {"idle", "load", "look", "cas", "write", "publish"}]
    BY <1>1 DEF QueueInv, TypeOK
  <2>3. tail_' \in Nat /\ \A q \in Producers : ticket'[q] \in 0 .. tail_'
    BY <1>1, Numbers DEF QueueInv, TypeOK
  <2> QED BY <1>1, <2>1, <2>2, <2>3 DEF QueueInv, TypeOK
<1>9. FreeCells' BY <1>1, <1>3, Numbers DEF QueueInv, FreeCells, Slot
<1>10. TakenCells'
  <2> SUFFICES ASSUME NEW i \in Nat, released <= i, i < tail_ + 1
               PROVE  Pending(i)' \/ (sequence[Slot(i)] = i + 1 /\ data[Slot(i)] \in Values)
    BY <1>1, <1>3 DEF TakenCells, Slot
  <2>1. i = tail_ \/ i < tail_ BY Numbers
  <2> QED BY <2>1, <1>7 DEF QueueInv, TakenCells
<1>11. Owners'
  <2> SUFFICES ASSUME NEW q \in Producers, Writing(q)'
               PROVE  /\ released <= ticket[q] /\ ticket[q] < tail_ + 1
                      /\ sequence[Slot(ticket[q])] = ticket[q]
                      /\ \A w \in Producers : Writing(w)' /\ ticket[w] = ticket[q] => w = q
    BY <1>1, <1>3 DEF Owners, Slot
  <2>1. CASE q = p BY <2>1, <1>1, <1>5, <1>6, Numbers
  <2>2. CASE q # p
    <3>1. Writing(q) BY <2>2, <1>6
    <3>2. released <= ticket[q] /\ ticket[q] < tail_ /\ sequence[Slot(ticket[q])] = ticket[q]
      BY <3>1 DEF QueueInv, Owners
    <3>3. \A w \in Producers : Writing(w) /\ ticket[w] = ticket[q] => w = q
      BY <3>1 DEF QueueInv, Owners
    <3> QED BY <3>2, <3>3, <1>1, <1>6, Numbers
  <2> QED BY <2>1, <2>2
<1>12. Locals'
  <2>1. \A q \in Producers : ticket[q] <= tail_ BY DEF QueueInv, TypeOK
  <2> QED BY <1>1, <1>2, <1>3, <2>1, Numbers DEF QueueInv, Locals, Slot
<1>13. ConsumerKnows' BY <1>1, <1>3, Numbers DEF QueueInv, ConsumerKnows, Slot
<1> QED BY <1>8, <1>9, <1>10, <1>11, <1>12, <1>13 DEF QueueInv, LargeEnough

\* The write: no other claimed ticket has the cell.
LEMMA WriteKeepsInv ==
  ASSUME QueueInv, NEW p \in Producers, PushWrite(p) PROVE QueueInv'
<1>1. /\ ppc[p] = "write" /\ ppc' = [ppc EXCEPT ![p] = "publish"]
      /\ data' = [data EXCEPT ![Slot(ticket[p])] = item[p]]
      /\ UNCHANGED <<sequence, tail_, head_, stop_flag_, item, ticket, pushed, cpc, out, popped>>
  BY DEF PushWrite, consumerVars
<1>2. \A q \in Producers : ppc'[q] = (IF q = p THEN "publish" ELSE ppc[q])
  BY <1>1 DEF QueueInv, TypeOK
<1>3. released' = released BY <1>1 DEF released
<1>4. Writing(p) /\ \A q \in Producers : Writing(q)' <=> Writing(q) BY <1>1, <1>2 DEF Writing
<1>5. \A t : Pending(t)' <=> Pending(t) BY <1>1, <1>4 DEF Pending
<1>6. released <= ticket[p] /\ ticket[p] < tail_ /\ sequence[Slot(ticket[p])] = ticket[p]
  BY <1>4 DEF QueueInv, Owners
<1>7. \A i \in Nat : released <= i /\ i < tail_ /\ i # ticket[p] => data'[Slot(i)] = data[Slot(i)]
  <2> SUFFICES ASSUME NEW i \in Nat, released <= i, i < tail_, i # ticket[p]
               PROVE  data'[Slot(i)] = data[Slot(i)]
    OBVIOUS
  <2>1. i < released + Capacity /\ ticket[p] < released + Capacity BY <1>6, Numbers
  <2>2. Slot(i) # Slot(ticket[p]) BY <2>1, <1>6, Numbers, WindowDistinct
  <2> QED BY <2>2, <1>1, CellTypes, SlotRange DEF Cells
<1>8. data'[Slot(ticket[p])] = item[p] BY <1>1, CellTypes, Numbers
<1>9. TypeOK'
  <2>1. data' \in [Cells -> Values \cup {None}] BY ZenonT(40), <1>1, CellTypes DEF QueueInv, TypeOK
  <2>2. ppc' \in [Producers -> {"idle", "load", "look", "cas", "write", "publish"}]
    BY <1>1 DEF QueueInv, TypeOK
  <2> QED BY <1>1, <1>3, <2>1, <2>2 DEF QueueInv, TypeOK
<1>10. FreeCells' BY <1>1, <1>3 DEF QueueInv, FreeCells, Slot
<1>11. TakenCells'
  <2> SUFFICES ASSUME NEW i \in Nat, released <= i, i < tail_
               PROVE  Pending(i)' \/ (sequence[Slot(i)] = i + 1 /\ data'[Slot(i)] \in Values)
    BY <1>1, <1>3 DEF TakenCells, Slot
  <2>1. CASE i = ticket[p] BY <2>1, <1>4, <1>5 DEF Pending
  <2>2. CASE i # ticket[p] BY <2>2, <1>5, <1>7 DEF QueueInv, TakenCells
  <2> QED BY <2>1, <2>2
<1>12. Owners' BY <1>1, <1>3, <1>4 DEF QueueInv, Owners, Slot
<1>13. Locals'
  <2> SUFFICES ASSUME NEW q \in Producers
               PROVE  /\ ppc'[q] # "idle" => item[q] \in Values
                      /\ ppc'[q] = "look" /\ ticket[q] < released
                           => sequence[Slot(ticket[q])] > ticket[q]
                      /\ ppc'[q] = "cas" /\ ticket[q] = tail_ => tail_ < released + Capacity
                      /\ ppc'[q] = "publish" => data'[Slot(ticket[q])] = item[q]
    BY <1>1, <1>3 DEF Locals, Slot
  <2>1. CASE q = p BY <2>1, <1>1, <1>2, <1>8 DEF QueueInv, Locals
  <2>2. CASE q # p
    <3>1. ppc[q] = "publish" => ticket[q] # ticket[p] /\ released <= ticket[q] /\ ticket[q] < tail_
      BY Zenon, <2>2, <1>4 DEF QueueInv, Owners, Writing
    <3> QED BY <2>2, <3>1, <1>2, <1>7, Numbers DEF QueueInv, Locals
  <2> QED BY <2>1, <2>2
<1>14. ConsumerKnows'
  <2>1. cpc # "idle" => released < tail_ /\ released # ticket[p]
    BY <1>6, Numbers DEF QueueInv, ConsumerKnows
  <2> QED BY <2>1, <1>1, <1>3, <1>7, Numbers DEF QueueInv, ConsumerKnows, Slot
<1> QED BY <1>9, <1>10, <1>11, <1>12, <1>13, <1>14 DEF QueueInv, LargeEnough

\* Publishing turns a pending ticket into a published one.
LEMMA PublishKeepsInv ==
  ASSUME QueueInv, NEW p \in Producers, PushPublish(p) PROVE QueueInv'
<1>1. /\ ppc[p] = "publish" /\ ppc' = [ppc EXCEPT ![p] = "idle"]
      /\ item' = [item EXCEPT ![p] = None] /\ ticket' = [ticket EXCEPT ![p] = 0]
      /\ sequence' = [sequence EXCEPT ![Slot(ticket[p])] = ticket[p] + 1]
      /\ UNCHANGED <<data, tail_, head_, stop_flag_, pushed, cpc, out, popped>>
  BY DEF PushPublish, PushReturns, consumerVars
<1>2. \A q \in Producers : /\ ppc'[q] = (IF q = p THEN "idle" ELSE ppc[q])
                          /\ item'[q] = (IF q = p THEN None ELSE item[q])
                          /\ ticket'[q] = (IF q = p THEN 0 ELSE ticket[q])
  BY <1>1 DEF QueueInv, TypeOK
<1>3. released' = released BY <1>1 DEF released
<1>4. Writing(p) /\ \A q \in Producers : Writing(q)' <=> (q # p /\ Writing(q))
  BY <1>1, <1>2 DEF Writing
<1>5. /\ released <= ticket[p] /\ ticket[p] < tail_ /\ ticket[p] \in Nat
      /\ \A q \in Producers : Writing(q) /\ ticket[q] = ticket[p] => q = p
      /\ data[Slot(ticket[p])] \in Values
  BY <1>1, <1>4, Numbers DEF QueueInv, Owners, Locals
<1>6. \A i \in Nat : Pending(i)' <=> (Pending(i) /\ i # ticket[p])
  BY <1>2, <1>4, <1>5 DEF Pending
<1>7. \A i \in Nat : released <= i /\ i < released + Capacity /\ i # ticket[p]
                    => sequence'[Slot(i)] = sequence[Slot(i)]
  <2> SUFFICES ASSUME NEW i \in Nat, released <= i, i < released + Capacity, i # ticket[p]
               PROVE  sequence'[Slot(i)] = sequence[Slot(i)]
    OBVIOUS
  <2>1. ticket[p] < released + Capacity BY <1>5, Numbers
  <2>2. Slot(i) # Slot(ticket[p]) BY <2>1, <1>5, Numbers, WindowDistinct
  <2> QED BY <2>2, <1>1, CellTypes, SlotRange DEF Cells
<1>8. sequence'[Slot(ticket[p])] = ticket[p] + 1 BY <1>1, CellTypes, Numbers
<1>9. TypeOK'
  <2>1. sequence' \in [Cells -> Nat]
    <3>1. ticket[p] + 1 \in Nat BY <1>5
    <3> QED BY Zenon, <3>1, <1>1, CellTypes
  <2>2. /\ ppc' \in [Producers -> {"idle", "load", "look", "cas", "write", "publish"}]
        /\ item' \in [Producers -> Values \cup {None}]
        /\ ticket' \in [Producers -> Nat]
    BY <1>1 DEF QueueInv, TypeOK
  <2>3. \A q \in Producers : ticket'[q] \in 0 .. tail_
    BY <1>2, Numbers DEF QueueInv, TypeOK
  <2> QED BY <1>1, <1>3, <2>1, <2>2, <2>3 DEF QueueInv, TypeOK
<1>10. FreeCells' BY <1>1, <1>3, <1>5, <1>7, Numbers DEF QueueInv, FreeCells, Slot
<1>11. TakenCells'
  <2> SUFFICES ASSUME NEW i \in Nat, released <= i, i < tail_
               PROVE  Pending(i)' \/ (sequence'[Slot(i)] = i + 1 /\ data[Slot(i)] \in Values)
    BY <1>1, <1>3 DEF TakenCells, Slot
  <2>1. CASE i = ticket[p] BY <2>1, <1>5, <1>8
  <2>2. CASE i # ticket[p]
    <3>1. i < released + Capacity BY Numbers
    <3> QED BY <2>2, <3>1, <1>6, <1>7 DEF QueueInv, TakenCells
  <2> QED BY <2>1, <2>2
<1>12. Owners'
  <2> SUFFICES ASSUME NEW q \in Producers, q # p, Writing(q)
               PROVE  /\ released <= ticket[q] /\ ticket[q] < tail_
                      /\ sequence'[Slot(ticket[q])] = ticket[q]
                      /\ \A w \in Producers : Writing(w) /\ w # p /\ ticket[w] = ticket[q] => w = q
    BY <1>1, <1>2, <1>3, <1>4 DEF Owners, Slot
  <2>1. /\ released <= ticket[q] /\ ticket[q] < tail_ /\ ticket[q] # ticket[p]
        /\ sequence[Slot(ticket[q])] = ticket[q]
        /\ \A w \in Producers : Writing(w) /\ ticket[w] = ticket[q] => w = q
    BY <1>5 DEF QueueInv, Owners
  <2>2. ticket[q] < released + Capacity BY <2>1, Numbers
  <2> QED BY <2>1, <2>2, <1>7, Numbers
<1>13. Locals'
  <2>1. \A c \in Cells : sequence'[c] >= sequence[c]
    <3>1. sequence[Slot(ticket[p])] = ticket[p] BY <1>4 DEF QueueInv, Owners
    <3> QED BY <3>1, <1>1, <1>5, <1>8, CellTypes
  <2>2. \A q \in Producers : q # p /\ ppc[q] = "look" /\ ticket[q] < released
                             => sequence'[Slot(ticket[q])] > ticket[q]
    <3> SUFFICES ASSUME NEW q \in Producers, q # p, ppc[q] = "look", ticket[q] < released
                 PROVE  sequence'[Slot(ticket[q])] > ticket[q]
      OBVIOUS
    <3>1. sequence[Slot(ticket[q])] > ticket[q] BY DEF QueueInv, Locals
    <3>2. /\ sequence'[Slot(ticket[q])] >= sequence[Slot(ticket[q])]
          /\ sequence[Slot(ticket[q])] \in Nat /\ sequence'[Slot(ticket[q])] \in Nat
      BY <2>1, <1>9, Numbers, CellTypes DEF TypeOK
    <3> QED BY <3>1, <3>2, Numbers
  <2> QED BY <1>1, <1>2, <1>3, <2>2 DEF QueueInv, Locals, Slot
<1>14. ConsumerKnows'
  <2>1. cpc # "idle" => released # ticket[p]
    BY <1>4, Numbers DEF QueueInv, ConsumerKnows, Owners
  <2> QED BY <2>1, <1>1, <1>3, <1>7, Numbers DEF QueueInv, ConsumerKnows, Slot
<1> QED BY <1>9, <1>10, <1>11, <1>12, <1>13, <1>14 DEF QueueInv, LargeEnough

\* The consumer finds a published cell only below tail_; it moves head_ and copies, and
\* the cell is still its own.
LEMMA PopKeepsInv ==
  ASSUME QueueInv, PopBegin \/ PopCopy PROVE QueueInv'
<1>1. UNCHANGED <<sequence, data, tail_, stop_flag_, ppc, item, ticket, pushed>>
  BY DEF PopBegin, PopCopy, queueVars, cellVars, producerVars
<1>2. /\ released' = released
      /\ cpc' \in {"idle", "copy", "release"} /\ out' \in Values \cup {None}
      /\ popped' \in Values \cup {None} /\ head_' \in Nat
      /\ ConsumerKnows'
  <2>1. CASE PopCopy
    <3>1. /\ cpc = "copy" /\ cpc' = "release" /\ out' = data[Slot(head_ - 1)]
          /\ head_' = head_ /\ popped' = popped
      BY <2>1 DEF PopCopy, queueVars
    <3>2. released = head_ - 1 /\ released' = released BY <3>1 DEF released
    <3>3. out' \in Values \cup {None} BY <3>1, <3>2, Numbers, CellTypes
    <3> QED BY <1>1, <3>1, <3>2, <3>3, Numbers DEF QueueInv, ConsumerKnows, TypeOK, Slot
  <2>2. CASE PopBegin /\ sequence[Slot(head_)] = head_ + 1
    <3>1. /\ cpc = "idle" /\ cpc' = "copy" /\ head_' = head_ + 1
          /\ UNCHANGED <<out, popped>>
      BY <2>2 DEF PopBegin
    <3>2. released = head_ /\ released' = released BY <3>1, Numbers DEF released
    <3>3. released < tail_
      <4> SUFFICES ASSUME released = tail_ PROVE FALSE BY Numbers
      <4>1. sequence[Slot(released)] = released BY Numbers DEF QueueInv, FreeCells
      <4> QED BY <4>1, <2>2, <3>2, Numbers
    <3> QED BY <1>1, <2>2, <3>1, <3>2, <3>3, Numbers DEF QueueInv, ConsumerKnows, TypeOK, Slot
  <2>3. CASE PopBegin /\ ~(sequence[Slot(head_)] = head_ + 1)
    <3>1. cpc = "idle" /\ popped' = None /\ UNCHANGED <<head_, cpc, out>>
      BY <2>3 DEF PopBegin
    <3>2. released' = released BY <3>1 DEF released
    <3> QED BY <3>1, <3>2 DEF QueueInv, ConsumerKnows, TypeOK
  <2> QED BY <2>1, <2>2, <2>3
<1>3. \A q : Writing(q)' = Writing(q) BY <1>1 DEF Writing
<1>4. \A t : Pending(t)' = Pending(t) BY <1>1, <1>3 DEF Pending
<1>5. TypeOK' BY <1>1, <1>2 DEF QueueInv, TypeOK
<1>6. FreeCells' BY <1>1, <1>2 DEF QueueInv, FreeCells, Slot
<1>7. TakenCells' BY <1>1, <1>2, <1>4 DEF QueueInv, TakenCells, Slot
<1>8. Owners' BY <1>1, <1>2, <1>3 DEF QueueInv, Owners, Slot
<1>9. Locals' BY <1>1, <1>2 DEF QueueInv, Locals, Slot
<1> QED BY <1>2, <1>5, <1>6, <1>7, <1>8, <1>9 DEF QueueInv, LargeEnough

\* Giving the cell back frees it for the ticket of the next lap.
LEMMA ReleaseKeepsInv ==
  ASSUME QueueInv, PopRelease PROVE QueueInv'
<1>1. /\ cpc = "release" /\ cpc' = "idle" /\ popped' = out /\ out' = None
      /\ sequence' = [sequence EXCEPT ![Slot(head_ - 1)] = head_ - 1 + Capacity]
      /\ UNCHANGED <<data, tail_, head_, stop_flag_, ppc, item, ticket, pushed>>
  BY DEF PopRelease, producerVars
<1>2. /\ released = head_ - 1 /\ released' = head_ /\ released < tail_
      /\ sequence[Slot(released)] = released + 1
  BY <1>1 DEF released, QueueInv, ConsumerKnows
<1>3. /\ sequence' = [sequence EXCEPT ![Slot(released)] = released + Capacity]
      /\ released' = released + 1
  BY <1>1, <1>2, Numbers
<1>4. \A q : Writing(q)' = Writing(q) BY <1>1 DEF Writing
<1>5. \A t : Pending(t)' = Pending(t) BY <1>1, <1>4 DEF Pending
<1>6. \A i \in Nat : released < i /\ i < released + Capacity
                    => sequence'[Slot(i)] = sequence[Slot(i)]
  <2> SUFFICES ASSUME NEW i \in Nat, released < i, i < released + Capacity
               PROVE  sequence'[Slot(i)] = sequence[Slot(i)]
    OBVIOUS
  <2>1. Slot(i) # Slot(released) BY Numbers, WindowDistinct
  <2> QED BY <2>1, <1>3, CellTypes, SlotRange DEF Cells
<1>7. sequence'[Slot(released + Capacity)] = released + Capacity
  BY <1>3, CellTypes, Numbers, SlotNextLap
<1>8. TypeOK'
  <2>1. sequence' \in [Cells -> Nat]
    <3>1. released + Capacity \in Nat BY Numbers
    <3> QED BY Zenon, <3>1, <1>3, CellTypes
  <2>2. tail_ - released' \in 0 .. Capacity BY <1>2, <1>3, Numbers
  <2> QED BY <1>1, <2>1, <2>2 DEF QueueInv, TypeOK
<1>9. FreeCells'
  <2> SUFFICES ASSUME NEW i \in Nat, tail_ <= i, i < (released + 1) + Capacity
               PROVE  sequence'[Slot(i)] = i
    BY <1>1, <1>3 DEF FreeCells, Slot
  <2>1. CASE i = released + Capacity BY <2>1, <1>7
  <2>2. CASE i # released + Capacity
    <3>1. released < i /\ i < released + Capacity BY <2>2, <1>2, Numbers
    <3> QED BY <3>1, <1>6 DEF QueueInv, FreeCells
  <2> QED BY <2>1, <2>2
<1>10. TakenCells'
  <2> SUFFICES ASSUME NEW i \in Nat, released + 1 <= i, i < tail_
               PROVE  Pending(i) \/ (sequence'[Slot(i)] = i + 1 /\ data[Slot(i)] \in Values)
    BY <1>1, <1>3, <1>5 DEF TakenCells, Slot
  <2>1. released < i /\ i < released + Capacity BY Numbers
  <2> QED BY <2>1, <1>6, Numbers DEF QueueInv, TakenCells
<1>11. Owners'
  <2> SUFFICES ASSUME NEW q \in Producers, Writing(q)
               PROVE  /\ released + 1 <= ticket[q] /\ ticket[q] < tail_
                      /\ sequence'[Slot(ticket[q])] = ticket[q]
                      /\ \A w \in Producers : Writing(w) /\ ticket[w] = ticket[q] => w = q
    BY <1>1, <1>3, <1>4 DEF Owners, Slot
  <2>1. /\ released <= ticket[q] /\ ticket[q] < tail_
        /\ sequence[Slot(ticket[q])] = ticket[q]
        /\ \A w \in Producers : Writing(w) /\ ticket[w] = ticket[q] => w = q
    BY DEF QueueInv, Owners
  <2>2. released < ticket[q] BY <2>1, <1>2, Numbers
  <2>3. ticket[q] < released + Capacity BY <2>1, Numbers
  <2> QED BY <2>1, <2>2, <2>3, <1>6, Numbers
<1>12. Locals'
  <2>1. \A q \in Producers : ppc[q] = "look" /\ ticket[q] < released + 1
                             => sequence'[Slot(ticket[q])] > ticket[q]
    <3> SUFFICES ASSUME NEW q \in Producers, ppc[q] = "look", ticket[q] < released + 1
                 PROVE  sequence'[Slot(ticket[q])] > ticket[q]
      OBVIOUS
    <3>1. CASE Slot(ticket[q]) = Slot(released)
      <4>1. sequence'[Slot(released)] = released + Capacity BY <1>3, CellTypes, Numbers
      <4> QED BY <3>1, <4>1, Numbers
    <3>2. CASE Slot(ticket[q]) # Slot(released)
      <4>1. ticket[q] < released BY <3>2, Numbers
      <4>2. sequence[Slot(ticket[q])] > ticket[q] BY <4>1 DEF QueueInv, Locals
      <4> QED BY <3>2, <4>2, <1>3, CellTypes, Numbers
    <3> QED BY <3>1, <3>2
  <2> QED BY <1>1, <1>3, <2>1, Numbers DEF QueueInv, Locals, Slot
<1>13. ConsumerKnows' BY <1>1 DEF ConsumerKnows
<1> QED BY <1>8, <1>9, <1>10, <1>11, <1>12, <1>13 DEF QueueInv, LargeEnough

\* Every step keeps the invariant.
LEMMA QueueInvNext == QueueInv /\ [Next]_vars => QueueInv'
<1> SUFFICES ASSUME QueueInv, [Next]_vars PROVE QueueInv' OBVIOUS
<1>1. ASSUME UNCHANGED <<cellVars, tail_, head_, producerVars, cpc, out>>,
             stop_flag_' \in BOOLEAN, pushed' \in {"none", "ok", "full", "stopped"},
             popped' \in Values \cup {None}
      PROVE  QueueInv'
  <2>1. UNCHANGED <<sequence, data, tail_, head_, ppc, item, ticket, cpc, out>>
    BY <1>1 DEF cellVars, producerVars
  <2>2. \A q \in Producers : Writing(q)' = Writing(q) BY <2>1 DEF Writing
  <2>3. released' = released /\ FreeCells' /\ TakenCells' /\ Owners'
    BY <2>1, <2>2, CellsFrame
  <2>4. TypeOK' BY Zenon, <1>1, <2>1, <2>3 DEF QueueInv, TypeOK
  <2>5. Locals' /\ ConsumerKnows' BY <2>1, <2>3 DEF QueueInv, Locals, ConsumerKnows, Slot
  <2> QED BY <2>3, <2>4, <2>5 DEF QueueInv, LargeEnough
<1>2. /\ stop_flag_ \in BOOLEAN /\ pushed \in {"none", "ok", "full", "stopped"}
      /\ popped \in Values \cup {None}
  BY DEF QueueInv, TypeOK
<1>3. CASE \E p \in Producers : push(p)
  <2> PICK p \in Producers : push(p) BY <1>3
  <2>1. CASE PushRefused(p)
    BY <2>1, <1>1, <1>2 DEF PushRefused, queueVars, consumerVars
  <2>2. CASE PushClaim(p) BY <2>2, ClaimKeepsInv
  <2>3. CASE PushWrite(p) BY <2>3, WriteKeepsInv
  <2>4. CASE PushPublish(p) BY <2>4, PublishKeepsInv
  <2> QED BY <2>1, <2>2, <2>3, <2>4, BeforeClaim DEF push, PushGoesOn
<1>4. CASE pop BY <1>4, PopKeepsInv, ReleaseKeepsInv DEF pop
<1>5. CASE shutdown
  <2>1. stop_flag_' \in BOOLEAN BY <1>5, Zenon DEF shutdown
  <2> QED BY <1>5, <1>1, <1>2, <2>1 DEF shutdown, consumerVars
<1>6. CASE UNCHANGED vars BY <1>6, <1>1, <1>2 DEF vars, queueVars, consumerVars
<1> QED BY <1>3, <1>4, <1>5, <1>6 DEF Next

\* The inductive invariant holds in every state.
THEOREM QueueInvariant == LargeEnough /\ Spec => []QueueInv
BY QueueInvInit, QueueInvNext, PTL DEF Spec

\* The claimed tickets always fit into the cells.
THEOREM TypeCorrect == LargeEnough /\ Spec => []TypeOK
<1>1. QueueInv => TypeOK BY DEF QueueInv
<1> QED BY <1>1, QueueInvariant, PTL

\* Owned tickets differ, lie within one lap and are not the one being copied.
LEMMA NoRace == QueueInv => NoSlotRace
<1> SUFFICES ASSUME QueueInv, NEW p \in Producers, Writing(p)
             PROVE  /\ cpc = "copy" => Slot(ticket[p]) # Slot(head_ - 1)
                    /\ \A q \in Producers \ {p} : Writing(q) => Slot(ticket[q]) # Slot(ticket[p])
  BY DEF NoSlotRace
<1>1. /\ released <= ticket[p] /\ ticket[p] < released + Capacity
      /\ sequence[Slot(ticket[p])] = ticket[p]
  BY Numbers DEF QueueInv, Owners
<1>2. ASSUME cpc = "copy" PROVE Slot(ticket[p]) # Slot(head_ - 1)
  <2>1. released = head_ - 1 /\ sequence[Slot(released)] = released + 1
    BY <1>2 DEF QueueInv, ConsumerKnows, released
  <2>2. released < released + Capacity /\ released # ticket[p] BY <1>1, <2>1, Numbers
  <2> QED BY <1>1, <2>1, <2>2, Numbers, WindowDistinct
<1>3. ASSUME NEW q \in Producers, q # p, Writing(q) PROVE Slot(ticket[q]) # Slot(ticket[p])
  <2>1. released <= ticket[q] /\ ticket[q] < released + Capacity /\ ticket[q] # ticket[p]
    BY <1>3, Numbers DEF QueueInv, Owners
  <2> QED BY <1>1, <2>1, Numbers, WindowDistinct
<1> QED BY <1>2, <1>3

\* No cell is written by two producers, or written while the consumer copies it, however
\* many producers contend for the tickets.
THEOREM RaceFree == LargeEnough /\ Spec => []NoSlotRace
BY NoRace, QueueInvariant, PTL

-----------------------------------------------------------------------------
\* The item of a pending ticket is the one its owner is pushing.
PendingItems == \A p \in Producers : Writing(p) => ItemOf(ticket[p]) = item[p]

\* It follows from the invariant, because an owner is alone.
LEMMA ItemOfPending == QueueInv => PendingItems
<1> SUFFICES ASSUME QueueInv, NEW p \in Producers, Writing(p) PROVE ItemOf(ticket[p]) = item[p]
  BY DEF PendingItems
<1> DEFINE owner == CHOOSE q \in Producers : Writing(q) /\ ticket[q] = ticket[p]
<1>1. owner \in Producers /\ Writing(owner) /\ ticket[owner] = ticket[p] OBVIOUS
<1>2. owner = p BY <1>1 DEF QueueInv, Owners
<1>3. Pending(ticket[p]) BY DEF Pending
<1> QED BY Zenon, <1>2, <1>3 DEF ItemOf

\* The next state, for the primed items.
LEMMA ItemOfPendingNext == QueueInv' => PendingItems'
BY ItemOfPending, PTL

\* A claimed ticket stands for a value.
LEMMA ItemOfClaimed ==
  ASSUME QueueInv, NEW t \in Nat, released <= t, t < tail_ PROVE ItemOf(t) \in Values
<1>1. CASE Pending(t)
  <2> PICK p \in Producers : Writing(p) /\ ticket[p] = t BY <1>1 DEF Pending
  <2>1. ItemOf(t) = item[p] BY ItemOfPending DEF PendingItems
  <2>2. ppc[p] # "idle" BY DEF Writing
  <2> QED BY <2>1, <2>2 DEF QueueInv, Locals
<1>2. CASE ~Pending(t) BY <1>2 DEF ItemOf, QueueInv, TakenCells
<1> QED BY <1>1, <1>2

\* The contents are a sequence of values, one for each claimed ticket.
LEMMA ContentsOK ==
  ASSUME QueueInv
  PROVE  Contents \in Seq(Values) /\ Len(Contents) = tail_ - released
<1>1. tail_ - released \in Nat BY Numbers
<1>2. ASSUME NEW i \in 1 .. tail_ - released PROVE ItemOf(released + i - 1) \in Values
  <2>1. /\ released + i - 1 \in Nat /\ released <= released + i - 1
        /\ released + i - 1 < tail_
    BY Numbers
  <2> QED BY <2>1, ItemOfClaimed
<1> QED BY <1>1, <1>2 DEF Contents

\* A step that leaves the claimed tickets and their items alone leaves the contents.
LEMMA ContentsFrame ==
  ASSUME QueueInv, tail_' = tail_, released' = released,
         \A t \in Nat : released <= t /\ t < tail_ => ItemOf(t)' = ItemOf(t)
  PROVE  Contents' = Contents
<1>1. ASSUME NEW i \in 1 .. tail_ - released
      PROVE  ItemOf(released + i - 1)' = ItemOf(released + i - 1)
  <2>1. /\ released + i - 1 \in Nat /\ released <= released + i - 1
        /\ released + i - 1 < tail_
    BY Numbers
  <2>2. (released + i - 1)' = released + i - 1 OBVIOUS
  <2> QED BY <2>1, <2>2
<1> QED BY <1>1 DEF Contents

\* A step that keeps the pending tickets, their items and the data of the others keeps
\* the items.
LEMMA ItemsFrame ==
  ASSUME QueueInv, QueueInv',
         \A q \in Producers : Writing(q)' = Writing(q)
           /\ (Writing(q) => ticket'[q] = ticket[q] /\ item'[q] = item[q]),
         NEW t, ~Pending(t) => data'[Slot(t)] = data[Slot(t)]
  PROVE  ItemOf(t)' = ItemOf(t)
<1>1. Pending(t)' = Pending(t) BY DEF Pending
<1>2. CASE Pending(t)
  <2> PICK p \in Producers : Writing(p) /\ ticket[p] = t BY <1>2 DEF Pending
  <2>1. ItemOf(t) = item[p] BY ItemOfPending DEF PendingItems
  <2>2. Writing(p)' /\ ticket'[p] = t OBVIOUS
  <2>3. ItemOf(ticket[p])' = item'[p] BY <2>2, ItemOfPendingNext DEF PendingItems
  <2> QED BY <2>1, <2>2, <2>3 DEF ItemOf, Pending, Writing, Slot
<1>3. CASE ~Pending(t) BY <1>1, <1>3 DEF ItemOf, Slot
<1> QED BY <1>2, <1>3

\* The queue as constructed is an empty FIFO.
LEMMA FifoInit == Init => Fifo!Init
<1> SUFFICES ASSUME Init PROVE Fifo!Init OBVIOUS
<1>1. Contents = <<>> BY DEF Init, Contents, released
<1> QED BY <1>1 DEF Init, Fifo!Init

\* A push that gives up does so when every cell is taken: a ticket that was overtaken, is
\* claimed, or is free would show a number that is not below it.
LEMMA FullWhenRefused ==
  ASSUME QueueInv, NEW p \in Producers, ppc[p] = "look",
         sequence[Slot(ticket[p])] - ticket[p] < 0
  PROVE  Len(Contents) = Capacity
<1>1. sequence[Slot(ticket[p])] < ticket[p] /\ ticket[p] <= tail_
  BY SMTT(30), Numbers, CellTypes DEF QueueInv, TypeOK
<1>2. released <= ticket[p] BY SMTT(30), <1>1, Numbers, CellTypes DEF QueueInv, Locals
<1>3. ~(ticket[p] < tail_)
  <2> SUFFICES ASSUME ticket[p] < tail_ PROVE FALSE OBVIOUS
  <2>1. CASE Pending(ticket[p])
    <3>1. sequence[Slot(ticket[p])] = ticket[p] BY <2>1 DEF Pending, QueueInv, Owners
    <3> QED BY <3>1, <1>1, Numbers
  <2>2. CASE ~Pending(ticket[p])
    <3>1. sequence[Slot(ticket[p])] = ticket[p] + 1
      BY <2>2, <1>2, Numbers DEF QueueInv, TakenCells
    <3> QED BY <3>1, <1>1, Numbers
  <2> QED BY <2>1, <2>2
<1>4. ticket[p] = tail_ BY <1>1, <1>3, Numbers
<1>5. ~(tail_ < released + Capacity)
  <2> SUFFICES ASSUME tail_ < released + Capacity PROVE FALSE OBVIOUS
  <2>1. sequence[Slot(tail_)] = tail_ BY Numbers DEF QueueInv, FreeCells
  <2> QED BY <2>1, <1>1, <1>4, Numbers
<1> QED BY <1>5, Numbers, ContentsOK

\* A step of push other than the claim is a stutter of the FIFO or a refusal.
LEMMA FifoPush ==
  ASSUME QueueInv, QueueInv', NEW p \in Producers, push(p), ~PushClaim(p)
  PROVE  Fifo!PushStopped \/ Fifo!PushFull \/ UNCHANGED Fifo!fifoVars
<1>1. CASE PushRefused(p)
  <2>1. UNCHANGED <<tail_, released, data, ppc, item, ticket>>
    BY <1>1 DEF PushRefused, queueVars, cellVars, producerVars, consumerVars, released
  <2>2. Contents' = Contents
    BY <2>1, ItemsFrame, ContentsFrame DEF Writing
  <2> QED BY <1>1, <2>2 DEF PushRefused, Fifo!PushStopped, queueVars, consumerVars
<1>2. CASE (\E v \in Values : PushBegin(p, v)) \/ PushLoad(p) \/ PushLook(p) \/ PushRetry(p)
  <2>1. /\ UNCHANGED <<tail_, released, data, stop_flag_, popped>>
        /\ ppc[p] \in {"idle", "load", "look", "cas"}
    BY <1>2 DEF PushBegin, PushLoad, PushLook, PushRetry, queueVars, cellVars, consumerVars,
                released
  <2>2. \E place \in {"idle", "load", "look", "cas"} : ppc' = [ppc EXCEPT ![p] = place]
    BY <1>2 DEF PushBegin, PushLoad, PushLook, PushRetry, PushReturns
  <2>3. /\ \A q \in Producers \ {p} : ppc'[q] = ppc[q]
        /\ ppc'[p] \in {"idle", "load", "look", "cas"}
    BY <2>2 DEF QueueInv, TypeOK
  <2>4. \A q \in Producers \ {p} : ticket'[q] = ticket[q] /\ item'[q] = item[q]
    BY ZenonT(40), <1>2 DEF PushBegin, PushLoad, PushLook, PushRetry, PushReturns, QueueInv, TypeOK
  <2>5. \A q \in Producers : Writing(q)' = Writing(q)
          /\ (Writing(q) => ticket'[q] = ticket[q] /\ item'[q] = item[q])
    BY <2>1, <2>3, <2>4 DEF Writing
  <2>6. Contents' = Contents BY <2>1, <2>5, ItemsFrame, ContentsFrame
  <2>7. CASE pushed' = pushed BY <2>1, <2>6, <2>7 DEF Fifo!fifoVars
  <2>8. CASE pushed' # pushed
    <3>1. PushLook(p) BY <1>2, <2>8 DEF PushBegin, PushLoad, PushRetry
    <3>2. /\ ppc[p] = "look" /\ sequence[Slot(ticket[p])] - ticket[p] < 0
          /\ pushed' = "full"
      BY <3>1, <2>8 DEF PushLook
    <3> QED BY <2>1, <2>6, <3>2, FullWhenRefused DEF Fifo!PushFull
  <2> QED BY <2>7, <2>8
<1>3. CASE PushWrite(p)
  <2>1. /\ UNCHANGED <<tail_, released, stop_flag_, pushed, popped, item, ticket>>
        /\ ppc[p] = "write" /\ ppc' = [ppc EXCEPT ![p] = "publish"]
        /\ data' = [data EXCEPT ![Slot(ticket[p])] = item[p]]
    BY <1>3 DEF PushWrite, consumerVars, released
  <2>2. \A q \in Producers : Writing(q)' = Writing(q) BY SMTT(30), <2>1 DEF Writing, QueueInv, TypeOK
  <2>3. ASSUME NEW t \in Nat, released <= t, t < tail_ PROVE ItemOf(t)' = ItemOf(t)
    <3>1. ~Pending(t) => t # ticket[p] BY Zenon, <2>1 DEF Pending, Writing
    <3>2. /\ released <= ticket[p] /\ ticket[p] < released + Capacity
          /\ t < released + Capacity
      BY <2>1, <2>3, Numbers DEF QueueInv, Owners, Writing
    <3>3. ~Pending(t) => Slot(t) # Slot(ticket[p])
      BY <2>3, <3>1, <3>2, Numbers, WindowDistinct
    <3>4. ~Pending(t) => data'[Slot(t)] = data[Slot(t)]
      BY <2>1, <3>3, CellTypes, SlotRange DEF Cells
    <3> QED BY Zenon, <2>1, <2>2, <3>4, ItemsFrame
  <2>4. Contents' = Contents BY <2>1, <2>3, ContentsFrame
  <2> QED BY <2>1, <2>4 DEF Fifo!fifoVars
<1>4. CASE PushPublish(p)
  <2>1. /\ UNCHANGED <<tail_, released, stop_flag_, pushed, popped, data>>
        /\ ppc[p] = "publish" /\ ppc' = [ppc EXCEPT ![p] = "idle"]
        /\ \A q \in Producers \ {p} : ticket'[q] = ticket[q] /\ item'[q] = item[q]
    BY <1>4 DEF PushPublish, PushReturns, consumerVars, released, QueueInv, TypeOK
  <2>2. \A q \in Producers : Writing(q)' <=> (q # p /\ Writing(q))
    BY <2>1 DEF Writing, QueueInv, TypeOK
  <2>3. ASSUME NEW t \in Nat, released <= t, t < tail_ PROVE ItemOf(t)' = ItemOf(t)
    <3>1. CASE t = ticket[p]
      <4>1. Writing(p) BY <2>1 DEF Writing
      <4>2. ItemOf(t) = item[p] BY Zenon, <3>1, <4>1, ItemOfPending DEF PendingItems
      <4>3. data[Slot(t)] = item[p] BY Zenon, <2>1, <3>1 DEF QueueInv, Locals
      <4>4. ~Pending(t)' BY SMTT(30), <2>1, <2>2, <3>1, <4>1 DEF Pending, QueueInv, Owners
      <4> QED BY <2>1, <4>2, <4>3, <4>4 DEF ItemOf, Slot
    <3>2. CASE t # ticket[p] /\ Pending(t)
      <4> PICK q \in Producers : Writing(q) /\ ticket[q] = t BY <3>2 DEF Pending
      <4>1. q # p BY Zenon, <3>2
      <4>2. Writing(q)' /\ ticket'[q] = t /\ item'[q] = item[q] BY <2>1, <2>2, <4>1
      <4>3. ItemOf(t) = item[q] BY Zenon, ItemOfPending DEF PendingItems
      <4>4. ItemOf(ticket[q])' = item'[q] BY <4>2, ItemOfPendingNext DEF PendingItems
      <4> QED BY <4>2, <4>3, <4>4 DEF ItemOf, Pending, Writing, Slot
    <3>3. CASE t # ticket[p] /\ ~Pending(t)
      <4>1. ~Pending(t)' BY <2>1, <2>2, <3>3 DEF Pending
      <4> QED BY <2>1, <3>3, <4>1 DEF ItemOf, Slot
    <3> QED BY <3>1, <3>2, <3>3
  <2>4. Contents' = Contents BY <2>1, <2>3, ContentsFrame
  <2> QED BY <2>1, <2>4 DEF Fifo!fifoVars
<1> QED BY <1>1, <1>2, <1>3, <1>4 DEF push, PushGoesOn

\* The claim is the push of the FIFO.
LEMMA FifoClaim ==
  ASSUME QueueInv, QueueInv', NEW p \in Producers, PushClaim(p) PROVE Fifo!Push(item[p])
<1>1. /\ UNCHANGED <<released, data, stop_flag_, popped, item, ticket>>
      /\ tail_' = tail_ + 1 /\ pushed' = "ok" /\ ppc[p] = "cas" /\ ticket[p] = tail_
      /\ ppc' = [ppc EXCEPT ![p] = "write"] /\ tail_ < released + Capacity
  BY DEF PushClaim, cellVars, consumerVars, released, QueueInv, Locals
<1>2. \A q \in Producers : Writing(q)' <=> (q = p \/ Writing(q))
  BY Zenon, <1>1 DEF Writing, QueueInv, TypeOK
<1>3. item[p] \in Values BY <1>1 DEF QueueInv, Locals
<1>4. ASSUME NEW t \in Nat, t = tail_ PROVE ItemOf(t)' = item[p]
  <2>1. ItemOf(ticket[p])' = item'[p] BY <1>2, ItemOfPendingNext DEF PendingItems
  <2>2. ticket'[p] = t /\ item'[p] = item[p] BY <1>1, <1>4
  <2> QED BY <2>1, <2>2 DEF ItemOf, Pending, Writing, Slot
<1>5. ASSUME NEW t \in Nat, released <= t, t < tail_ PROVE ItemOf(t)' = ItemOf(t)
  <2>1. CASE Pending(t)
    <3> PICK q \in Producers : Writing(q) /\ ticket[q] = t BY <2>1 DEF Pending
    <3>1. Writing(q)' /\ ticket'[q] = t /\ item'[q] = item[q] BY <1>1, <1>2
    <3>2. ItemOf(t) = item[q] BY ItemOfPending DEF PendingItems
    <3>3. ItemOf(ticket[q])' = item'[q] BY <3>1, ItemOfPendingNext DEF PendingItems
    <3> QED BY <3>1, <3>2, <3>3 DEF ItemOf, Pending, Writing, Slot
  <2>2. CASE ~Pending(t)
    <3>1. t # tail_ BY <1>5, Numbers
    <3>2. ~Pending(t)' BY <1>1, <1>2, <2>2, <3>1 DEF Pending
    <3> QED BY <1>1, <2>2, <3>2 DEF ItemOf, Slot
  <2> QED BY <2>1, <2>2
<1> DEFINE n == (tail_ + 1) - released
           f == [i \in 1 .. n |-> ItemOf(released + i - 1)']
           s == Append(Contents, item[p])
<1>6. Contents' = f BY <1>1 DEF Contents, ItemOf, Pending, Writing, Slot
<1>7. s \in Seq(Values) /\ Len(s) = n BY <1>3, ContentsOK, Numbers
<1>8. ASSUME NEW i \in 1 .. n PROVE s[i] = f[i]
  <2>0. /\ Contents \in Seq(Values) /\ Len(Contents) = tail_ - released
        /\ i \in Nat /\ i >= 1 /\ released + i - 1 \in Nat
    BY ContentsOK, Numbers
  <2>1. CASE i <= tail_ - released
    <3>1. i \in 1 .. tail_ - released BY <2>0, <2>1, Numbers
    <3>2. s[i] = Contents[i] BY <3>1, <2>0, <1>3
    <3>3. released <= released + i - 1 /\ released + i - 1 < tail_ BY SMTT(30), <2>0, <3>1, Numbers
    <3>4. ItemOf(released + i - 1)' = ItemOf(released + i - 1)
      <4> DEFINE t == released + i - 1
      <4>1. t \in Nat /\ released <= t /\ t < tail_ BY <2>0, <3>3
      <4>2. t' = t BY <1>1
      <4> HIDE DEF t
      <4>3. ItemOf(t)' = ItemOf(t) BY <4>1, <4>2, <1>5
      <4> QED BY <4>3 DEF t
    <3> QED BY Zenon, <3>1, <3>2, <3>4 DEF Contents
  <2>2. CASE ~(i <= tail_ - released)
    <3>1. i = Len(Contents) + 1 /\ released + i - 1 = tail_ BY SMTT(30), <2>0, <2>2, Numbers
    <3>2. s[i] = item[p] BY <3>1, <2>0, <1>3
    <3> QED BY <3>1, <3>2, <2>0, <1>1, <1>4
  <2> QED BY Zenon, <2>1, <2>2
<1>9. f = [i \in 1 .. n |-> f[i]] OBVIOUS
<1> HIDE DEF f, n, s
<1>10. f = s BY <1>7, <1>8, <1>9, SameSequence
<1>11. Len(Contents) < Capacity BY <1>1, ContentsOK, Numbers
<1> QED BY Zenon, <1>1, <1>6, <1>10, <1>11 DEF Fifo!Push, s

\* Looking and copying leave the FIFO alone, or find nothing: it is empty, or its oldest
\* ticket is pending.
LEMMA FifoPopTries ==
  ASSUME QueueInv, QueueInv', PopBegin \/ PopCopy
  PROVE  Fifo!PopEmpty \/ PopUnpublished \/ UNCHANGED Fifo!fifoVars
<1>1. UNCHANGED <<sequence, data, tail_, stop_flag_, ppc, item, ticket, pushed>>
  BY DEF PopBegin, PopCopy, queueVars, cellVars, producerVars
<1>2. released' = released
  <2>1. CASE PopCopy BY <2>1 DEF PopCopy, queueVars, released
  <2>2. CASE PopBegin
    <3>1. cpc = "idle" /\ ((cpc' = "copy" /\ head_' = head_ + 1) \/ UNCHANGED <<cpc, head_>>)
      BY <2>2 DEF PopBegin
    <3> QED BY <3>1, Numbers DEF released
  <2> QED BY <2>1, <2>2
<1>3. Contents' = Contents BY <1>1, <1>2, ItemsFrame, ContentsFrame DEF Writing
<1>4. CASE popped' = popped BY <1>1, <1>3, <1>4 DEF Fifo!fifoVars
<1>5. CASE popped' # popped
  <2>1. /\ cpc = "idle" /\ popped' = None /\ ~(sequence[Slot(head_)] = head_ + 1)
    BY <1>5 DEF PopBegin, PopCopy
  <2>2. released = head_ BY <2>1 DEF released
  <2>3. CASE released = tail_
    <3>1. Contents = <<>> BY <2>3, ContentsOK, Numbers
    <3> QED BY <1>1, <1>3, <2>1, <3>1 DEF Fifo!PopEmpty
  <2>4. CASE released # tail_
    <3>1. released < tail_ BY <2>4, Numbers
    <3>2. Pending(released) BY <2>1, <2>2, <3>1, Numbers DEF QueueInv, TakenCells
    <3> QED BY <1>1, <1>3, <2>1, <3>2 DEF PopUnpublished
  <2> QED BY <2>3, <2>4
<1> QED BY <1>4, <1>5

\* Giving the cell back is the pop of the FIFO.
LEMMA FifoPop == ASSUME QueueInv, QueueInv', PopRelease PROVE Fifo!Pop
<1>1. /\ UNCHANGED <<data, tail_, stop_flag_, ppc, item, ticket, pushed>>
      /\ cpc = "release" /\ cpc' = "idle" /\ popped' = out /\ head_' = head_
  BY DEF PopRelease, producerVars
<1>2. /\ released = head_ - 1 /\ released' = head_ /\ released < tail_
      /\ sequence[Slot(released)] = released + 1 /\ out = data[Slot(released)]
  BY <1>1 DEF released, QueueInv, ConsumerKnows
<1>3. released' = released + 1 BY <1>2, Numbers
<1>4. /\ Contents \in Seq(Values) /\ Len(Contents) = tail_ - released /\ Contents # <<>>
  BY <1>2, ContentsOK, Numbers
<1>5. Head(Contents) = out
  <2>1. ~Pending(released) BY <1>2, Numbers DEF Pending, QueueInv, Owners
  <2>2. Contents[1] = ItemOf(released + 1 - 1) BY <1>2, Numbers DEF Contents
  <2>3. released + 1 - 1 = released BY Numbers
  <2>4. ItemOf(released) = data[Slot(released)] BY <2>1 DEF ItemOf
  <2> QED BY SMTT(30), <1>2, <1>4, <2>2, <2>3, <2>4
<1>6. ASSUME NEW t PROVE ItemOf(t)' = ItemOf(t)
  BY <1>1, ItemsFrame DEF Writing
<1> DEFINE n == tail_ - (released + 1)
           f == [i \in 1 .. n |-> ItemOf(released + i)]
           s == Tail(Contents)
<1>7. Contents' = f
  <2>1. Contents' = [i \in 1 .. n |-> ItemOf(released + i - 1)'] BY <1>1, <1>3 DEF Contents
  <2>2. ASSUME NEW i \in 1 .. n PROVE ItemOf(released + i - 1)' = ItemOf(released + i)
    <3>1. (released + i - 1)' = released + i BY <1>3, Numbers
    <3> QED BY <3>1, <1>6
  <2> QED BY <2>1, <2>2
<1>8. s \in Seq(Values) /\ Len(s) = n BY <1>4, Numbers
<1>9. ASSUME NEW i \in 1 .. n PROVE s[i] = f[i]
  <2>1. i + 1 \in 1 .. tail_ - released /\ i \in 1 .. n BY <1>9, Numbers
  <2>2. s[i] = Contents[i + 1] BY <1>4, <2>1
  <2>3. released + (i + 1) - 1 = released + i BY <2>1, Numbers
  <2> QED BY Zenon, <2>1, <2>2, <2>3 DEF Contents
<1>10. f = [i \in 1 .. n |-> f[i]] OBVIOUS
<1> HIDE DEF f, n, s
<1>11. f = s BY <1>8, <1>9, <1>10, SameSequence
<1> QED BY <1>1, <1>4, <1>5, <1>7, <1>11 DEF Fifo!Pop, s

\* Every step of the queue is a step of the FIFO, a pop that finds a pending ticket, or
\* leaves the FIFO unchanged.
LEMMA FifoStep ==
  QueueInv /\ QueueInv' /\ [Next]_vars => [Fifo!Next \/ PopUnpublished]_(Fifo!fifoVars)
<1> SUFFICES ASSUME QueueInv, QueueInv', [Next]_vars
             PROVE  Fifo!Next \/ PopUnpublished \/ UNCHANGED Fifo!fifoVars
  OBVIOUS
<1>1. CASE \E p \in Producers : push(p)
  <2> PICK p \in Producers : push(p) BY <1>1
  <2>1. CASE PushClaim(p)
    <3>1. item[p] \in Values BY <2>1 DEF PushClaim, QueueInv, Locals
    <3> QED BY Zenon, <2>1, <3>1, FifoClaim DEF Fifo!Next
  <2>2. CASE ~PushClaim(p) BY <2>2, FifoPush DEF Fifo!Next
  <2> QED BY <2>1, <2>2
<1>2. CASE pop BY <1>2, FifoPop, FifoPopTries DEF pop, Fifo!Next
<1>3. CASE shutdown
  <2>1. /\ UNCHANGED <<data, tail_, head_, cpc, ppc, item, ticket, pushed, popped>>
        /\ stop_flag_' = TRUE
    BY <1>3 DEF shutdown, cellVars, producerVars, consumerVars
  <2>2. released' = released BY SMTT(30), <2>1 DEF released
  <2>3. Contents' = Contents BY <2>1, <2>2, ItemsFrame, ContentsFrame DEF Writing
  <2> QED BY <2>1, <2>3 DEF Fifo!Stop, Fifo!Next
<1>4. CASE UNCHANGED vars
  <2>1. UNCHANGED <<data, tail_, head_, stop_flag_, cpc, ppc, item, ticket, pushed, popped>>
    BY <1>4 DEF vars, queueVars, cellVars, producerVars, consumerVars
  <2>2. released' = released BY <2>1 DEF released
  <2>3. Contents' = Contents BY <2>1, <2>2, ItemsFrame, ContentsFrame DEF Writing
  <2> QED BY <2>1, <2>3 DEF Fifo!fifoVars
<1> QED BY <1>1, <1>2, <1>3, <1>4 DEF Next

\* The multi-producer queue is a bounded FIFO in the order in which tickets are claimed:
\* for every capacity and any number of producers no item is lost, repeated or reordered,
\* a push is refused only when all cells are taken or after shutdown, and a pop returns
\* nothing only when there is no ticket or the oldest one is not yet published.
THEOREM QueueIsFifo == LargeEnough /\ Spec => ImplementsFifo
BY QueueInvariant, FifoInit, FifoStep, PTL DEF Spec, ImplementsFifo

-----------------------------------------------------------------------------
(***************************************************************************)
(* SPSCQueue.                                                              *)
(***************************************************************************)
VARIABLES s_buffer, s_tail, s_head, s_cached, s_stop, s_ppc, s_item, s_cpc, s_out,
          s_pushed, s_popped

Spsc == INSTANCE SPSCQueue WITH
  buffer_ <- s_buffer, tail_ <- s_tail, head_ <- s_head, cached_head_ <- s_cached,
  stop_flag_ <- s_stop, ppc <- s_ppc, item <- s_item, cpc <- s_cpc, out <- s_out,
  pushed <- s_pushed, popped <- s_popped

\* An index has its slot in the ring.
LEMMA SpscSlotRange == ASSUME NEW i \in Nat PROVE Spsc!Slot(i) \in 0 .. Capacity - 1
BY SlotRange DEF Slot, Spsc!Slot

\* Two indices less than Capacity apart have different slots.
LEMMA SpscSlotsDistinct ==
  ASSUME NEW i \in Nat, NEW j \in Nat, i < j, j - i < Capacity
  PROVE  Spsc!Slot(i) # Spsc!Slot(j)
<1>1. i <= j /\ j - i <= Capacity /\ i # j /\ j # i + Capacity BY QueueAssumption
<1> QED BY Zenon, <1>1, SlotOfLaps DEF Slot, Spsc!Slot

\* What makes the queue safe: the cached head trails the real one, a producer that
\* is about to write has a free slot even by its stale view, a consumer that is
\* reading has an item, every slot between the indices holds an item, and what a
\* thread is about to publish or return is what the slot holds.
SpscQueueInv ==
  /\ Spsc!TypeOK
  /\ s_cached <= s_head
  /\ s_ppc # "idle" => s_item \in Values
  /\ s_ppc \in {"write", "publish"} => s_tail - s_cached < Capacity
  /\ s_cpc \in {"read", "release"} => s_head < s_tail
  /\ s_ppc = "publish" => s_buffer[Spsc!Slot(s_tail)] = s_item
  /\ s_cpc = "release" => s_out = s_buffer[Spsc!Slot(s_head)]
  /\ \A i \in Nat : s_head <= i /\ i < s_tail => s_buffer[Spsc!Slot(i)] \in Values

\* A slot in use holds a value and keeps it while others are written: facts about
\* the ring that the steps below share.
LEMMA SpscSlotsInUse ==
  ASSUME Spsc!TypeOK, NEW i \in Nat, NEW j \in Nat, i # j,
         s_head <= i, i <= s_tail, s_head <= j, j <= s_tail, s_tail - s_head < Capacity
  PROVE  Spsc!Slot(i) # Spsc!Slot(j)
<1>1. Capacity \in Nat /\ s_head \in Nat /\ s_tail \in Nat BY QueueAssumption DEF Spsc!TypeOK
<1>2. CASE i < j
  <2>1. j - i < Capacity BY <1>1, <1>2
  <2> QED BY <2>1, <1>2, SpscSlotsDistinct
<1>3. CASE j < i
  <2>1. i - j < Capacity BY <1>1, <1>3
  <2> QED BY <2>1, <1>3, SpscSlotsDistinct
<1> QED BY <1>2, <1>3

\* The invariant holds of the empty queue.
LEMMA SpscQueueInvInit == Spsc!Init => SpscQueueInv
<1> SUFFICES ASSUME Spsc!Init PROVE SpscQueueInv OBVIOUS
<1>1. Capacity \in Nat \ {0} BY QueueAssumption
<1>2. s_buffer \in [0 .. Capacity - 1 -> Values \cup {None}] BY DEF Spsc!Init
<1>3. s_tail - s_cached \in 0 .. Capacity /\ s_tail - s_head \in 0 .. Capacity
  BY <1>1 DEF Spsc!Init
<1>4. s_stop \in BOOLEAN BY Zenon DEF Spsc!Init
<1>5. /\ s_tail \in Nat /\ s_head \in Nat /\ s_cached \in Nat
      /\ s_ppc = "idle" /\ s_cpc = "idle" /\ s_pushed = "none"
      /\ s_item = None /\ s_out = None /\ s_popped = None
  BY DEF Spsc!Init
<1>6. Spsc!TypeOK BY <1>2, <1>3, <1>4, <1>5 DEF Spsc!TypeOK
<1> QED BY <1>1, <1>5, <1>6 DEF Spsc!Init, SpscQueueInv

\* Every step of the producer, the consumer and shutdown keeps the invariant.
LEMMA SpscQueueInvNext == SpscQueueInv /\ [Spsc!Next]_(Spsc!vars) => SpscQueueInv'
<1> SUFFICES ASSUME SpscQueueInv, [Spsc!Next]_(Spsc!vars) PROVE SpscQueueInv' OBVIOUS
<1>0. /\ Capacity \in Nat \ {0}
      /\ s_tail \in Nat /\ s_head \in Nat /\ s_cached \in Nat
      /\ Spsc!TypeOK
  BY SMTT(30), QueueAssumption DEF SpscQueueInv, Spsc!TypeOK
<1>1. CASE Spsc!PushRefused
  BY SMTT(30), <1>1 DEF Spsc!PushRefused, SpscQueueInv, Spsc!TypeOK, Spsc!queueVars, Spsc!consumerVars
<1>2. CASE \E v \in Values : Spsc!PushBegin(v)
  <2> PICK v \in Values : Spsc!PushBegin(v) BY <1>2
  <2> QED BY <1>0
        DEF Spsc!PushBegin, Spsc!NoRoom, SpscQueueInv, Spsc!TypeOK, Spsc!queueVars,
            Spsc!consumerVars
<1>3. CASE Spsc!PushReload
  <2>1. CASE Spsc!NoRoom(s_head)
    BY SMTT(30), <2>1, <1>0, <1>3
          DEF Spsc!PushReload, Spsc!NoRoom, SpscQueueInv, Spsc!TypeOK, Spsc!consumerVars
  <2>2. CASE ~Spsc!NoRoom(s_head)
    BY SMTT(30), <2>2, <1>0, <1>3
          DEF Spsc!PushReload, Spsc!NoRoom, SpscQueueInv, Spsc!TypeOK, Spsc!consumerVars
  <2> QED BY SMTT(30), <2>1, <2>2
<1>4. CASE Spsc!PushWrite
  <2>1. /\ s_tail - s_head < Capacity
        /\ s_item \in Values
        /\ Spsc!Slot(s_tail) \in 0 .. Capacity - 1
        /\ UNCHANGED <<s_tail, s_head, s_cached, s_stop, s_item, s_pushed, s_cpc, s_out,
                       s_popped>>
        /\ s_ppc = "write" /\ s_ppc' = "publish"
    BY <1>0, <1>4, SpscSlotRange DEF Spsc!PushWrite, SpscQueueInv, Spsc!TypeOK, Spsc!consumerVars
  <2>2. s_buffer' = [s_buffer EXCEPT ![Spsc!Slot(s_tail)] = s_item] BY <1>4 DEF Spsc!PushWrite
  <2>3. s_buffer' \in [0 .. Capacity - 1 -> Values \cup {None}]
    BY <2>1, <2>2 DEF SpscQueueInv, Spsc!TypeOK
  <2>4. s_buffer'[Spsc!Slot(s_tail)] = s_item
    BY <2>1, <2>2 DEF SpscQueueInv, Spsc!TypeOK
  <2>5. \A i \in Nat : s_head <= i /\ i < s_tail
      => s_buffer'[Spsc!Slot(i)] = s_buffer[Spsc!Slot(i)]
    <3> SUFFICES ASSUME NEW i \in Nat, s_head <= i, i < s_tail
                 PROVE  s_buffer'[Spsc!Slot(i)] = s_buffer[Spsc!Slot(i)]
      OBVIOUS
    <3>1. Spsc!Slot(i) # Spsc!Slot(s_tail) BY <1>0, <2>1, SpscSlotsInUse
    <3>2. Spsc!Slot(i) \in 0 .. Capacity - 1 BY SpscSlotRange
    <3> QED BY <3>1, <3>2, <2>2 DEF SpscQueueInv, Spsc!TypeOK
  <2>6. Spsc!TypeOK' BY <2>1, <2>3 DEF SpscQueueInv, Spsc!TypeOK
  <2>7. Spsc!Slot(s_tail)' = Spsc!Slot(s_tail) /\ Spsc!Slot(s_head)' = Spsc!Slot(s_head) BY <2>1
        DEF Spsc!Slot
  <2>8. (s_cpc = "release" => s_out = s_buffer[Spsc!Slot(s_head)])'
    <3>1. CASE s_cpc = "release"
      <4>1. s_head \in Nat /\ s_head <= s_head /\ s_head < s_tail
        BY <1>0, <3>1 DEF SpscQueueInv
      <4>2. s_buffer'[Spsc!Slot(s_head)] = s_buffer[Spsc!Slot(s_head)] BY Zenon, <2>5, <4>1
      <4> QED BY Zenon, <2>1, <2>7, <3>1, <4>2 DEF SpscQueueInv
    <3> QED BY Zenon, <2>1, <3>1
  <2>9. (\A i \in Nat : s_head <= i /\ i < s_tail => s_buffer[Spsc!Slot(i)] \in Values)'
    BY SMTT(30), <2>1, <2>5 DEF SpscQueueInv, Spsc!Slot
  <2> QED BY SMTT(30), <2>1, <2>4, <2>6, <2>7, <2>8, <2>9 DEF SpscQueueInv
<1>5. CASE Spsc!PushPublish
  <2>1. /\ s_tail' = s_tail + 1
        /\ s_ppc = "publish" /\ s_ppc' = "idle" /\ s_pushed' = "ok"
        /\ UNCHANGED <<s_buffer, s_head, s_cached, s_stop, s_item, s_cpc, s_out, s_popped>>
    BY <1>5 DEF Spsc!PushPublish, Spsc!consumerVars
  <2>2. s_tail - s_cached < Capacity /\ s_cached <= s_head /\ s_item \in Values
    BY SMTT(30), <2>1 DEF SpscQueueInv
  <2>3. Spsc!TypeOK' BY <1>0, <2>1, <2>2 DEF SpscQueueInv, Spsc!TypeOK
  <2>4. (\A i \in Nat : s_head <= i /\ i < s_tail => s_buffer[Spsc!Slot(i)] \in Values)'
    <3> SUFFICES ASSUME NEW i \in Nat, s_head <= i, i < s_tail + 1
                 PROVE  s_buffer[Spsc!Slot(i)] \in Values
      BY <2>1 DEF Spsc!Slot
    <3>1. CASE i = s_tail BY <3>1, <2>1, <2>2 DEF SpscQueueInv
    <3>2. CASE i # s_tail
      <4>1. i < s_tail BY <3>2, <1>0
      <4> QED BY <4>1 DEF SpscQueueInv
    <3> QED BY <3>1, <3>2
  <2>5. Spsc!Slot(s_head)' = Spsc!Slot(s_head) BY SMTT(30), <2>1 DEF Spsc!Slot
  <2> QED BY <1>0, <2>1, <2>2, <2>3, <2>4, <2>5 DEF SpscQueueInv
<1>6. CASE Spsc!PopBegin
  BY SMTT(30), <1>0, <1>6 DEF Spsc!PopBegin, SpscQueueInv, Spsc!TypeOK, Spsc!queueVars, Spsc!producerVars
<1>7. CASE Spsc!PopRead
  <2>1. s_out' = s_buffer[Spsc!Slot(s_head)] /\ Spsc!Slot(s_head) \in 0 .. Capacity - 1
    BY <1>0, <1>7, SpscSlotRange DEF Spsc!PopRead
  <2> QED BY <1>0, <1>7, <2>1
        DEF Spsc!PopRead, SpscQueueInv, Spsc!TypeOK, Spsc!Slot, Spsc!queueVars, Spsc!producerVars
<1>8. CASE Spsc!PopRelease
  <2>1. /\ s_head' = s_head + 1 /\ s_head < s_tail
        /\ s_cpc' = "idle" /\ s_popped' = s_out
        /\ UNCHANGED <<s_buffer, s_tail, s_cached, s_stop, s_out, s_ppc, s_item, s_pushed>>
    BY <1>8 DEF Spsc!PopRelease, SpscQueueInv, Spsc!producerVars
  <2>2. Spsc!TypeOK' BY <1>0, <2>1 DEF SpscQueueInv, Spsc!TypeOK
  <2>3. (\A i \in Nat : s_head <= i /\ i < s_tail => s_buffer[Spsc!Slot(i)] \in Values)'
    <3>1. ASSUME NEW i \in Nat, s_head + 1 <= i, i < s_tail
                 PROVE s_buffer[Spsc!Slot(i)] \in Values
      <4>1. s_head <= i BY <1>0, <3>1
      <4> QED BY <4>1, <3>1, Zenon DEF SpscQueueInv
    <3>2. \A i \in Nat : s_head + 1 <= i /\ i < s_tail => s_buffer[Spsc!Slot(i)] \in Values
      BY <3>1, Zenon
    <3> QED BY ONLY <3>2, <2>1 DEF Spsc!Slot
  <2>4. Spsc!Slot(s_tail)' = Spsc!Slot(s_tail) BY <2>1 DEF Spsc!Slot
  <2> QED BY <1>0, <2>1, <2>2, <2>3, <2>4 DEF SpscQueueInv
<1>9. CASE Spsc!shutdown
  BY <1>0, <1>9
        DEF Spsc!shutdown, SpscQueueInv, Spsc!TypeOK, Spsc!Slot, Spsc!producerVars,
            Spsc!consumerVars
<1>10. CASE UNCHANGED Spsc!vars
  BY <1>0, <1>10
        DEF Spsc!vars, Spsc!queueVars, SpscQueueInv, Spsc!TypeOK, Spsc!Slot, Spsc!producerVars,
            Spsc!consumerVars
<1> QED BY SMTT(30), <1>1, <1>2, <1>3, <1>4, <1>5, <1>6, <1>7, <1>8, <1>9, <1>10
        DEF Spsc!Next, Spsc!push, Spsc!pop

\* The inductive invariant of the queue holds in every state.
THEOREM SpscQueueInvariant == Spsc!Spec => []SpscQueueInv
BY SpscQueueInvInit, SpscQueueInvNext, PTL DEF Spsc!Spec

\* The indices keep their distance: the differences that push computes are always
\* between 0 and Capacity, with the stale head as with the real one.
THEOREM SpscTypeCorrect == Spsc!Spec => []Spsc!TypeOK
<1>1. SpscQueueInv => Spsc!TypeOK BY DEF SpscQueueInv
<1> QED BY <1>1, SpscQueueInvariant, PTL

\* With an item in the queue and room for one, the two ends are on different slots.
LEMMA SpscNoRace == SpscQueueInv => Spsc!NoSlotRace
<1> SUFFICES ASSUME SpscQueueInv, s_ppc = "write", s_cpc = "read"
             PROVE Spsc!Slot(s_tail) # Spsc!Slot(s_head)
  BY DEF Spsc!NoSlotRace
<1>1. /\ Capacity \in Nat \ {0} /\ Spsc!TypeOK
      /\ s_tail \in Nat /\ s_head \in Nat /\ s_cached \in Nat
  BY QueueAssumption DEF SpscQueueInv, Spsc!TypeOK
<1>2. s_tail - s_head < Capacity /\ s_head < s_tail BY <1>1 DEF SpscQueueInv
<1> QED BY <1>1, <1>2, SpscSlotsInUse

\* The producer never writes the slot that the consumer reads.
THEOREM SpscRaceFree == Spsc!Spec => []Spsc!NoSlotRace
BY SpscNoRace, SpscQueueInvariant, PTL

\* The contents are a sequence of values whose length is the distance of the indices.
LEMMA SpscContentsOK ==
  ASSUME SpscQueueInv
  PROVE  Spsc!Contents \in Seq(Values) /\ Len(Spsc!Contents) = s_tail - s_head
<1>1. /\ Capacity \in Nat \ {0}
      /\ s_tail \in Nat /\ s_head \in Nat /\ s_tail - s_head \in Nat
  BY QueueAssumption DEF SpscQueueInv, Spsc!TypeOK
<1>2. ASSUME NEW i \in 1 .. s_tail - s_head PROVE s_buffer[Spsc!Slot(s_head + i - 1)] \in Values
  <2>1. s_head + i - 1 \in Nat /\ s_head <= s_head + i - 1 /\ s_head + i - 1 < s_tail BY <1>1
  <2> QED BY <2>1 DEF SpscQueueInv
<1> QED BY <1>1, <1>2 DEF Spsc!Contents

\* A step that leaves the indices and the slots in use alone leaves the contents.
LEMMA SpscContentsFrame ==
  ASSUME SpscQueueInv, UNCHANGED <<s_tail, s_head>>,
         \A i \in Nat : s_head <= i /\ i < s_tail
             => s_buffer'[Spsc!Slot(i)] = s_buffer[Spsc!Slot(i)]
  PROVE  Spsc!Contents' = Spsc!Contents
<1>1. s_tail \in Nat /\ s_head \in Nat BY DEF SpscQueueInv, Spsc!TypeOK
<1>2. ASSUME NEW i \in 1 .. s_tail - s_head
      PROVE  s_buffer'[Spsc!Slot(s_head + i - 1)] = s_buffer[Spsc!Slot(s_head + i - 1)]
  <2>1. s_head + i - 1 \in Nat /\ s_head <= s_head + i - 1 /\ s_head + i - 1 < s_tail BY <1>1
  <2> QED BY <2>1
<1> QED BY <1>2 DEF Spsc!Contents, Spsc!Slot

\* The empty queue is an empty FIFO.
LEMMA SpscFifoInit == Spsc!Init => Spsc!Fifo!Init
<1> SUFFICES ASSUME Spsc!Init PROVE Spsc!Fifo!Init OBVIOUS
<1>1. Spsc!Contents = <<>> BY DEF Spsc!Init, Spsc!Contents
<1> QED BY <1>1 DEF Spsc!Init, Spsc!Fifo!Init

\* Every step of the queue is a step of the FIFO or leaves it unchanged: publishing the
\* tail is the push, handing the slot back is the pop.
LEMMA SpscFifoStep == SpscQueueInv /\ [Spsc!Next]_(Spsc!vars)
    => [Spsc!Fifo!Next]_(Spsc!Fifo!fifoVars)
<1> SUFFICES ASSUME SpscQueueInv, [Spsc!Next]_(Spsc!vars)
             PROVE  Spsc!Fifo!Next \/ UNCHANGED Spsc!Fifo!fifoVars
  OBVIOUS
<1>0. /\ Capacity \in Nat \ {0}
      /\ s_tail \in Nat /\ s_head \in Nat /\ s_cached \in Nat
      /\ s_cached <= s_head
      /\ Spsc!TypeOK
      /\ Spsc!Contents \in Seq(Values) /\ Len(Spsc!Contents) = s_tail - s_head
  BY QueueAssumption, SpscContentsOK DEF SpscQueueInv, Spsc!TypeOK
<1>q. UNCHANGED Spsc!queueVars => Spsc!Contents' = Spsc!Contents
  BY DEF Spsc!queueVars, Spsc!Contents, Spsc!Slot
<1>1. CASE Spsc!PushRefused
  <2>1. Spsc!Fifo!PushStopped
    BY <1>1, <1>q DEF Spsc!PushRefused, Spsc!Fifo!PushStopped, Spsc!queueVars, Spsc!consumerVars
  <2> QED BY <2>1 DEF Spsc!Fifo!Next
<1>2. CASE \E v \in Values : Spsc!PushBegin(v)
  BY <1>2, <1>q DEF Spsc!PushBegin, Spsc!Fifo!fifoVars, Spsc!queueVars, Spsc!consumerVars
<1>3. CASE Spsc!PushReload
  <2>1. Spsc!Contents' = Spsc!Contents BY <1>3 DEF Spsc!PushReload, Spsc!Contents, Spsc!Slot
  <2>2. CASE Spsc!NoRoom(s_head)
    <3>1. Len(Spsc!Contents) = Capacity BY <1>0, <2>2 DEF Spsc!NoRoom, Spsc!TypeOK
    <3>2. Spsc!Fifo!PushFull
      BY <1>3, <2>1, <2>2, <3>1 DEF Spsc!PushReload, Spsc!Fifo!PushFull, Spsc!consumerVars
    <3> QED BY <3>2 DEF Spsc!Fifo!Next
  <2>3. CASE ~Spsc!NoRoom(s_head)
    BY <1>3, <2>1, <2>3 DEF Spsc!PushReload, Spsc!Fifo!fifoVars, Spsc!consumerVars
  <2> QED BY <2>2, <2>3
<1>4. CASE Spsc!PushWrite
  <2>1. s_tail - s_head < Capacity BY <1>0, <1>4 DEF Spsc!PushWrite, SpscQueueInv
  <2>2. \A i \in Nat : s_head <= i /\ i < s_tail
      => s_buffer'[Spsc!Slot(i)] = s_buffer[Spsc!Slot(i)]
    <3> SUFFICES ASSUME NEW i \in Nat, s_head <= i, i < s_tail
                 PROVE  s_buffer'[Spsc!Slot(i)] = s_buffer[Spsc!Slot(i)]
      OBVIOUS
    <3>1. Spsc!Slot(i) # Spsc!Slot(s_tail) BY <1>0, <2>1, SpscSlotsInUse
    <3>2. Spsc!Slot(i) \in 0 .. Capacity - 1 BY SpscSlotRange
    <3> QED BY <3>1, <3>2, <1>4 DEF Spsc!PushWrite, SpscQueueInv, Spsc!TypeOK
  <2>3. Spsc!Contents' = Spsc!Contents BY <1>4, <2>2, SpscContentsFrame DEF Spsc!PushWrite
  <2> QED BY <1>4, <2>3 DEF Spsc!PushWrite, Spsc!Fifo!fifoVars, Spsc!consumerVars
<1>5. CASE Spsc!PushPublish
  <2>1. /\ s_tail' = s_tail + 1 /\ s_head' = s_head /\ s_buffer' = s_buffer
        /\ s_pushed' = "ok" /\ s_stop' = s_stop /\ s_popped' = s_popped
        /\ s_tail - s_head < Capacity /\ s_item \in Values
        /\ s_buffer[Spsc!Slot(s_tail)] = s_item
    BY <1>0, <1>5 DEF Spsc!PushPublish, SpscQueueInv, Spsc!consumerVars
  <2>2. Spsc!Contents' = [i \in 1 .. (s_tail + 1) - s_head |-> s_buffer[Spsc!Slot(s_head + i - 1)]]
    BY <2>1 DEF Spsc!Contents, Spsc!Slot
  <2>3. Append(Spsc!Contents, s_item) \in Seq(Values)
      /\ Len(Append(Spsc!Contents, s_item)) = (s_tail + 1) - s_head
    BY <1>0, <2>1
  <2>4. ASSUME NEW i \in 1 .. (s_tail + 1) - s_head
        PROVE  Append(Spsc!Contents, s_item)[i] = s_buffer[Spsc!Slot(s_head + i - 1)]
    <3>1. CASE i <= s_tail - s_head
      <4>1. i \in 1 .. s_tail - s_head BY <3>1, <1>0
      <4>2. Append(Spsc!Contents, s_item)[i] = Spsc!Contents[i] BY <4>1, <1>0, <2>1
      <4>3. Spsc!Contents[i] = s_buffer[Spsc!Slot(s_head + i - 1)] BY ONLY SMTT(30), <4>1 DEF Spsc!Contents
      <4> QED BY ONLY <4>2, <4>3
    <3>2. CASE ~(i <= s_tail - s_head)
      <4>1. i = Len(Spsc!Contents) + 1 /\ s_head + i - 1 = s_tail BY <3>2, <1>0
      <4>2. Append(Spsc!Contents, s_item)[i] = s_item BY ONLY <4>1, <1>0, <2>1
      <4> QED BY <4>1, <4>2, <2>1
    <3> QED BY Zenon, <3>1, <3>2
  <2>5. Spsc!Contents' = Append(Spsc!Contents, s_item) BY Zenon, <2>2, <2>3, <2>4, SameSequence
  <2>6. Spsc!Fifo!Push(s_item) BY <1>0, <2>1, <2>5 DEF Spsc!Fifo!Push
  <2> QED BY <2>1, <2>6 DEF Spsc!Fifo!Next
<1>6. CASE Spsc!PopBegin
  <2>1. Spsc!Contents' = Spsc!Contents BY <1>6, <1>q DEF Spsc!PopBegin
  <2>2. CASE s_head = s_tail
    <3>1. Spsc!Contents = <<>> BY <1>0, <2>2
    <3>2. Spsc!Fifo!PopEmpty
      BY <1>6, <2>1, <2>2, <3>1
            DEF Spsc!PopBegin, Spsc!Fifo!PopEmpty, Spsc!queueVars, Spsc!producerVars
    <3> QED BY <3>2 DEF Spsc!Fifo!Next
  <2>3. CASE s_head # s_tail
    BY <1>6, <2>1, <2>3 DEF Spsc!PopBegin, Spsc!Fifo!fifoVars, Spsc!queueVars, Spsc!producerVars
  <2> QED BY <2>2, <2>3
<1>7. CASE Spsc!PopRead
  BY <1>7, <1>q DEF Spsc!PopRead, Spsc!Fifo!fifoVars, Spsc!queueVars, Spsc!producerVars
<1>8. CASE Spsc!PopRelease
  <2>1. /\ s_head' = s_head + 1 /\ s_tail' = s_tail /\ s_buffer' = s_buffer
        /\ s_pushed' = s_pushed /\ s_stop' = s_stop /\ s_popped' = s_out
        /\ s_head < s_tail /\ s_out = s_buffer[Spsc!Slot(s_head)]
    BY <1>0, <1>8 DEF Spsc!PopRelease, SpscQueueInv, Spsc!producerVars
  <2>2. Len(Spsc!Contents) > 0 /\ Spsc!Contents # <<>> BY <1>0, <2>1
  <2>3. Head(Spsc!Contents) = s_out
    <3>1. Spsc!Contents[1] = s_buffer[Spsc!Slot(s_head + 1 - 1)] BY <1>0, <2>1 DEF Spsc!Contents
    <3>2. s_head + 1 - 1 = s_head BY <1>0
    <3> QED BY <3>1, <3>2, <2>1, <2>2, <1>0
  <2>4. Spsc!Contents' = [i \in 1 .. s_tail - (s_head + 1) |-> s_buffer[Spsc!Slot(s_head + 1 + i - 1)]]
    BY <2>1 DEF Spsc!Contents, Spsc!Slot
  <2>5. /\ Tail(Spsc!Contents) \in Seq(Values) /\ Len(Tail(Spsc!Contents)) = s_tail - (s_head + 1)
    BY <1>0, <2>2
  <2>6. ASSUME NEW i \in 1 .. s_tail - (s_head + 1)
        PROVE  Tail(Spsc!Contents)[i] = s_buffer[Spsc!Slot(s_head + 1 + i - 1)]
    <3>1. i + 1 \in 1 .. s_tail - s_head BY <1>0
    <3>2. Tail(Spsc!Contents)[i] = Spsc!Contents[i + 1] BY <1>0, <2>2, <3>1
    <3>3. s_head + (i + 1) - 1 = s_head + 1 + i - 1 BY <1>0
    <3> QED BY Zenon, <3>1, <3>2, <3>3 DEF Spsc!Contents
  <2>7. Spsc!Contents' = Tail(Spsc!Contents) BY Zenon, <2>4, <2>5, <2>6, SameSequence
  <2>8. Spsc!Fifo!Pop BY <2>1, <2>2, <2>3, <2>7 DEF Spsc!Fifo!Pop
  <2> QED BY <2>8 DEF Spsc!Fifo!Next
<1>9. CASE Spsc!shutdown
  <2>1. Spsc!Contents' = Spsc!Contents BY <1>9 DEF Spsc!shutdown, Spsc!Contents, Spsc!Slot
  <2>2. Spsc!Fifo!Stop BY <1>9, <2>1
        DEF Spsc!shutdown, Spsc!Fifo!Stop, Spsc!producerVars, Spsc!consumerVars
  <2> QED BY <2>2 DEF Spsc!Fifo!Next
<1>10. CASE UNCHANGED Spsc!vars
  BY <1>10, <1>q
        DEF Spsc!vars, Spsc!queueVars, Spsc!producerVars, Spsc!consumerVars, Spsc!Fifo!fifoVars
<1> QED BY <1>1, <1>2, <1>3, <1>4, <1>5, <1>6, <1>7, <1>8, <1>9, <1>10
        DEF Spsc!Next, Spsc!push, Spsc!pop

\* The lock-free queue is a bounded FIFO: for every capacity, no item is lost,
\* repeated or reordered, and a push is refused only at a moment when Capacity items
\* are queued or after shutdown.
THEOREM SpscQueueIsFifo == Spsc!Spec => Spsc!ImplementsFifo
BY SpscQueueInvariant, SpscFifoInit, SpscFifoStep, PTL
      DEF Spsc!Spec, Spsc!ImplementsFifo, Spsc!Fifo!Spec
=============================================================================
