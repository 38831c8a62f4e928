--------------------------- MODULE GatewayProofs ----------------------------
(***************************************************************************)
(* Proofs about the gateway, for any number of sessions, traders, messages *)
(* and any channel capacities, and about its parser, for lines of any      *)
(* length and packets of any number of fields.                             *)
(***************************************************************************)
EXTENDS MCGateway, WellFoundedInduction, TLAPS

\* Whatever the registry names is a session that has not torn down and that has
\* recorded the trader, so its teardown will find the entry; a handler that is about
\* to register a trader has recorded it before.
BindingInv ==
  /\ \A t \in Traders : clientRegistry[t] # nil =>
       /\ clientRegistry[t] \in Sessions
       /\ t \in localSessionTraders[clientRegistry[t]]
       /\ hpc[clientRegistry[t]] # "done"
  /\ \A s \in Sessions : hpc[s] \in {"register", "send"} =>
       traderID[s] \in localSessionTraders[s] /\ traderID[s] \in Traders

GatewayInv == TypeOK /\ BindingInv /\ RoutedToParty

\* Everything has its type at the start.
LEMMA TypeInit == Init => TypeOK
BY GatewayAssumption DEF Init, TypeOK, Reports

\* A step that leaves the registry, the handlers' records and their ends alone keeps
\* the bindings.
LEMMA BindingFrame ==
  ASSUME BindingInv, UNCHANGED <<handlerVars, clientRegistry>>
  PROVE  BindingInv'
BY DEF BindingInv, handlerVars

\* Sending to the session of trader t keeps the channels well-formed and within their
\* capacity, and puts a report only where one of its parties is recorded.
LEMMA OfferOK ==
  ASSUME TypeOK, BindingInv, RoutedToParty, NEW t \in {packet.taker, packet.maker},
         Offer(t), UNCHANGED localSessionTraders
  PROVE  /\ ch' \in [Sessions -> Seq(Reports)]
         /\ \A s \in Sessions : Len(ch'[s]) <= ChanCapacity
         /\ RoutedToParty'
<1> DEFINE s0 == Registered(t)
<1>1. CASE s0 # nil /\ Len(ch[s0]) < ChanCapacity
  <2>1. /\ t \in Traders /\ s0 = clientRegistry[t]
        /\ s0 \in Sessions /\ t \in localSessionTraders[s0]
    BY <1>1 DEF Registered, BindingInv
  <2>2. ch' = [ch EXCEPT ![s0] = Append(@, packet)] BY <1>1 DEF Offer
  <2> HIDE DEF s0
  <2>3. /\ ch \in [Sessions -> Seq(Reports)] /\ packet \in Reports
        /\ ChanCapacity \in Nat /\ ch[s0] \in Seq(Reports)
    BY Zenon, <2>1, GatewayAssumption DEF TypeOK
  <2>4. ch'[s0] = Append(ch[s0], packet) /\ ch'[s0] \in Seq(Reports)
    BY <2>1, <2>2, <2>3
  <2>5. \A s \in Sessions : s # s0 => ch'[s] = ch[s] BY <2>2, <2>3
  <2>6. ch' \in [Sessions -> Seq(Reports)] BY <2>2, <2>3, <2>4
  <2>7. Len(ch'[s0]) = Len(ch[s0]) + 1 /\ Len(ch[s0]) \in Nat BY <2>3, <2>4
  <2>8. \A s \in Sessions : Len(ch'[s]) <= ChanCapacity
    <3>1. Len(ch'[s0]) <= ChanCapacity BY <1>1, <2>3, <2>7
    <3>2. \A s \in Sessions : Len(ch[s]) <= ChanCapacity BY DEF TypeOK
    <3> QED BY <3>1, <3>2, <2>5
  <2>9. RoutedToParty'
    <3> SUFFICES ASSUME NEW s \in Sessions, NEW i \in 1 .. Len(ch'[s])
                 PROVE  MayReceive(localSessionTraders[s], ch'[s][i])
      BY DEF RoutedToParty
    <3>1. CASE s # s0 BY <3>1, <2>5 DEF RoutedToParty
    <3>2. CASE s = s0 /\ i <= Len(ch[s0])
      <4>1. i \in 1 .. Len(ch[s0]) /\ ch'[s0][i] = ch[s0][i] BY <3>2, <2>3, <2>4, <2>7
      <4> QED BY <2>1, <3>2, <4>1 DEF RoutedToParty
    <3>3. CASE s = s0 /\ ~(i <= Len(ch[s0]))
      <4>1. i = Len(ch[s0]) + 1 BY <3>3, <2>7
      <4>2. ch'[s0][i] = packet BY <4>1, <2>3, <2>4
      <4>3. t \in packet.parties \/ t = 0 BY Zenon, <2>3 DEF Reports
      <4>4. MayReceive(localSessionTraders[s0], packet) BY Zenon, <2>1, <4>3 DEF MayReceive
      <4> QED BY Zenon, <3>3, <4>2, <4>4
    <3> QED BY <3>1, <3>2, <3>3
  <2> QED BY <2>6, <2>8, <2>9
<1>2. CASE ~(s0 # nil /\ Len(ch[s0]) < ChanCapacity)
  <2>1. ch' = ch BY <1>2 DEF Offer
  <2> QED BY <2>1 DEF TypeOK, RoutedToParty
<1> QED BY <1>1, <1>2

\* Taking a report from a channel keeps the reports that stay where they may be.
LEMMA TakeOK ==
  ASSUME TypeOK, RoutedToParty, NEW s0 \in Sessions, ch[s0] # <<>>,
         ch' = [ch EXCEPT ![s0] = Tail(@)], UNCHANGED localSessionTraders
  PROVE  /\ ch' \in [Sessions -> Seq(Reports)]
         /\ \A s \in Sessions : Len(ch'[s]) <= ChanCapacity
         /\ RoutedToParty'
<1>1. /\ ch \in [Sessions -> Seq(Reports)] /\ ch[s0] \in Seq(Reports)
      /\ ChanCapacity \in Nat /\ \A s \in Sessions : Len(ch[s]) <= ChanCapacity
  BY GatewayAssumption DEF TypeOK
<1>2. ch'[s0] = Tail(ch[s0]) /\ ch'[s0] \in Seq(Reports) BY <1>1
<1>3. \A s \in Sessions : s # s0 => ch'[s] = ch[s] BY <1>1
<1>4. Len(ch[s0]) \in Nat /\ Len(ch'[s0]) = Len(ch[s0]) - 1 BY <1>1, <1>2
<1>5. Len(ch'[s0]) <= ChanCapacity BY <1>1, <1>4
<1>6. RoutedToParty'
  <2> SUFFICES ASSUME NEW s \in Sessions, NEW i \in 1 .. Len(ch'[s])
               PROVE  MayReceive(localSessionTraders[s], ch'[s][i])
    BY Zenon DEF RoutedToParty
  <2>1. CASE s # s0 BY <2>1, <1>3 DEF RoutedToParty
  <2>2. CASE s = s0
    <3>1. i + 1 \in 1 .. Len(ch[s0]) BY <2>2, <1>4
    <3>2. ch'[s0][i] = ch[s0][i + 1] BY <2>2, <3>1, <1>1, <1>2, <1>4
    <3> QED BY <2>2, <3>1, <3>2 DEF RoutedToParty
  <2> QED BY <2>1, <2>2
<1>7. ch' \in [Sessions -> Seq(Reports)] BY <1>1, <1>2
<1> QED BY <1>1, <1>3, <1>5, <1>6, <1>7

\* A handler's step that leaves the channels alone keeps their contents permitted,
\* since a session's record of its traders only grows.
LEMMA RecordGrows ==
  ASSUME RoutedToParty, UNCHANGED ch,
         \A s \in Sessions : localSessionTraders[s] \subseteq localSessionTraders'[s]
  PROVE  RoutedToParty'
<1>1. ASSUME NEW s \in Sessions, NEW r, MayReceive(localSessionTraders[s], r)
      PROVE  MayReceive(localSessionTraders'[s], r)
  BY Zenon, <1>1 DEF MayReceive
<1> QED BY Zenon, <1>1 DEF RoutedToParty

\* The steps of the handlers keep the invariant.
LEMMA HandlerOK ==
  ASSUME GatewayInv, NEW s \in Sessions, Accept(s) \/ HandleClient(s)
  PROVE  GatewayInv'
<1>0. TypeOK /\ BindingInv /\ RoutedToParty BY DEF GatewayInv
<1>1. CASE Accept(s)
  <2>1. TypeOK' BY <1>0, <1>1 DEF TypeOK, Accept, HandlerFrame
  <2>2. BindingInv' BY <1>0, <1>1 DEF TypeOK, BindingInv, Accept, HandlerFrame
  <2>3. RoutedToParty' BY <1>0, <1>1, RecordGrows DEF Accept
  <2> QED BY <2>1, <2>2, <2>3 DEF GatewayInv
<1>2. CASE \E t \in Traders : ReadMessage(s, t)
  <2> PICK t \in Traders : ReadMessage(s, t) BY <1>2
  <2>0. /\ localSessionTraders' = [localSessionTraders EXCEPT ![s] = @ \cup {t}]
        /\ localSessionTraders' \in [Sessions -> SUBSET Traders]
        /\ \A r \in Sessions : localSessionTraders[r] \subseteq localSessionTraders'[r]
        /\ t \in localSessionTraders'[s]
    BY <1>0 DEF ReadMessage, TypeOK
  <2>a. messages' \in 0 .. MaxMessages BY <1>0, GatewayAssumption DEF ReadMessage, TypeOK
  <2>1. TypeOK' BY <1>0, <2>0, <2>a DEF TypeOK, ReadMessage, HandlerFrame
  <2>2. BindingInv'
    <3>1. /\ hpc \in [Sessions -> {"new", "read", "register", "send", "cleanup", "done"}]
          /\ traderID \in [Sessions -> Traders \cup {0}]
      BY <1>0 DEF TypeOK
    <3>2. /\ hpc[s] = "read" /\ hpc'[s] \in {"send", "register"}
          /\ \A r \in Sessions : r # s => hpc'[r] = hpc[r] /\ traderID'[r] = traderID[r]
          /\ traderID'[s] = t
          /\ clientRegistry' = clientRegistry
      BY <3>1 DEF ReadMessage
    <3> QED BY <1>0, <2>0, <3>2 DEF BindingInv
  <2>3. RoutedToParty' BY <1>0, <2>0, RecordGrows DEF ReadMessage
  <2> QED BY <2>1, <2>2, <2>3 DEF GatewayInv
<1>3. CASE Register(s)
  <2>0. traderID[s] \in Traders /\ traderID[s] \in localSessionTraders[s]
    BY <1>0, <1>3 DEF Register, BindingInv
  <2>1. TypeOK' BY <1>0, <1>3, <2>0 DEF TypeOK, Register, HandlerFrame
  <2>2. BindingInv'
    <3>1. /\ hpc[s] = "register" /\ hpc' = [hpc EXCEPT ![s] = "send"]
          /\ clientRegistry' = [clientRegistry EXCEPT ![traderID[s]] = s]
          /\ traderID' = traderID /\ localSessionTraders' = localSessionTraders
          /\ hpc \in [Sessions -> {"new", "read", "register", "send", "cleanup", "done"}]
          /\ clientRegistry \in [Traders -> Sessions \cup {nil}]
      BY <1>0, <1>3 DEF Register, TypeOK
    <3> QED BY <1>0, <2>0, <3>1 DEF BindingInv
  <2>3. RoutedToParty' BY <1>0, <1>3, RecordGrows DEF Register
  <2> QED BY <2>1, <2>2, <2>3 DEF GatewayInv
<1>4. CASE SendPacket(s)
  <2>0. traderID[s] \in Traders BY <1>0, <1>4 DEF SendPacket, BindingInv
  <2>a. packetChan' \in Seq(Traders) /\ Len(packetChan') <= PacketChanCapacity
    <3>1. packetChan \in Seq(Traders) /\ PacketChanCapacity \in Nat
      BY <1>0, GatewayAssumption DEF TypeOK
    <3>2. Len(packetChan) < PacketChanCapacity /\ packetChan' = Append(packetChan, traderID[s])
      BY <1>4 DEF SendPacket
    <3> QED BY <2>0, <3>1, <3>2
  <2>1. TypeOK' BY <1>0, <1>4, <2>a DEF TypeOK, SendPacket, HandlerFrame
  <2>2. BindingInv' BY <1>0, <1>4 DEF TypeOK, BindingInv, SendPacket, HandlerFrame
  <2>3. RoutedToParty' BY <1>0, <1>4, RecordGrows DEF SendPacket
  <2> QED BY <2>1, <2>2, <2>3 DEF GatewayInv
<1>5. CASE Disconnect(s)
  <2>1. TypeOK' BY <1>0, <1>5 DEF TypeOK, Disconnect, HandlerFrame
  <2>2. BindingInv' BY <1>0, <1>5 DEF TypeOK, BindingInv, Disconnect, HandlerFrame
  <2>3. RoutedToParty' BY <1>0, <1>5, RecordGrows DEF Disconnect
  <2> QED BY <2>1, <2>2, <2>3 DEF GatewayInv
<1>6. CASE Cleanup(s)
  <2>1. TypeOK' BY <1>0, <1>6 DEF TypeOK, Cleanup, HandlerFrame
  <2>2. BindingInv'
    <3>1. /\ hpc' = [hpc EXCEPT ![s] = "done"]
          /\ traderID' = traderID /\ localSessionTraders' = localSessionTraders
          /\ hpc \in [Sessions -> {"new", "read", "register", "send", "cleanup", "done"}]
          /\ \A t \in Traders : clientRegistry'[t] =
               IF t \in localSessionTraders[s] THEN nil ELSE clientRegistry[t]
      BY <1>0, <1>6 DEF Cleanup, Unbound, TypeOK
    <3> QED BY <1>0, <3>1 DEF BindingInv
  <2>3. RoutedToParty' BY <1>0, <1>6, RecordGrows DEF Cleanup
  <2> QED BY <2>1, <2>2, <2>3 DEF GatewayInv
<1> QED BY <1>1, <1>2, <1>3, <1>4, <1>5, <1>6 DEF HandleClient

\* The steps of the writers keep the invariant.
LEMMA WriterOK ==
  ASSUME GatewayInv, NEW s \in Sessions, WritePayload(s) \/ WriterExit(s)
  PROVE  GatewayInv'
<1>0. TypeOK /\ BindingInv /\ RoutedToParty BY DEF GatewayInv
<1>1. WriterFrame BY DEF WritePayload, WriterExit
<1>2. BindingInv' BY <1>0, <1>1, BindingFrame DEF WriterFrame
<1>3. writer' \in [Sessions -> {"none", "run", "exited"}]
  BY Zenon, <1>0 DEF WritePayload, WriterExit, TypeOK
<1>4. /\ ch' \in [Sessions -> Seq(Reports)]
      /\ \A r \in Sessions : Len(ch'[r]) <= ChanCapacity
      /\ RoutedToParty'
  <2>1. localSessionTraders' = localSessionTraders BY <1>1 DEF WriterFrame, handlerVars
  <2>2. CASE ch[s] # <<>> /\ ch' = [ch EXCEPT ![s] = Tail(@)]
    BY Zenon, <1>0, <2>1, <2>2, TakeOK
  <2>3. CASE ch' = ch BY Zenon, <1>0, <2>1, <2>3 DEF TypeOK, RoutedToParty
  <2> QED BY <2>2, <2>3 DEF WritePayload, WriterExit
<1>5. TypeOK' BY <1>0, <1>1, <1>3, <1>4 DEF TypeOK, WriterFrame, handlerVars
<1> QED BY <1>2, <1>4, <1>5 DEF GatewayInv

\* What the engine sends are reports that name parties or nobody.
LEMMA ReportsMade ==
  ASSUME NEW t \in Traders, NEW m \in Traders
  PROVE  {Rejection(t), Acceptance(t), Fill(t, m)} \subseteq Reports
BY DEF Rejection, Acceptance, Fill, Reports

\* The ring goroutines and the engine keep the invariant.
LEMMA RingsOK ==
  ASSUME GatewayInv, Forward \/ Engine
  PROVE  GatewayInv'
<1>0. TypeOK /\ BindingInv /\ RoutedToParty BY DEF GatewayInv
<1>1. UNCHANGED <<handlerVars, writer, ch, clientRegistry, dpc, packet, messages, routed>>
  BY DEF Forward, Engine
<1>2. BindingInv' BY <1>0, <1>1, BindingFrame
<1>3. RoutedToParty' BY <1>1, <1>0 DEF RoutedToParty, handlerVars
<1>4. CASE Forward
  <2>1. packetChan \in Seq(Traders) /\ packetChan # <<>> /\ ingress \in Seq(Traders)
    BY <1>0, <1>4 DEF TypeOK, Forward
  <2>2. RingSize \in Nat /\ PacketChanCapacity \in Nat BY GatewayAssumption
  <2>3. packetChan' \in Seq(Traders) /\ Len(packetChan') <= PacketChanCapacity
    BY <1>0, <1>4, <2>1, <2>2 DEF TypeOK, Forward
  <2>4. Head(packetChan) \in Traders BY <2>1
  <2>5. ingress' \in Seq(Traders) /\ Len(ingress') <= RingSize
    <3>1. CASE Len(ingress) < RingSize
      <4>1. ingress' = Append(ingress, Head(packetChan)) BY <3>1, <1>4 DEF Forward
      <4> QED BY <3>1, <4>1, <2>1, <2>2, <2>4
    <3>2. CASE ~(Len(ingress) < RingSize)
      BY <3>2, <1>4, <1>0 DEF Forward, TypeOK
    <3> QED BY <3>1, <3>2
  <2>6. dropped' \in Nat BY <1>0, <1>4 DEF TypeOK, Forward
  <2>7. TypeOK' BY <1>0, <1>1, <1>4, <2>3, <2>5, <2>6 DEF TypeOK, Forward, handlerVars
  <2> QED BY <1>2, <1>3, <2>7 DEF GatewayInv
<1>5. CASE Engine
  <2> DEFINE t == Head(ingress)
  <2>1. ingress \in Seq(Traders) /\ ingress # <<>> /\ egress \in Seq(Reports)
        /\ RingSize \in Nat /\ Len(ingress) <= RingSize
    BY <1>0, <1>5, GatewayAssumption DEF TypeOK, Engine
  <2>2. ingress' \in Seq(Traders) /\ Len(ingress') <= RingSize BY <1>5, <2>1 DEF Engine
  <2>3. t \in Traders BY <2>1
  <2>4. makers' \subseteq Traders BY <1>0, <1>5, <2>3 DEF Engine, TypeOK
  <2>5. \E r \in Reports : egress' = Append(egress, r)
    <3>1. CASE egress' = Append(egress, Rejection(t)) BY <3>1, <2>3, ReportsMade
    <3>2. CASE egress' = Append(egress, Acceptance(t)) BY <3>2, <2>3, ReportsMade
    <3>3. CASE \E m \in makers : egress' = Append(egress, Fill(t, m))
      <4>1. makers \subseteq Traders BY <1>0 DEF TypeOK
      <4> QED BY Zenon, <3>3, <4>1, <2>3, ReportsMade
    <3> QED BY Zenon, <1>5, <3>1, <3>2, <3>3 DEF Engine
  <2>6. egress' \in Seq(Reports) BY <2>1, <2>5
  <2>7. answered' \in Nat BY <1>0, <1>5 DEF Engine, TypeOK
  <2>8. packetChan' = packetChan /\ dropped' = dropped BY <1>5 DEF Engine
  <2>9. TypeOK' BY <1>0, <1>1, <2>2, <2>4, <2>6, <2>7, <2>8 DEF TypeOK, handlerVars
  <2> QED BY <1>2, <1>3, <2>9 DEF GatewayInv
<1> QED BY <1>4, <1>5

\* The steps of the egress goroutine keep the invariant.
LEMMA DistributeOK ==
  ASSUME GatewayInv, Distribute
  PROVE  GatewayInv'
<1>0. TypeOK /\ BindingInv /\ RoutedToParty BY DEF GatewayInv
<1>1. DistributorFrame BY DEF Distribute, Dequeue, RouteTaker, RouteMaker
<1>2. BindingInv' BY <1>0, <1>1, BindingFrame DEF DistributorFrame
<1>3. localSessionTraders' = localSessionTraders BY <1>1 DEF DistributorFrame, handlerVars
<1>4. CASE Dequeue
  <2>1. egress \in Seq(Reports) /\ egress # <<>> BY <1>0, <1>4 DEF TypeOK, Dequeue
  <2>2. egress' \in Seq(Reports) /\ packet' \in Reports BY <1>4, <2>1 DEF Dequeue
  <2>3. TypeOK' BY <1>0, <1>1, <1>4, <2>2 DEF TypeOK, Dequeue, DistributorFrame, handlerVars
  <2>4. RoutedToParty' BY <1>0, <1>3, <1>4 DEF RoutedToParty, Dequeue
  <2> QED BY <1>2, <2>3, <2>4 DEF GatewayInv
<1>5. CASE RouteTaker
  <2>1. /\ ch' \in [Sessions -> Seq(Reports)]
        /\ \A s \in Sessions : Len(ch'[s]) <= ChanCapacity
        /\ RoutedToParty'
    BY <1>0, <1>3, <1>5, OfferOK DEF RouteTaker
  <2>2. TypeOK' BY <1>0, <1>1, <1>5, <2>1 DEF TypeOK, RouteTaker, DistributorFrame, handlerVars
  <2> QED BY <1>2, <2>1, <2>2 DEF GatewayInv
<1>6. CASE RouteMaker
  <2>1. /\ ch' \in [Sessions -> Seq(Reports)]
        /\ \A s \in Sessions : Len(ch'[s]) <= ChanCapacity
        /\ RoutedToParty'
    BY <1>0, <1>3, <1>6, OfferOK DEF RouteMaker
  <2>2. routed' \in Nat BY <1>0, <1>6 DEF TypeOK, RouteMaker
  <2>3. TypeOK' BY <1>0, <1>1, <1>6, <2>1, <2>2 DEF TypeOK, RouteMaker, DistributorFrame, handlerVars
  <2> QED BY <1>2, <2>1, <2>3 DEF GatewayInv
<1> QED BY <1>4, <1>5, <1>6 DEF Distribute

\* The inductive invariant of the gateway holds in every state.
THEOREM GatewayInvariant == Spec => []GatewayInv
<1>1. Init => GatewayInv
  <2> SUFFICES ASSUME Init PROVE GatewayInv OBVIOUS
  <2>1. TypeOK BY TypeInit
  <2>2. BindingInv BY Zenon DEF Init, BindingInv
  <2>3. RoutedToParty BY DEF Init, RoutedToParty
  <2> QED BY <2>1, <2>2, <2>3 DEF GatewayInv
<1>2. GatewayInv /\ [Next]_vars => GatewayInv'
  <2> SUFFICES ASSUME GatewayInv, [Next]_vars PROVE GatewayInv' OBVIOUS
  <2>1. CASE Next BY <2>1, HandlerOK, WriterOK, RingsOK, DistributeOK DEF Next
  <2>2. CASE UNCHANGED vars
    <3>1. TypeOK' BY <2>2 DEF GatewayInv, TypeOK, vars, handlerVars
    <3>2. BindingInv' BY Zenon, <2>2, BindingFrame DEF GatewayInv, vars
    <3>3. RoutedToParty'
    BY SMTT(30), <2>2 DEF GatewayInv, RoutedToParty, vars, handlerVars
    <3> QED BY <3>1, <3>2, <3>3 DEF GatewayInv
  <2> QED BY <2>1, <2>2
<1> QED BY <1>1, <1>2, PTL DEF Spec

\* Every state has its type: the channels and the rings keep within their capacities,
\* and what travels through them are packets of traders and reports.
THEOREM TypeCorrect == Spec => []TypeOK
<1>1. GatewayInv => TypeOK BY DEF GatewayInv
<1> QED BY <1>1, GatewayInvariant, PTL

\* The egress goroutine never sends on a closed channel.
THEOREM NeverSendsOnClosed == Spec => []RegistryOpen
<1>1. GatewayInv => RegistryOpen BY DEF GatewayInv, BindingInv, RegistryOpen, ClosedChannel
<1> QED BY <1>1, GatewayInvariant, PTL

\* No session receives a report on orders that none of its traders sent or traded with,
\* except that a session of trader 0 receives what main.cpp addresses to nobody.
THEOREM ReportsReachParties == Spec => []RoutedToParty
<1>1. GatewayInv => RoutedToParty BY DEF GatewayInv
<1> QED BY <1>1, GatewayInvariant, PTL

-----------------------------------------------------------------------------
(***************************************************************************)
(* The parser.  Where an argument is by induction, a least counterexample  *)
(* takes its place.                                                        *)
(***************************************************************************)

\* A set of natural numbers that is not empty has a least element.
LEMMA LeastNumber ==
  ASSUME NEW B \in SUBSET Nat, B # {}
  PROVE  \E n \in B : \A m \in B : n <= m
<1>1. IsWellFoundedOn(OpToRel(<, Nat), Nat)
  BY Zenon, NatLessThanWellFounded
<1>2. PICK n \in B : \A m \in B : ~(<<m, n>> \in OpToRel(<, Nat))
  BY <1>1, WFMin, Zenon
<1>3. \A m \in B : ~(m < n)
  BY Zenon, <1>2 DEF OpToRel
<1>4. QED
  BY <1>3

\* A set that holds 0 and with every number below N the next one holds all up to N.
LEMMA UpTo ==
  ASSUME NEW N \in Nat, NEW B, 0 \in B, \A n \in 0 .. N - 1 : n \in B => n + 1 \in B
  PROVE  \A n \in 0 .. N : n \in B
<1> DEFINE C == {n \in 0 .. N : n \notin B}
<1>1. SUFFICES ASSUME C # {} PROVE FALSE
  OBVIOUS
<1>2. C \in SUBSET Nat
  OBVIOUS
<1>3. PICK n \in C : \A m \in C : n <= m
  <2> HIDE DEF C
  <2> QED BY <1>1, <1>2, LeastNumber
<1>4. n \in 0 .. N /\ n \notin B /\ n # 0
  OBVIOUS
<1>5. n - 1 \in 0 .. N - 1 /\ n - 1 \in 0 .. N /\ ~(n <= n - 1) /\ (n - 1) + 1 = n
  BY <1>4
<1>6. n - 1 \in B
  BY <1>3, <1>5
<1> QED BY <1>4, <1>5, <1>6

\* Min of a set of positions is its least element.
LEMMA MinOK ==
  ASSUME NEW S \in SUBSET Nat, S # {}
  PROVE  Min(S) \in S /\ \A y \in S : Min(S) <= y
<1>1. \E x \in S : \A y \in S : x <= y BY LeastNumber
<1> QED BY Zenon, <1>1 DEF Min

\* Max of a bounded set of positions is its greatest element.
LEMMA MaxOK ==
  ASSUME NEW N \in Nat, NEW S \in SUBSET (0 .. N), S # {}
  PROVE  Max(S) \in S /\ \A y \in S : Max(S) >= y
<1> DEFINE D == {N - x : x \in S}
<1>1. D \in SUBSET Nat /\ D # {}
  <2>1. \A x \in S : N - x \in Nat OBVIOUS
  <2> QED BY Zenon, <2>1
<1>2. PICK d \in D : \A e \in D : d <= e
  <2> HIDE DEF D
  <2> QED BY <1>1, LeastNumber
<1>3. PICK x \in S : d = N - x OBVIOUS
<1>4. \A y \in S : x >= y
  <2> TAKE y \in S
  <2>1. N - y \in D OBVIOUS
  <2>2. d <= N - y BY <1>2, <2>1
  <2> QED BY <1>3, <2>2
<1>5. \E m \in S : \A y \in S : m >= y BY <1>4
<1> QED BY Zenon, <1>5 DEF Max

\* Lines with the same characters are the same.
LEMMA SameLine ==
  ASSUME NEW x \in Seq(Int), NEW y \in Seq(Int), Len(x) = Len(y),
         \A k \in 1 .. Len(x) : x[k] = y[k]
  PROVE  x = y
<1>1. x = [k \in 1 .. Len(x) |-> x[k]] /\ y = [k \in 1 .. Len(x) |-> y[k]]
  OBVIOUS
<1> QED BY Zenon, <1>1

\* A part of a part of a line.
LEMMA PartOfPart ==
  ASSUME NEW text \in Seq(Int), NEW d \in Nat, NEW b \in Nat, d <= b, b <= Len(text),
         NEW i \in Nat \ {0}, NEW j \in Nat, j <= b - d
  PROVE  SubSeq(SubSeq(text, d + 1, b), i, j) = SubSeq(text, i + d, j + d)
<1> DEFINE t == SubSeq(text, d + 1, b)
<1>1. t \in Seq(Int) /\ Len(t) = b - d /\ \A n \in 1 .. b - d : t[n] = text[n + d]
  OBVIOUS
<1> HIDE DEF t
<1> DEFINE n == IF i <= j THEN j - i + 1 ELSE 0
           x == SubSeq(t, i, j)
           y == SubSeq(text, i + d, j + d)
<1>2. x \in Seq(Int) /\ Len(x) = n /\ \A k \in 1 .. n : x[k] = t[k + i - 1]
  BY SMTT(30), <1>1
<1>3. y \in Seq(Int) /\ Len(y) = n /\ \A k \in 1 .. n : y[k] = text[k + (i + d) - 1]
  OBVIOUS
<1>4. ASSUME NEW k \in 1 .. n PROVE t[k + i - 1] = text[k + (i + d) - 1]
  <2>1. k + i - 1 \in 1 .. b - d /\ (k + i - 1) + d = k + (i + d) - 1 OBVIOUS
  <2> QED BY <1>1, <2>1
<1> HIDE DEF n, x, y
<1>5. \A k \in 1 .. Len(x) : x[k] = y[k]
  BY Zenon, <1>2, <1>3, <1>4
<1>6. x = y
  BY Zenon, <1>2, <1>3, <1>5, SameLine
<1> QED BY <1>6 DEF x, y, t

\* The characters of a field that is a number are digits.
LEMMA NumberText ==
  ASSUME NEW text \in Seq(Int), NEW i \in Nat \ {0}, NEW j \in Nat, j <= Len(text), NEW max,
         ParseUint(SubSeq(text, i, j), max) # NoNumber
  PROVE  i <= j /\ \A p \in i .. j : text[p] # Comma /\ text[p] # Space
<1> DEFINE t == SubSeq(text, i, j)
<1>1. t # <<>> /\ \A n \in 1 .. Len(t) : t[n] \in 0 .. 9
  BY Zenon DEF ParseUint, IsNumeral
<1>2. t \in Seq(Int) /\ Len(t) = IF i <= j THEN j - i + 1 ELSE 0
  OBVIOUS
<1>3. i <= j
  BY <1>1, <1>2
<1>4. ASSUME NEW p \in i .. j PROVE text[p] # Comma /\ text[p] # Space
  <2>1. p - i + 1 \in 1 .. Len(t) /\ t[p - i + 1] = text[p] BY <1>2, <1>3
  <2>2. text[p] \in 0 .. 9 BY Zenon, <1>1, <2>1
  <2>3. \A c \in 0 .. 9 : c # Comma /\ c # Space BY DEF Comma, Space
  <2> QED BY Zenon, <2>2, <2>3
<1> QED BY Zenon, <1>3, <1>4

\* TrimSpace takes the spaces off both ends, and nothing else.
LEMMA Trimmed ==
  ASSUME NEW text \in Seq(Int)
  PROVE  \/ TrimSpace(text) = <<>> /\ \A i \in 1 .. Len(text) : text[i] = Space
         \/ \E a, b \in 1 .. Len(text) :
              /\ a <= b /\ text[a] # Space /\ text[b] # Space
              /\ \A i \in 1 .. Len(text) : i < a \/ i > b => text[i] = Space
              /\ TrimSpace(text) = SubSeq(text, a, b)
<1> DEFINE ink == {i \in 1 .. Len(text) : text[i] # Space}
<1>1. CASE ink = {}
  BY Zenon, <1>1 DEF TrimSpace
<1>2. CASE ink # {}
  <2>1. ink \in SUBSET Nat /\ ink \in SUBSET (0 .. Len(text)) /\ Len(text) \in Nat OBVIOUS
  <2>2. TrimSpace(text) = SubSeq(text, Min(ink), Max(ink)) BY Zenon, <1>2 DEF TrimSpace
  <2> DEFINE a == Min(ink)
             b == Max(ink)
  <2>3. a \in ink /\ \A y \in ink : a <= y
    <3> HIDE DEF ink
    <3> QED BY <1>2, <2>1, MinOK
  <2>4. b \in ink /\ \A y \in ink : b >= y
    <3> HIDE DEF ink
    <3> QED BY Zenon, <1>2, <2>1, MaxOK
  <2> HIDE DEF a, b
  <2>5. a \in 1 .. Len(text) /\ b \in 1 .. Len(text) /\ text[a] # Space /\ text[b] # Space
    BY <2>3, <2>4
  <2>6. a <= b BY <2>3, <2>4
  <2>7. \A i \in 1 .. Len(text) : i < a \/ i > b => text[i] = Space
    <3> TAKE i \in 1 .. Len(text)
    <3>1. CASE i \in ink BY <2>3, <2>4, <2>5, <3>1
    <3>2. CASE i \notin ink BY <3>2
    <3> QED BY <3>1, <3>2
  <2>8. TrimSpace(text) = SubSeq(text, a, b) BY <2>2 DEF a, b
  <2> QED BY Zenon, <2>5, <2>6, <2>7, <2>8
<1> QED BY Zenon, <1>1, <1>2

\* The inner loop stops at the first comma, or behind the line.
LEMMA RightOK ==
  ASSUME NEW text \in Seq(Int), NEW left \in 1 .. Len(text)
  PROVE  /\ right(text, left) \in left .. Len(text) + 1
         /\ right(text, left) <= Len(text) => text[right(text, left)] = Comma
         /\ \A i \in left .. right(text, left) - 1 : text[i] # Comma
<1> DEFINE S == {Len(text) + 1} \cup {i \in left .. Len(text) : text[i] = Comma}
           e == Min(S)
<1>1. S \in SUBSET Nat /\ S # {} OBVIOUS
<1>2. e \in S /\ \A y \in S : e <= y
  <2> HIDE DEF S
  <2> QED BY <1>1, MinOK
<1> HIDE DEF e
<1>3. e \in left .. Len(text) + 1 /\ (e <= Len(text) => text[e] = Comma)
  BY <1>2
<1>4. ASSUME NEW i \in left .. e - 1 PROVE text[i] # Comma
  <2>1. i \notin S BY <1>2, <1>3
  <2> QED BY <1>3, <2>1
<1> QED BY <1>3, <1>4 DEF e, right

\* It stops nowhere else.
LEMMA RightIs ==
  ASSUME NEW text \in Seq(Int), NEW left \in 1 .. Len(text), NEW e \in left .. Len(text) + 1,
         e <= Len(text) => text[e] = Comma, \A i \in left .. e - 1 : text[i] # Comma
  PROVE  right(text, left) = e
<1> DEFINE r == right(text, left)
<1>1. /\ r \in left .. Len(text) + 1 /\ (r <= Len(text) => text[r] = Comma)
      /\ \A i \in left .. r - 1 : text[i] # Comma
  BY RightOK
<1> HIDE DEF r
<1>2. CASE r < e
  <2>1. r \in left .. e - 1 /\ r <= Len(text) BY <1>1, <1>2
  <2> QED BY <1>1, <2>1
<1>3. CASE e < r
  <2>1. e \in left .. r - 1 /\ e <= Len(text) BY <1>1, <1>3
  <2> QED BY <1>1, <2>1
<1> QED BY <1>1, <1>2, <1>3 DEF r

-----------------------------------------------------------------------------
\* g records the first N iterations of the loop; Trace those that end it.
IsTrace(g, text, N) ==
  g = [n \in 0 .. N |-> IF n = 0 THEN Start ELSE Iteration(text, g[n - 1])]

Trace(text) == CHOOSE g : IsTrace(g, text, Len(text))

\* The recursive definition of the loop has a solution.
LEMMA TraceExists == ASSUME NEW text, NEW N \in Nat PROVE \E g : IsTrace(g, text, N)
<1> DEFINE B == {n \in Nat : \E g : IsTrace(g, text, n)}
<1>1. 0 \in B
  <2> DEFINE g == [n \in 0 .. 0 |-> Start]
             e(n) == IF n = 0 THEN Start ELSE Iteration(text, g[n - 1])
  <2>1. g = [n \in 0 .. 0 |-> e(n)]
    OBVIOUS
  <2>2. IsTrace(g, text, 0)
    <3> HIDE DEF g
    <3> QED BY <2>1, Zenon DEF IsTrace
  <2> QED BY <2>2, Zenon
<1>2. ASSUME NEW m \in 0 .. N - 1, m \in B PROVE m + 1 \in B
  <2> PICK g : IsTrace(g, text, m) BY <1>2
  <2> DEFINE d(n) == IF n = 0 THEN Start ELSE Iteration(text, g[n - 1])
             h == [n \in 0 .. m + 1 |-> IF n = m + 1 THEN Iteration(text, g[m]) ELSE g[n]]
             e(n) == IF n = 0 THEN Start ELSE Iteration(text, h[n - 1])
  <2>1. \A n \in 0 .. m : g[n] = d(n)
    <3>1. g = [n \in 0 .. m |-> d(n)] BY Zenon DEF IsTrace
    <3> HIDE DEF d
    <3> QED BY <3>1
  <2>2. h[m + 1] = Iteration(text, g[m]) /\ \A n \in 0 .. m : h[n] = g[n]
    OBVIOUS
  <2>3. h = [n \in 0 .. m + 1 |-> h[n]]
    OBVIOUS
  <2> HIDE DEF h
  <2>4. ASSUME NEW n \in 0 .. m + 1 PROVE h[n] = e(n)
    <3>1. CASE n = m + 1
      <4>1. n # 0 /\ n - 1 = m /\ m \in 0 .. m BY <3>1
      <4> QED BY Zenon, <3>1, <4>1, <2>2
    <3>2. CASE n # m + 1
      <4>1. n \in 0 .. m /\ (n # 0 => n - 1 \in 0 .. m) BY <3>2
      <4> QED BY Zenon, <4>1, <2>1, <2>2
    <3> QED BY <3>1, <3>2
  <2>5. h = [n \in 0 .. m + 1 |-> e(n)]
    <3> HIDE DEF e
    <3> QED BY <2>3, <2>4
  <2>6. IsTrace(h, text, m + 1)
    BY <2>5, Zenon DEF IsTrace
  <2>7. m + 1 \in Nat OBVIOUS
  <2> QED BY <2>6, <2>7
<1> HIDE DEF B
<1>3. N \in B
  <2>1. \A n \in 0 .. N : n \in B BY <1>1, <1>2, UpTo
  <2> QED BY <2>1
<1> QED BY <1>3 DEF B

\* The loop starts with Start, iterates, and what it leaves is the state after Len(line)
\* iterations.
LEMMA LoopSteps ==
  ASSUME NEW text, Len(text) \in Nat
  PROVE  /\ Trace(text)[0] = Start
         /\ \A n \in 0 .. Len(text) - 1 : Trace(text)[n + 1] = Iteration(text, Trace(text)[n])
         /\ Loop(text) = Trace(text)[Len(text)]
<1> DEFINE g == Trace(text)
           e(n) == IF n = 0 THEN Start ELSE Iteration(text, g[n - 1])
<1>1. IsTrace(g, text, Len(text))
  BY TraceExists, Zenon DEF Trace
<1>2. g = [n \in 0 .. Len(text) |-> e(n)]
  BY <1>1, Zenon DEF IsTrace
<1>3. Loop(text) = g[Len(text)]
  BY Zenon DEF Loop, Trace, IsTrace
<1> HIDE DEF e, g
<1>4. \A n \in 0 .. Len(text) : g[n] = e(n)
  BY <1>2
<1>5. 0 \in 0 .. Len(text) /\ \A n \in 0 .. Len(text) - 1 :
        n + 1 \in 0 .. Len(text) /\ n + 1 # 0 /\ (n + 1) - 1 = n
  OBVIOUS
<1>6. g[0] = e(0) /\ \A n \in 0 .. Len(text) - 1 : g[n + 1] = e(n + 1)
  BY <1>4, <1>5
<1>7. e(0) = Start /\ \A n \in 0 .. Len(text) - 1 : e(n + 1) = Iteration(text, g[n])
  BY Zenon, <1>5 DEF e
<1> QED BY Zenon, <1>3, <1>6, <1>7 DEF g

-----------------------------------------------------------------------------
\* A packet has its fields, and is not the error.
IsPacket(f) == f = [k \in 0 .. NumFields - 1 |-> f[k]]

\* A packet is not the error.
LEMMA PacketIsNoError == ASSUME NEW f, IsPacket(f) PROVE f # Error
<1>1. DOMAIN f = 0 .. NumFields - 1 BY DEF IsPacket
<1>2. 0 \in 0 .. NumFields - 1 BY ProtocolAssumption
<1>3. DOMAIN Error = {} BY DEF Error
<1> QED BY Zenon, <1>1, <1>2, <1>3

\* assignField sets one field to the number in the text, or fails.
LEMMA AssignOK ==
  ASSUME NEW f, IsPacket(f), NEW c \in Nat, NEW val, NEW g, g = assignField(f, c, val)
  PROVE  /\ IF c < NumFields /\ ParseUint(val, MaxValue[c]) = NoNumber
              THEN g = Error ELSE IsPacket(g)
         /\ g # Error =>
              /\ \A k \in 0 .. NumFields - 1 : k # c => g[k] = f[k]
              /\ c < NumFields => /\ g[c] = ParseUint(val, MaxValue[c])
                                 /\ ParseUint(val, MaxValue[c]) # NoNumber
<1> DEFINE parsed == ParseUint(val, MaxValue[c])
<1>0. NumFields \in Nat BY ProtocolAssumption
<1>1. CASE c >= NumFields
  <2>1. g = f /\ ~(c < NumFields) BY <1>0, <1>1 DEF assignField
  <2> QED BY Zenon, <2>1
<1>2. CASE c < NumFields /\ parsed = NoNumber
  <2>1. g = Error BY <1>0, <1>2 DEF assignField
  <2> QED BY <1>2, <2>1
<1>3. CASE c < NumFields /\ parsed # NoNumber
  <2> HIDE DEF parsed
  <2>1. g = [f EXCEPT ![c] = parsed] BY <1>0, <1>3 DEF assignField, parsed
  <2>2. c \in 0 .. NumFields - 1 BY <1>0, <1>3
  <2>3. IsPacket(g) BY Zenon, <2>1 DEF IsPacket
  <2>4. g[c] = parsed /\ \A k \in 0 .. NumFields - 1 : k # c => g[k] = f[k]
    BY Zenon, <2>1, <2>2 DEF IsPacket
  <2> QED BY Zenon, <1>3, <2>3, <2>4 DEF parsed
<1> QED BY <1>0, <1>1, <1>2, <1>3

\* An iteration moves left behind the comma that ends the field, and assigns the field.
LEMMA IterationOK ==
  ASSUME NEW text \in Seq(Int), NEW s, s.left \in 1 .. Len(text) + 2, ~Over(text, s),
         NEW t, t = Iteration(text, s)
  PROVE  /\ s.left \in 1 .. Len(text)
         /\ s.fields # Error
         /\ t.left = right(text, s.left) + 1
         /\ t.left \in s.left + 1 .. Len(text) + 2
         /\ t.counter = s.counter + 1
         /\ t.fields = assignField(s.fields, s.counter, SubSeq(text, s.left, t.left - 2))
<1> DEFINE e == right(text, s.left)
           f == assignField(s.fields, s.counter, SubSeq(text, s.left, e - 1))
<1>1. s.left \in 1 .. Len(text) /\ s.fields # Error BY DEF Over
<1>2. e \in s.left .. Len(text) + 1 BY <1>1, RightOK
<1>3. t = [left |-> e + 1, counter |-> s.counter + 1, fields |-> f]
  BY Zenon DEF Iteration
<1> HIDE DEF e
<1>4. e - 1 = (e + 1) - 2 /\ e + 1 \in s.left + 1 .. Len(text) + 2 BY <1>1, <1>2
<1>5. t.left = e + 1 /\ t.counter = s.counter + 1 /\ t.fields = f
  <2> HIDE DEF f
  <2> QED BY <1>3
<1> QED BY Zenon, <1>1, <1>4, <1>5 DEF e

\* What the loop reads into field k.
ReadAt(text, g, k) == ParseUint(SubSeq(text, g[k].left, g[k + 1].left - 2), MaxValue[k])

\* After n iterations: all of them counted, or the loop over and nothing changed since the
\* last one that counted; every field up to there read.
TraceInv(text, g, n) ==
  /\ g[n].left \in 1 .. Len(text) + 2
  /\ g[n].counter \in 0 .. n
  /\ g[n].fields = Error \/ IsPacket(g[n].fields)
  /\ Over(text, g[n]) \/ (g[n].counter = n /\ g[n].left > n)
  /\ g[g[n].counter] = g[n]
  /\ \A k \in 0 .. g[n].counter - 1 : ~Over(text, g[k])
  /\ g[n].fields # Error =>
       \A k \in 0 .. g[n].counter - 1 : k < NumFields =>
         g[n].fields[k] = ReadAt(text, g, k) /\ ReadAt(text, g, k) # NoNumber

\* That holds after every number of iterations.
LEMMA LoopInvariant ==
  ASSUME NEW text \in Seq(Int)
  PROVE  \A n \in 0 .. Len(text) : TraceInv(text, Trace(text), n)
<1> DEFINE g == Trace(text)
           B == {n \in 0 .. Len(text) : TraceInv(text, g, n)}
<1>0. Len(text) \in Nat /\ NumFields \in Nat BY ProtocolAssumption
<1>1. g[0] = Start /\ \A n \in 0 .. Len(text) - 1 : g[n + 1] = Iteration(text, g[n])
  BY <1>0, LoopSteps
<1> HIDE DEF g
<1>2. 0 \in B
  <2>1. g[0].left = 1 /\ g[0].counter = 0 /\ IsPacket(g[0].fields)
    BY <1>1 DEF Start, IsPacket
  <2>2. Over(text, g[0]) \/ 1 > 0 OBVIOUS
  <2> QED BY <1>0, <2>1 DEF TraceInv
<1>3. ASSUME NEW n \in 0 .. Len(text) - 1, n \in B PROVE n + 1 \in B
  <2>1. TraceInv(text, g, n) /\ n \in Nat /\ n + 1 \in 0 .. Len(text) BY <1>3
  <2>2. g[n + 1] = Iteration(text, g[n]) BY <1>1
  <2>3. CASE Over(text, g[n])
    <3>1. g[n + 1] = g[n] BY Zenon, <2>2, <2>3 DEF Iteration
    <3>2. \A c : c \in 0 .. n => c \in 0 .. n + 1 BY <2>1
    <3>3. TraceInv(text, g, n + 1) BY Zenon, <2>1, <2>3, <3>1, <3>2 DEF TraceInv
    <3> QED BY <2>1, <3>3
  <2>4. CASE ~Over(text, g[n])
    <3> DEFINE s == g[n]
               u == g[n + 1]
               val == SubSeq(text, s.left, u.left - 2)
    <3>1. s.counter = n /\ s.left > n /\ s.left \in 1 .. Len(text) + 2
      BY Zenon, <2>1, <2>4 DEF TraceInv
    <3>2. /\ s.left \in 1 .. Len(text) /\ s.fields # Error
          /\ u.left \in s.left + 1 .. Len(text) + 2
          /\ u.counter = s.counter + 1
          /\ u.fields = assignField(s.fields, n, val)
      <4>1. u = Iteration(text, s) /\ ~Over(text, s) BY <2>2, <2>4
      <4> HIDE DEF s, u
      <4> QED BY ZenonT(40), <3>1, <4>1, IterationOK
    <3>3. IsPacket(s.fields) BY Zenon, <2>1, <3>2 DEF TraceInv
    <3>4. \A k \in 0 .. n - 1 : k < NumFields =>
            s.fields[k] = ReadAt(text, g, k) /\ ReadAt(text, g, k) # NoNumber
      BY Zenon, <2>1, <3>1, <3>2 DEF TraceInv
    <3>5. ReadAt(text, g, n) = ParseUint(val, MaxValue[n]) BY Zenon DEF ReadAt
    <3>6. \A k \in 0 .. n - 1 : ~Over(text, g[k]) BY Zenon, <2>1, <3>1 DEF TraceInv
    <3> HIDE DEF s, u, val
    <3>7. u.counter = n + 1 /\ u.left > n + 1 /\ u.left \in 1 .. Len(text) + 2
      BY <2>1, <3>1, <3>2
    <3>8. /\ u.fields = Error \/ IsPacket(u.fields)
          /\ u.fields # Error => /\ \A k \in 0 .. NumFields - 1 : k # n => u.fields[k] = s.fields[k]
                                 /\ n < NumFields => u.fields[n] = ParseUint(val, MaxValue[n])
                                                     /\ ParseUint(val, MaxValue[n]) # NoNumber
      <4> DEFINE f == s.fields
                 h == u.fields
      <4>1. IsPacket(f) /\ n \in Nat /\ h = assignField(f, n, val) BY <2>1, <3>2, <3>3
      <4> HIDE DEF f, h
      <4>2. /\ h = Error \/ IsPacket(h)
            /\ h # Error => /\ \A k \in 0 .. NumFields - 1 : k # n => h[k] = f[k]
                            /\ n < NumFields => h[n] = ParseUint(val, MaxValue[n])
                                                /\ ParseUint(val, MaxValue[n]) # NoNumber
        BY <4>1, AssignOK
      <4> QED BY Zenon, <4>2 DEF f, h
    <3>9. \A k \in 0 .. (n + 1) - 1 : ~Over(text, g[k])
      <4>1. \A k \in 0 .. (n + 1) - 1 : k \in 0 .. n - 1 \/ k = n BY <2>1
      <4> QED BY Zenon, <4>1, <3>6, <2>4
    <3>10. ASSUME u.fields # Error, NEW k \in 0 .. (n + 1) - 1, k < NumFields
           PROVE  u.fields[k] = ReadAt(text, g, k) /\ ReadAt(text, g, k) # NoNumber
      <4>1. k \in 0 .. NumFields - 1 /\ (k \in 0 .. n - 1 \/ k = n) BY <1>0, <2>1, <3>10
      <4>2. CASE k = n BY Zenon, <4>2, <3>5, <3>8, <3>10
      <4>3. CASE k # n BY Zenon, <4>1, <4>3, <3>4, <3>8, <3>10
      <4> QED BY <4>2, <4>3
    <3>11. n + 1 \in 0 .. n + 1 BY <2>1
    <3>12. TraceInv(text, g, n + 1)
      BY Zenon, <3>7, <3>8, <3>9, <3>10, <3>11 DEF TraceInv, u
    <3> QED BY <2>1, <3>12
  <2> QED BY <2>3, <2>4
<1> HIDE DEF B
<1>4. \A n \in 0 .. Len(text) : n \in B BY Zenon, <1>0, <1>2, <1>3, UpTo
<1> QED BY <1>4 DEF B, g

-----------------------------------------------------------------------------
\* A cut of a line without spaces around the fields.
TightCut(text, c) ==
  /\ c \in [0 .. NumFields -> 0 .. Len(text) + 1]
  /\ IsCut(text, c)
  /\ c[0] = 0
  /\ c[NumFields] >= Len(text)
  /\ c[NumFields] <= Len(text) => text[c[NumFields]] = Comma

\* When the loop ends well, the places where it went on cut the line.
LEMMA LoopCuts ==
  ASSUME NEW text \in Seq(Int), Loop(text).fields # Error, Loop(text).counter = NumFields
  PROVE  \E c : TightCut(text, c) /\ Loop(text).fields = CutOut(text, c)
<1> DEFINE g == Trace(text)
           N == NumFields
           s == Loop(text)
<1>0. Len(text) \in Nat /\ N \in Nat \ {0} BY ProtocolAssumption
<1>1. /\ g[0] = Start /\ \A n \in 0 .. Len(text) - 1 : g[n + 1] = Iteration(text, g[n])
      /\ s = g[Len(text)]
  BY <1>0, LoopSteps
<1>2. \A n \in 0 .. Len(text) : TraceInv(text, g, n) BY LoopInvariant
<1> HIDE DEF g, s
<1>3. TraceInv(text, g, Len(text)) BY <1>0, <1>2
<1>4. /\ N \in 0 .. Len(text) /\ g[N] = s
      /\ \A k \in 0 .. N - 1 : ~Over(text, g[k])
      /\ \A k \in 0 .. N - 1 : k < N =>
            s.fields[k] = ReadAt(text, g, k) /\ ReadAt(text, g, k) # NoNumber
      /\ IsPacket(s.fields)
      /\ Over(text, s) \/ s.left > Len(text)
  BY Zenon, <1>1, <1>3 DEF TraceInv, s
<1>5. s.left > Len(text) /\ s.left \in 1 .. Len(text) + 2
  <2>1. s.left > Len(text) BY Zenon, <1>4 DEF Over, s
  <2> QED BY Zenon, <2>1, <1>1, <1>3 DEF TraceInv
<1>6. ASSUME NEW k \in 0 .. N - 1
      PROVE  /\ g[k].left \in 1 .. Len(text)
             /\ g[k + 1].left = right(text, g[k].left) + 1
             /\ g[k + 1].left \in g[k].left + 1 .. Len(text) + 2
  <2>1. k \in 0 .. Len(text) /\ k \in 0 .. Len(text) - 1 BY <1>0, <1>4
  <2> DEFINE x == g[k]
             y == g[k + 1]
  <2>2. x.left \in 1 .. Len(text) + 2 /\ ~Over(text, x) /\ y = Iteration(text, x)
    BY Zenon, <1>1, <1>2, <1>4, <2>1 DEF TraceInv
  <2> HIDE DEF x, y
  <2>3. /\ x.left \in 1 .. Len(text) /\ y.left = right(text, x.left) + 1
        /\ y.left \in x.left + 1 .. Len(text) + 2
    BY <2>2, IterationOK
  <2> QED BY Zenon, <2>3 DEF x, y
<1> DEFINE c == [k \in 0 .. N |-> g[k].left - 1]
<1>7. \A k \in 0 .. N : c[k] = g[k].left - 1 OBVIOUS
<1>8. ASSUME NEW k \in 0 .. N PROVE g[k].left \in 1 .. Len(text) + 2
  <2>1. k \in 0 .. Len(text) BY <1>0, <1>4
  <2> QED BY Zenon, <1>2, <2>1 DEF TraceInv
<1>9. c \in [0 .. N -> 0 .. Len(text) + 1] BY <1>0, <1>8
<1> HIDE DEF c
<1>10. g[0].left = 1 BY <1>1 DEF Start
<1>11. c[0] = 0 /\ c[N] = s.left - 1
  <2>1. 0 \in 0 .. N /\ N \in 0 .. N BY <1>0
  <2> QED BY <1>4, <1>7, <1>10, <2>1
<1>12. ASSUME NEW k \in 0 .. N - 1
       PROVE  /\ c[k] < c[k + 1]
              /\ Field(text, c, k) = SubSeq(text, g[k].left, g[k + 1].left - 2)
  <2>1. k \in 0 .. N /\ k + 1 \in 0 .. N BY <1>0
  <2>2. c[k] = g[k].left - 1 /\ c[k + 1] = g[k + 1].left - 1 BY <1>7, <2>1
  <2>3. g[k].left \in Int /\ g[k + 1].left \in Int BY <1>8, <2>1
  <2>4. c[k] + 1 = g[k].left /\ c[k + 1] - 1 = g[k + 1].left - 2 BY <2>2, <2>3
  <2>5. c[k] < c[k + 1]
    <3>1. g[k + 1].left \in g[k].left + 1 .. Len(text) + 2 BY Zenon, <1>6
    <3> QED BY SMTT(30), <2>2, <2>3, <3>1
  <2> QED BY Zenon, <2>4, <2>5 DEF Field
<1>13. ASSUME NEW k \in 0 .. N - 1
       PROVE  ParseUint(Field(text, c, k), MaxValue[k]) = s.fields[k] /\ s.fields[k] # NoNumber
  <2>1. k < N BY <1>0
  <2>2. ParseUint(Field(text, c, k), MaxValue[k]) = ReadAt(text, g, k)
    BY Zenon, <1>12 DEF ReadAt
  <2> QED BY Zenon, <1>4, <2>1, <2>2
<1>14. ASSUME NEW k \in 1 .. N, c[k] <= Len(text) PROVE text[c[k]] = Comma
  <2>1. k - 1 \in 0 .. N - 1 /\ k \in 0 .. N /\ (k - 1) + 1 = k BY <1>0
  <2> DEFINE l == g[k - 1].left
             r == right(text, l)
  <2>2. l \in 1 .. Len(text) /\ g[k].left = r + 1
    BY <1>6, <2>1
  <2> HIDE DEF l
  <2>3. r \in l .. Len(text) + 1 /\ (r <= Len(text) => text[r] = Comma) BY <2>2, RightOK
  <2> HIDE DEF r
  <2>4. c[k] = r BY <1>7, <2>1, <2>2, <2>3
  <2> QED BY <1>14, <2>3, <2>4
<1>15. ASSUME NEW k \in 1 .. N - 1 PROVE text[c[k]] = Comma
  <2>1. k \in 0 .. N - 1 /\ k \in 1 .. N /\ k \in 0 .. N BY <1>0
  <2>2. g[k].left \in 1 .. Len(text) BY <1>6, <2>1
  <2>3. c[k] <= Len(text) BY <1>7, <2>1, <2>2
  <2> QED BY <1>14, <2>1, <2>3
<1>16. c[N] >= Len(text) /\ (c[N] <= Len(text) => text[c[N]] = Comma)
  <2>1. N \in 1 .. N BY <1>0
  <2>2. c[N] >= Len(text) BY <1>5, <1>11
  <2> QED BY <1>14, <2>1, <2>2
<1>17. IsCut(text, c)
  <2>1. \A i \in 1 .. c[0] : text[i] = Space BY <1>11
  <2>2. c[N] \in Int BY <1>5, <1>11
  <2>3. \A i \in c[N] + 1 .. Len(text) : text[i] = Space BY <1>0, <1>16, <2>2
  <2>4. \A k \in 0 .. N - 1 : c[k] < c[k + 1] /\ ParseUint(Field(text, c, k), MaxValue[k]) # NoNumber
    BY Zenon, <1>12, <1>13
  <2> QED BY Zenon, <1>15, <1>16, <2>1, <2>3, <2>4 DEF IsCut
<1>18. s.fields = CutOut(text, c)
  <2>1. s.fields = [k \in 0 .. N - 1 |-> s.fields[k]] BY Zenon, <1>4 DEF IsPacket
  <2>2. \A k \in 0 .. N - 1 : s.fields[k] = ParseUint(Field(text, c, k), MaxValue[k])
    BY Zenon, <1>13
  <2> QED BY Zenon, <2>1, <2>2 DEF CutOut
<1>19. TightCut(text, c) BY Zenon, <1>9, <1>11, <1>16, <1>17 DEF TightCut
<1> QED BY Zenon, <1>18, <1>19 DEF s

\* The loop goes along any cut.
LEMMA LoopFollows ==
  ASSUME NEW text \in Seq(Int), NEW c, TightCut(text, c)
  PROVE  /\ Loop(text).counter = NumFields
         /\ Loop(text).fields = CutOut(text, c)
<1> DEFINE g == Trace(text)
           N == NumFields
           v(k) == ParseUint(Field(text, c, k), MaxValue[k])
           Follows(k) == /\ k <= Len(text) /\ 2 * k <= c[k]
                         /\ g[k].left = c[k] + 1 /\ g[k].counter = k
                         /\ IsPacket(g[k].fields)
                         /\ \A j \in 0 .. k - 1 : g[k].fields[j] = v(j)
           B == {k \in 0 .. N : Follows(k)}
<1>0. Len(text) \in Nat /\ N \in Nat \ {0} BY ProtocolAssumption
<1>1. /\ g[0] = Start /\ \A n \in 0 .. Len(text) - 1 : g[n + 1] = Iteration(text, g[n])
      /\ Loop(text) = g[Len(text)]
  BY <1>0, LoopSteps
<1>2. \A n \in 0 .. Len(text) : TraceInv(text, g, n) BY LoopInvariant
<1> HIDE DEF g
<1>3. /\ c \in [0 .. N -> 0 .. Len(text) + 1] /\ c[0] = 0
      /\ c[N] >= Len(text) /\ (c[N] <= Len(text) => text[c[N]] = Comma)
      /\ \A k \in 0 .. N - 1 : c[k] < c[k + 1] /\ v(k) # NoNumber
      /\ \A k \in 1 .. N - 1 : text[c[k]] = Comma
  BY Zenon DEF TightCut, IsCut
<1>4. ASSUME NEW k \in 0 .. N - 1
      PROVE  /\ c[k] \in 0 .. Len(text) + 1 /\ c[k + 1] \in 0 .. Len(text) + 1
             /\ c[k] + 2 <= c[k + 1]
             /\ \A p \in c[k] + 1 .. c[k + 1] - 1 : text[p] # Comma
             /\ c[k + 1] <= Len(text) => text[c[k + 1]] = Comma
  <2>1. k \in 0 .. N /\ k + 1 \in 0 .. N /\ (k + 1 = N \/ k + 1 \in 1 .. N - 1) BY <1>0
  <2>2. c[k] \in 0 .. Len(text) + 1 /\ c[k + 1] \in 0 .. Len(text) + 1 BY Zenon, <1>3, <2>1
  <2>3. c[k] < c[k + 1] BY <1>3
  <2> DEFINE i == c[k] + 1
             j == c[k + 1] - 1
  <2>4. i \in Nat \ {0} /\ j \in Nat /\ j <= Len(text) BY <1>0, <2>2, <2>3
  <2>5. ParseUint(SubSeq(text, i, j), MaxValue[k]) # NoNumber BY Zenon, <1>3 DEF Field
  <2>6. i <= j /\ \A p \in i .. j : text[p] # Comma
    <3> HIDE DEF i, j
    <3> QED BY <2>4, <2>5, NumberText
  <2>7. c[k] + 2 <= c[k + 1] BY <2>2, <2>6
  <2>8. c[k + 1] <= Len(text) => text[c[k + 1]] = Comma BY Zenon, <1>3, <2>1
  <2> QED BY Zenon, <2>2, <2>6, <2>7, <2>8
<1>5. 0 \in B
  <2>1. g[0].left = 1 /\ g[0].counter = 0 /\ IsPacket(g[0].fields)
    BY <1>1 DEF Start, IsPacket
  <2> QED BY <1>0, <1>3, <2>1
<1>6. ASSUME NEW k \in 0 .. N, Follows(k), k # N PROVE ~Over(text, g[k])
  <2>1. k \in 0 .. N - 1 BY <1>0, <1>6
  <2>2. c[k] + 1 <= Len(text)
    <3>1. c[k] \in 0 .. Len(text) + 1 /\ c[k + 1] \in 0 .. Len(text) + 1 /\ c[k] + 2 <= c[k + 1]
      BY Zenon, <1>4, <2>1
    <3> QED BY SMTT(30), <1>0, <3>1
  <2>3. g[k].left <= Len(text) /\ g[k].left \in Int BY SMTT(20), <1>4, <1>6, <2>1, <2>2
  <2>4. g[k].fields # Error BY <1>6, PacketIsNoError
  <2> QED BY SMTT(30), <1>0, <2>3, <2>4 DEF Over
<1>7. ASSUME NEW k \in 0 .. N - 1, k \in B PROVE k + 1 \in B
  <2> DEFINE s == g[k]
             u == g[k + 1]
             val == SubSeq(text, s.left, u.left - 2)
  <2>0. k \in 0 .. N /\ k \in Nat /\ k + 1 \in 0 .. N /\ k # N BY SMTT(20), <1>0
  <2>1. /\ k <= Len(text) /\ 2 * k <= c[k] /\ s.left = c[k] + 1 /\ s.counter = k
        /\ IsPacket(s.fields) /\ \A j \in 0 .. k - 1 : s.fields[j] = v(j)
    BY Zenon, <1>7
  <2>2. ~Over(text, s) BY Zenon, <1>6, <1>7, <2>0
  <2>3. /\ c[k] \in 0 .. Len(text) + 1 /\ c[k + 1] \in 0 .. Len(text) + 1
        /\ c[k] + 2 <= c[k + 1]
        /\ \A p \in c[k] + 1 .. c[k + 1] - 1 : text[p] # Comma
        /\ c[k + 1] <= Len(text) => text[c[k + 1]] = Comma
    BY Zenon, <1>4
  <2> DEFINE x == c[k]
             y == c[k + 1]
  <2>4. k + 1 <= Len(text) /\ 2 * (k + 1) <= y /\ k \in 0 .. Len(text) - 1
    <3>1. /\ Len(text) \in Nat /\ k \in Nat /\ 2 * k <= x
          /\ x \in 0 .. Len(text) + 1 /\ y \in 0 .. Len(text) + 1 /\ x + 2 <= y
      BY Zenon, <1>0, <2>0, <2>1, <2>3
    <3> HIDE DEF x, y
    <3> QED BY <3>1
  <2>5. u = Iteration(text, s) BY <1>1, <2>4
  <2> HIDE DEF s, u
  <2>6. s.left \in 1 .. Len(text) + 2 BY SMTT(20), <1>0, <2>1, <2>3
  <2>7. /\ s.left \in 1 .. Len(text) /\ u.left = right(text, s.left) + 1
        /\ u.counter = k + 1 /\ u.fields = assignField(s.fields, k, val)
    BY ZenonT(40), <2>1, <2>2, <2>5, <2>6, IterationOK
  <2>8. right(text, s.left) = c[k + 1]
    <3>1. c[k + 1] \in s.left .. Len(text) + 1 BY SMTT(20), <1>0, <2>1, <2>3
    <3>2. \A p \in s.left .. c[k + 1] - 1 : text[p] # Comma BY Zenon, <2>1, <2>3
    <3> DEFINE l == s.left
    <3>3. /\ l \in 1 .. Len(text) /\ y \in l .. Len(text) + 1
          /\ (y <= Len(text) => text[y] = Comma) /\ \A p \in l .. y - 1 : text[p] # Comma
      BY Zenon, <2>3, <2>7, <3>1, <3>2
    <3> HIDE DEF l, y
    <3>4. right(text, l) = y BY <3>3, RightIs
    <3> QED BY Zenon, <3>4 DEF l, y
  <2>9. u.left = c[k + 1] + 1 /\ u.left - 2 = c[k + 1] - 1 BY SMTT(20), <2>3, <2>7, <2>8
  <2>10. ParseUint(val, MaxValue[k]) = v(k) /\ v(k) # NoNumber
    BY Zenon, <1>3, <2>1, <2>9 DEF Field
  <2> HIDE DEF val, v
  <2> DEFINE f == s.fields
             h == u.fields
  <2>11. IsPacket(f) /\ h = assignField(f, k, val) BY Zenon, <2>1, <2>7
  <2> HIDE DEF f, h
  <2>12. IsPacket(h) BY <2>0, <2>10, <2>11, AssignOK
  <2>13. h # Error BY <2>12, PacketIsNoError
  <2>14. /\ \A j \in 0 .. N - 1 : j # k => h[j] = f[j]
         /\ k < N => h[k] = ParseUint(val, MaxValue[k])
    BY <2>0, <2>11, <2>13, AssignOK
  <2>15. ASSUME NEW j \in 0 .. (k + 1) - 1 PROVE h[j] = v(j)
    <3>1. j = k \/ (j \in 0 .. k - 1 /\ j \in 0 .. N - 1 /\ j # k) BY <1>0, <2>0
    <3>2. CASE j = k
      <4>1. k < N BY <1>0
      <4> QED BY Zenon, <3>2, <4>1, <2>10, <2>14
    <3>3. CASE j # k BY Zenon, <3>1, <3>3, <2>1, <2>14 DEF f
    <3> QED BY <3>2, <3>3
  <2>16. Follows(k + 1) BY Zenon, <2>4, <2>7, <2>9, <2>12, <2>15 DEF h, u
  <2> QED BY Zenon, <2>0, <2>16
<1> HIDE DEF v
<1>8. \A k \in 0 .. N : k \in B
  <2> HIDE DEF B
  <2> QED BY ZenonT(40), <1>0, <1>5, <1>7, UpTo
<1>9. \A k \in 0 .. N : Follows(k) BY Zenon, <1>8
<1>10. Follows(N) /\ N \in 0 .. N BY <1>0, <1>9
<1>11. Over(text, g[N]) BY <1>0, <1>3, <1>10 DEF Over
<1> DEFINE m == g[Len(text)].counter
<1>12. /\ m \in 0 .. Len(text) /\ g[m] = g[Len(text)]
       /\ \A k \in 0 .. m - 1 : ~Over(text, g[k])
       /\ Over(text, g[Len(text)]) \/ g[Len(text)].left > Len(text)
  <2>1. TraceInv(text, g, Len(text)) BY <1>0, <1>2
  <2> QED BY Zenon, <2>1 DEF TraceInv
<1>13. Over(text, g[m]) BY Zenon, <1>12 DEF Over
<1> HIDE DEF m
<1>14. m = N
  <2>1. CASE m < N
    <3>1. m \in 0 .. N /\ m # N BY <1>0, <1>12, <2>1
    <3> HIDE DEF Follows
    <3> QED BY <1>6, <1>9, <1>13, <3>1
  <2>2. CASE m > N
    <3>1. N \in 0 .. m - 1 BY <1>0, <1>12, <2>2
    <3> QED BY Zenon, <1>11, <1>12, <3>1
  <2> QED BY <1>0, <1>12, <2>1, <2>2
<1>15. Loop(text) = g[N] BY Zenon, <1>1, <1>12, <1>14
<1>16. g[N].fields = CutOut(text, c)
  <2> DEFINE f == g[N].fields
  <2>1. f = [k \in 0 .. N - 1 |-> f[k]] BY Zenon, <1>10 DEF IsPacket
  <2>2. \A k \in 0 .. N - 1 : f[k] = ParseUint(Field(text, c, k), MaxValue[k])
    BY Zenon, <1>10 DEF v
  <2> HIDE DEF f
  <2>3. f = CutOut(text, c) BY Zenon, <2>1, <2>2 DEF CutOut
  <2> QED BY <2>3 DEF f
<1>17. g[N].counter = N BY Zenon, <1>10
<1> QED BY Zenon, <1>15, <1>16, <1>17

\* Numbers that grow from each to the next grow altogether.
LEMMA Growing ==
  ASSUME NEW N \in Nat, NEW c \in [0 .. N -> Int], \A k \in 0 .. N - 1 : c[k] < c[k + 1]
  PROVE  \A k \in 0 .. N : \A j \in 0 .. k : c[j] <= c[k]
<1> DEFINE B == {k \in 0 .. N : \A j \in 0 .. k : c[j] <= c[k]}
<1>1. 0 \in B OBVIOUS
<1>2. ASSUME NEW k \in 0 .. N - 1, k \in B PROVE k + 1 \in B
  <2>1. \A j \in 0 .. k : c[j] <= c[k] BY <1>2
  <2>2. k \in 0 .. N /\ k + 1 \in 0 .. N /\ c[k] < c[k + 1] OBVIOUS
  <2>3. ASSUME NEW j \in 0 .. k + 1 PROVE c[j] <= c[k + 1]
    <3>1. j \in 0 .. N /\ (j = k + 1 \/ j \in 0 .. k) OBVIOUS
    <3>2. c[j] \in Int /\ c[k] \in Int /\ c[k + 1] \in Int BY <2>2, <3>1
    <3> QED BY <2>1, <2>2, <3>1, <3>2
  <2> QED BY Zenon, <2>2, <2>3
<1>3. \A k \in 0 .. N : k \in B
  <2> HIDE DEF B
  <2> QED BY Zenon, <1>1, <1>2, UpTo
<1> QED BY <1>3

\* A part of a line, and the part between its first and its last character but spaces.
IsPart(part, text, d, b) ==
  d \in Nat /\ b \in Nat /\ d < b /\ b <= Len(text) /\ part = SubSeq(text, d + 1, b)
IsTrimmed(part, text, d, b) ==
  /\ IsPart(part, text, d, b)
  /\ text[d + 1] # Space /\ text[b] # Space
  /\ \A i \in 1 .. Len(text) : i < d + 1 \/ i > b => text[i] = Space

\* Places in the part and the same places counted in the whole line, places in their order,
\* and fields that are the same in both.
SamePlaces(c, cut, d) ==
  /\ c \in [0 .. NumFields -> Int] /\ cut \in [0 .. NumFields -> Int]
  /\ \A k \in 0 .. NumFields : cut[k] = c[k] + d
Grow(c) == \A k \in 0 .. NumFields - 1 : c[k] < c[k + 1]
SameCut(part, c, text, cut) ==
  /\ \A k \in 1 .. NumFields - 1 : part[c[k]] = text[cut[k]]
  /\ \A k \in 0 .. NumFields - 1 : Field(part, c, k) = Field(text, cut, k)
  /\ CutOut(part, c) = CutOut(text, cut)

\* What a part is.
LEMMA PartIs ==
  ASSUME NEW text \in Seq(Int), NEW d, NEW b, NEW part, IsPart(part, text, d, b)
  PROVE  /\ d \in Nat /\ b \in Nat /\ d < b /\ b <= Len(text) /\ Len(text) \in Nat
         /\ part \in Seq(Int) /\ Len(part) = b - d
         /\ \A n \in 1 .. b - d : part[n] = text[n + d]
BY DEF IsPart

\* The same places cut the same fields out of the part and out of the line.
LEMMA SameFields ==
  ASSUME NEW text \in Seq(Int), NEW d, NEW b, NEW part, IsPart(part, text, d, b),
         NEW c, NEW cut, SamePlaces(c, cut, d), Grow(c),
         c[0] >= 0, c[NumFields] <= b - d + 1
  PROVE  /\ \A k \in 0 .. NumFields : c[k] \in 0 .. b - d + 1
         /\ SameCut(part, c, text, cut)
<1> DEFINE N == NumFields
<1>0. /\ N \in Nat \ {0} /\ d \in Nat /\ b \in Nat /\ d < b
  BY ProtocolAssumption DEF IsPart
<1>1. \A n \in 1 .. b - d : part[n] = text[n + d] BY PartIs
<1>2. \A k \in 0 .. N : \A j \in 0 .. k : c[j] <= c[k]
  BY Zenon, <1>0, Growing DEF SamePlaces, Grow
<1>3. ASSUME NEW k \in 0 .. N PROVE c[k] \in 0 .. b - d + 1
  <2>1. 0 \in 0 .. k /\ 0 \in 0 .. N /\ N \in 0 .. N /\ k \in 0 .. N BY <1>0
  <2>2. c[0] \in Int /\ c[k] \in Int /\ c[N] \in Int BY Zenon, <2>1 DEF SamePlaces
  <2>3. c[0] <= c[k] /\ c[k] <= c[N] BY Zenon, <1>2, <2>1
  <2> QED BY <1>0, <2>2, <2>3
<1>4. ASSUME NEW k \in 1 .. N - 1 PROVE part[c[k]] = text[cut[k]]
  <2>1. k \in 0 .. N /\ k - 1 \in 0 .. N - 1 /\ k - 1 \in 0 .. N /\ k + 1 \in 0 .. N
        /\ k \in 0 .. N - 1 /\ (k - 1) + 1 = k BY <1>0
  <2>2. c[k - 1] \in 0 .. b - d + 1 /\ c[k] \in 0 .. b - d + 1 /\ c[k + 1] \in 0 .. b - d + 1
    BY Zenon, <1>3, <2>1
  <2>3. c[k - 1] < c[(k - 1) + 1] /\ c[k] < c[k + 1] BY Zenon, <2>1 DEF Grow
  <2>4. c[k - 1] < c[k] BY Zenon, <2>1, <2>3
  <2>5. c[k] \in 1 .. b - d BY <1>0, <2>2, <2>3, <2>4
  <2>6. cut[k] = c[k] + d BY Zenon, <2>1 DEF SamePlaces
  <2> QED BY Zenon, <1>1, <2>5, <2>6
<1>5. ASSUME NEW k \in 0 .. N - 1 PROVE Field(part, c, k) = Field(text, cut, k)
  <2>1. k \in 0 .. N /\ k + 1 \in 0 .. N BY <1>0
  <2>2. c[k] \in 0 .. b - d + 1 /\ c[k + 1] \in 0 .. b - d + 1 /\ c[k] < c[k + 1]
    BY Zenon, <1>3, <2>1 DEF Grow
  <2> DEFINE x == c[k]
             y == c[k + 1]
             i == x + 1
             j == y - 1
  <2>3. x \in 0 .. b - d + 1 /\ y \in 0 .. b - d + 1 /\ x < y BY Zenon, <2>2
  <2>4. cut[k] = x + d /\ cut[k + 1] = y + d BY Zenon, <2>1 DEF SamePlaces
  <2> HIDE DEF x, y
  <2>5. /\ i \in Nat \ {0} /\ j \in Nat /\ j <= b - d
        /\ cut[k] + 1 = i + d /\ cut[k + 1] - 1 = j + d
    BY <1>0, <2>3, <2>4
  <2>6. SubSeq(part, i, j) = SubSeq(text, i + d, j + d)
    <3> HIDE DEF i, j
    <3>1. d <= b /\ b <= Len(text) /\ part = SubSeq(text, d + 1, b) BY <1>0 DEF IsPart
    <3>2. SubSeq(SubSeq(text, d + 1, b), i, j) = SubSeq(text, i + d, j + d)
      BY <1>0, <2>5, <3>1, PartOfPart
    <3> QED BY Zenon, <3>1, <3>2
  <2> QED BY Zenon, <2>5, <2>6 DEF Field, x, y
<1>6. CutOut(part, c) = CutOut(text, cut) BY Zenon, <1>5 DEF CutOut
<1> QED BY Zenon, <1>3, <1>4, <1>5, <1>6 DEF SameCut

\* The fields of a cut hold characters, and begin and end with one that is no space.
LEMMA CutFields ==
  ASSUME NEW text \in Seq(Int), NEW cut \in [0 .. NumFields -> 0 .. Len(text) + 1],
         IsCut(text, cut), NEW k \in 0 .. NumFields - 1
  PROVE  /\ cut[k] \in 0 .. Len(text) + 1 /\ cut[k + 1] \in 0 .. Len(text) + 1
         /\ cut[k] + 1 <= cut[k + 1] - 1
         /\ cut[k] + 1 \in 1 .. Len(text) /\ cut[k + 1] - 1 \in 1 .. Len(text)
         /\ text[cut[k] + 1] # Space /\ text[cut[k + 1] - 1] # Space
<1>0. NumFields \in Nat /\ Len(text) \in Nat BY ProtocolAssumption
<1>1. k \in 0 .. NumFields /\ k + 1 \in 0 .. NumFields BY <1>0
<1>2. cut[k] \in 0 .. Len(text) + 1 /\ cut[k + 1] \in 0 .. Len(text) + 1 /\ cut[k] < cut[k + 1]
  BY Zenon, <1>1 DEF IsCut
<1> DEFINE i == cut[k] + 1
           j == cut[k + 1] - 1
<1>3. i \in Nat \ {0} /\ j \in Nat /\ j <= Len(text) BY <1>0, <1>2
<1>4. ParseUint(SubSeq(text, i, j), MaxValue[k]) # NoNumber BY Zenon DEF IsCut, Field
<1>5. /\ i <= j /\ i \in 1 .. Len(text) /\ j \in 1 .. Len(text)
      /\ text[i] # Space /\ text[j] # Space
  <2> HIDE DEF i, j
  <2>1. i <= j /\ \A p \in i .. j : text[p] # Space BY <1>3, <1>4, NumberText
  <2>2. i \in i .. j /\ j \in i .. j /\ i \in 1 .. Len(text) /\ j \in 1 .. Len(text)
    BY <1>0, <1>3, <2>1
  <2> QED BY Zenon, <2>1, <2>2
<1> QED BY Zenon, <1>2, <1>5

\* A cut of a line is one of its trimmed part.
LEMMA CutOfTrimmed ==
  ASSUME NEW text \in Seq(Int), NEW d, NEW b, NEW part, IsTrimmed(part, text, d, b),
         NEW cut \in [0 .. NumFields -> 0 .. Len(text) + 1], IsCut(text, cut)
  PROVE  \E c : TightCut(part, c) /\ CutOut(part, c) = CutOut(text, cut)
<1> DEFINE N == NumFields
           c == [k \in 0 .. N |-> cut[k] - d]
<1>0. /\ N \in Nat \ {0} /\ 0 \in 0 .. N - 1 /\ 0 \in 0 .. N /\ N \in 0 .. N
      /\ N - 1 \in 0 .. N - 1 /\ (N - 1) + 1 = N /\ 0 + 1 = 1
  BY ProtocolAssumption
<1>1. /\ d \in Nat /\ b \in Nat /\ d < b /\ b <= Len(text) /\ Len(text) \in Nat
      /\ Len(part) = b - d
  <2>1. IsPart(part, text, d, b) BY DEF IsTrimmed
  <2> QED BY <2>1, PartIs
<1>2. part[b - d] = text[b]
  <2>1. IsPart(part, text, d, b) BY DEF IsTrimmed
  <2>2. \A n \in 1 .. b - d : part[n] = text[n + d] BY <2>1, PartIs
  <2>3. b - d \in 1 .. b - d /\ (b - d) + d = b BY <1>1
  <2> QED BY Zenon, <2>2, <2>3
<1>3. cut[0] = d
  <2> DEFINE x == cut[0]
  <2>1. x \in 0 .. Len(text) + 1 /\ x + 1 \in 1 .. Len(text) /\ text[x + 1] # Space
    BY Zenon, <1>0, CutFields
  <2>2. x \in Nat BY <1>1, <2>1
  <2>3. ~(x + 1 < d + 1) BY Zenon, <2>1 DEF IsTrimmed
  <2>4. ~(d + 1 \in 1 .. x) BY Zenon DEF IsTrimmed, IsCut
  <2> HIDE DEF x
  <2>5. x = d BY <1>1, <2>2, <2>3, <2>4
  <2> QED BY <2>5 DEF x
<1>4. cut[N] \in {b, b + 1} /\ (cut[N] = b => text[b] = Comma)
  <2> DEFINE x == cut[N]
  <2>1. x \in 0 .. Len(text) + 1 /\ x - 1 \in 1 .. Len(text) /\ text[x - 1] # Space
    <3>1. /\ cut[(N - 1) + 1] \in 0 .. Len(text) + 1
          /\ cut[(N - 1) + 1] - 1 \in 1 .. Len(text) /\ text[cut[(N - 1) + 1] - 1] # Space
      BY Zenon, <1>0, CutFields
    <3> QED BY Zenon, <1>0, <3>1
  <2>2. x \in Nat BY <1>1, <2>1
  <2>3. ~(x - 1 > b) BY Zenon, <2>1 DEF IsTrimmed
  <2>4. ~(b \in x + 1 .. Len(text)) BY Zenon DEF IsTrimmed, IsCut
  <2>5. x <= Len(text) => text[x] \in {Comma, Space} BY Zenon DEF IsCut
  <2>6. text[b] # Space BY Zenon DEF IsTrimmed
  <2> HIDE DEF x
  <2>7. x = b \/ x = b + 1 BY <1>1, <2>2, <2>3, <2>4
  <2>8. x = b => text[b] = Comma BY Zenon, <1>1, <2>5, <2>6
  <2> QED BY Zenon, <2>7, <2>8 DEF x
<1>5. ASSUME NEW k \in 0 .. N PROVE cut[k] \in Int /\ c[k] \in Int /\ cut[k] = c[k] + d
  <2>1. cut[k] \in 0 .. Len(text) + 1 /\ c[k] = cut[k] - d OBVIOUS
  <2> HIDE DEF c
  <2> QED BY <1>1, <2>1
<1>6. SamePlaces(c, cut, d)
  <2>1. c \in [0 .. N -> Int]
    <3>1. c = [k \in 0 .. N |-> c[k]] OBVIOUS
    <3> HIDE DEF c
    <3> QED BY <1>5, <3>1
  <2>2. cut \in [0 .. N -> Int]
    <3>1. cut = [k \in 0 .. N |-> cut[k]] BY Zenon
    <3> HIDE DEF c
    <3> QED BY <1>5, <3>1
  <2> HIDE DEF c
  <2> QED BY Zenon, <1>5, <2>1, <2>2 DEF SamePlaces
<1> HIDE DEF c
<1>7. c[0] = 0
  <2> DEFINE x == c[0]
  <2>1. d = x + d /\ x \in Int /\ d \in Nat BY Zenon, <1>0, <1>1, <1>3, <1>5
  <2> HIDE DEF x
  <2>2. x = 0 BY <2>1
  <2> QED BY <2>2 DEF x
<1>8. c[N] \in {b - d, b - d + 1} /\ (c[N] = b - d => cut[N] = b)
  <2> DEFINE x == c[N]
             y == cut[N]
  <2>1. y = x + d /\ x \in Int /\ d \in Nat /\ b \in Nat /\ (y = b \/ y = b + 1)
    BY Zenon, <1>0, <1>1, <1>4, <1>5
  <2> HIDE DEF x, y
  <2>2. (x = b - d \/ x = b - d + 1) /\ (x = b - d => y = b) BY <2>1
  <2> QED BY Zenon, <2>2 DEF x, y
<1>9. Grow(c)
  <2> SUFFICES ASSUME NEW k \in 0 .. N - 1 PROVE c[k] < c[k + 1] BY DEF Grow
  <2>1. k \in 0 .. N /\ k + 1 \in 0 .. N BY <1>0
  <2>2. cut[k] < cut[k + 1] BY Zenon DEF IsCut
  <2>3. /\ c[k] \in Int /\ cut[k] = c[k] + d
        /\ c[k + 1] \in Int /\ cut[k + 1] = c[k + 1] + d
    BY Zenon, <1>5, <2>1
  <2> QED BY <1>1, <2>2, <2>3
<1>10. c[0] >= 0 /\ c[N] <= b - d + 1 BY <1>1, <1>7, <1>8
<1>11. (\A k \in 0 .. N : c[k] \in 0 .. b - d + 1) /\ SameCut(part, c, text, cut)
  <2>1. IsPart(part, text, d, b) BY Zenon DEF IsTrimmed
  <2> QED BY <1>6, <1>9, <1>10, <2>1, SameFields
<1>12. c \in [0 .. N -> 0 .. Len(part) + 1]
  <2>1. c = [k \in 0 .. N |-> c[k]] BY Zenon, <1>6 DEF SamePlaces
  <2> QED BY Zenon, <1>1, <1>11, <2>1
<1>13. c[N] >= Len(part) /\ (c[N] <= Len(part) => c[N] = b - d) BY <1>1, <1>8
<1>14. c[N] <= Len(part) => part[c[N]] = Comma BY Zenon, <1>2, <1>4, <1>8, <1>13
<1>15. IsCut(part, c)
  <2>1. \A k \in 0 .. N - 1 : ParseUint(Field(part, c, k), MaxValue[k]) # NoNumber
    BY Zenon, <1>11 DEF IsCut, SameCut
  <2>2. \A k \in 1 .. N - 1 : part[c[k]] = Comma BY Zenon, <1>11 DEF IsCut, SameCut
  <2>3. \A i \in 1 .. c[0] : part[i] = Space BY <1>7
  <2>4. \A i \in c[N] + 1 .. Len(part) : part[i] = Space BY <1>1, <1>8
  <2>5. \A k \in 0 .. N - 1 : c[k] < c[k + 1] BY Zenon, <1>9 DEF Grow
  <2> QED BY Zenon, <1>14, <2>1, <2>2, <2>3, <2>4, <2>5 DEF IsCut
<1>16. TightCut(part, c) BY Zenon, <1>7, <1>12, <1>13, <1>14, <1>15 DEF TightCut
<1> QED BY Zenon, <1>11, <1>16 DEF SameCut

\* A cut of the trimmed part of a line is one of the line.
LEMMA CutOfLine ==
  ASSUME NEW text \in Seq(Int), NEW d, NEW b, NEW part, IsTrimmed(part, text, d, b),
         NEW c, TightCut(part, c)
  PROVE  \E cut \in [0 .. NumFields -> 0 .. Len(text) + 1] :
           IsCut(text, cut) /\ CutOut(part, c) = CutOut(text, cut)
<1> DEFINE N == NumFields
           cut == [k \in 0 .. N |-> c[k] + d]
<1>0. N \in Nat \ {0} /\ 0 \in 0 .. N /\ N \in 0 .. N BY ProtocolAssumption
<1>1. /\ d \in Nat /\ b \in Nat /\ d < b /\ b <= Len(text) /\ Len(text) \in Nat
      /\ Len(part) = b - d
  <2>1. IsPart(part, text, d, b) BY DEF IsTrimmed
  <2> QED BY <2>1, PartIs
<1>2. part[b - d] = text[b]
  <2>1. IsPart(part, text, d, b) BY DEF IsTrimmed
  <2>2. \A n \in 1 .. b - d : part[n] = text[n + d] BY <2>1, PartIs
  <2>3. b - d \in 1 .. b - d /\ (b - d) + d = b BY <1>1
  <2> QED BY Zenon, <2>2, <2>3
<1>3. /\ c \in [0 .. N -> 0 .. Len(part) + 1] /\ c[0] = 0 /\ c[N] >= Len(part)
      /\ c[N] <= Len(part) => part[c[N]] = Comma
      /\ IsCut(part, c)
  BY Zenon DEF TightCut
<1>4. ASSUME NEW k \in 0 .. N
      PROVE  c[k] \in Int /\ cut[k] = c[k] + d /\ cut[k] \in 0 .. Len(text) + 1
  <2>1. c[k] \in 0 .. Len(part) + 1 BY Zenon, <1>3
  <2>2. cut[k] = c[k] + d OBVIOUS
  <2> HIDE DEF cut
  <2> QED BY <1>1, <2>1, <2>2
<1>5. cut = [k \in 0 .. N |-> cut[k]] OBVIOUS
<1> HIDE DEF cut
<1>6. cut \in [0 .. N -> 0 .. Len(text) + 1] /\ cut \in [0 .. N -> Int]
  <2>1. \A k \in 0 .. N : cut[k] \in 0 .. Len(text) + 1 /\ cut[k] \in Int BY <1>1, <1>4
  <2> QED BY Zenon, <1>5, <2>1
<1>7. SamePlaces(c, cut, d)
  <2>1. c = [k \in 0 .. N |-> c[k]] BY Zenon, <1>3
  <2>2. c \in [0 .. N -> Int] BY Zenon, <1>4, <2>1
  <2> QED BY Zenon, <1>4, <1>6, <2>2 DEF SamePlaces
<1>8. Grow(c) BY Zenon, <1>3 DEF Grow, IsCut
<1>9. c[N] \in {b - d, b - d + 1}
  <2>1. c[N] \in 0 .. Len(part) + 1 BY Zenon, <1>0, <1>3
  <2> QED BY <1>1, <1>3, <2>1
<1>10. c[0] >= 0 /\ c[N] <= b - d + 1 BY <1>1, <1>3, <1>9
<1>11. SameCut(part, c, text, cut)
  <2>1. IsPart(part, text, d, b) BY Zenon DEF IsTrimmed
  <2> QED BY <1>7, <1>8, <1>10, <2>1, SameFields
<1>12. cut[0] = d /\ cut[N] = c[N] + d
  <2>1. cut[0] = c[0] + d /\ cut[N] = c[N] + d BY Zenon, <1>0, <1>4
  <2> QED BY <1>1, <1>3, <2>1
<1>13. \A i \in 1 .. Len(text) : i < d + 1 \/ i > b => text[i] = Space
  BY Zenon DEF IsTrimmed
<1>14. IsCut(text, cut)
  <2>1. \A k \in 0 .. N - 1 : ParseUint(Field(text, cut, k), MaxValue[k]) # NoNumber
    BY Zenon, <1>3, <1>11 DEF IsCut, SameCut
  <2>2. \A k \in 1 .. N - 1 : text[cut[k]] = Comma BY Zenon, <1>3, <1>11 DEF IsCut, SameCut
  <2>3. \A i \in 1 .. cut[0] : text[i] = Space
    <3> SUFFICES ASSUME NEW i \in 1 .. cut[0] PROVE text[i] = Space OBVIOUS
    <3>1. i \in 1 .. Len(text) /\ i < d + 1 BY <1>1, <1>12
    <3> QED BY Zenon, <1>13, <3>1
  <2>4. \A i \in cut[N] + 1 .. Len(text) : text[i] = Space
    <3> SUFFICES ASSUME NEW i \in cut[N] + 1 .. Len(text) PROVE text[i] = Space OBVIOUS
    <3>1. i \in 1 .. Len(text) /\ i > b BY SMTT(20), <1>1, <1>9, <1>12
    <3> QED BY Zenon, <1>13, <3>1
  <2>5. cut[N] <= Len(text) => text[cut[N]] \in {Comma, Space}
    <3>1. CASE c[N] = b - d
      <4>1. cut[N] = b /\ c[N] <= Len(part) BY <1>1, <1>12, <3>1
      <4> QED BY Zenon, <1>2, <1>3, <3>1, <4>1
    <3>2. CASE c[N] = b - d + 1
      <4>1. cut[N] = b + 1 /\ (cut[N] <= Len(text) => cut[N] \in 1 .. Len(text)) /\ cut[N] > b
        BY <1>1, <1>12, <3>2
      <4> QED BY Zenon, <1>13, <4>1
    <3> QED BY <1>9, <3>1, <3>2
  <2>6. \A k \in 0 .. N - 1 : cut[k] < cut[k + 1]
    <3> SUFFICES ASSUME NEW k \in 0 .. N - 1 PROVE cut[k] < cut[k + 1] OBVIOUS
    <3>1. k \in 0 .. N /\ k + 1 \in 0 .. N BY <1>0
    <3>2. c[k] < c[k + 1] BY Zenon, <1>8 DEF Grow
    <3>3. /\ c[k] \in Int /\ cut[k] = c[k] + d
          /\ c[k + 1] \in Int /\ cut[k + 1] = c[k + 1] + d
      BY Zenon, <1>4, <3>1
    <3> QED BY <1>1, <3>2, <3>3
  <2> QED BY Zenon, <2>1, <2>2, <2>3, <2>4, <2>5, <2>6 DEF IsCut
<1> QED BY Zenon, <1>6, <1>11, <1>14 DEF SameCut

\* ParseCSV gives every line, of any length, the one meaning that the format gives it, and
\* refuses exactly the lines that have none.
THEOREM ParserCorrect == ASSUME NEW text \in Seq(Int) PROVE Agrees(text)
<1> DEFINE N == NumFields
           C == {c \in [0 .. N -> 0 .. Len(text) + 1] : IsCut(text, c)}
           part == TrimSpace(text)
           s == Loop(part)
<1>0. N \in Nat \ {0} /\ 0 \in 0 .. N - 1 /\ Len(text) \in Nat BY ProtocolAssumption
<1>1. Meanings(text) = {CutOut(text, cut) : cut \in C} BY DEF Meanings
<1>2. ParseCSV(text) = IF s.fields = Error \/ s.counter # N THEN Error ELSE s.fields
  BY DEF ParseCSV
<1>3. CASE part = <<>> /\ \A i \in 1 .. Len(text) : text[i] = Space
  <2>1. C = {}
    <3> SUFFICES ASSUME NEW cut \in [0 .. N -> 0 .. Len(text) + 1], IsCut(text, cut) PROVE FALSE
      OBVIOUS
    <3>1. cut[0] + 1 \in 1 .. Len(text) /\ text[cut[0] + 1] # Space BY Zenon, <1>0, CutFields
    <3> QED BY Zenon, <1>3, <3>1
  <2>2. Loop(<<>>) = Start
    <3>1. Len(<<>>) = 0 /\ Len(<<>>) \in Nat OBVIOUS
    <3>2. Trace(<<>>)[0] = Start /\ Loop(<<>>) = Trace(<<>>)[Len(<<>>)] BY <3>1, LoopSteps
    <3> QED BY Zenon, <3>1, <3>2
  <2>3. s.counter = 0
    <3>1. Start.counter = 0 BY DEF Start
    <3>2. s = Start BY Zenon, <1>3, <2>2
    <3> QED BY Zenon, <3>1, <3>2
  <2>4. s.counter # N BY <1>0, <2>3
  <2>5. ParseCSV(text) = Error BY Zenon, <1>2, <2>4
  <2> HIDE DEF C
  <2>6. Meanings(text) = {} BY Zenon, <1>1, <2>1
  <2> QED BY Zenon, <2>5, <2>6 DEF Agrees
<1>4. CASE \E d, b : IsTrimmed(part, text, d, b)
  <2>1. PICK d, b : IsTrimmed(part, text, d, b) BY Zenon, <1>4
  <2>2. part \in Seq(Int)
    <3>1. IsPart(part, text, d, b) BY Zenon, <2>1 DEF IsTrimmed
    <3> HIDE DEF part
    <3> QED BY <3>1, PartIs
  <2> HIDE DEF part
  <2>3. ASSUME NEW cut \in C PROVE ParseCSV(text) = CutOut(text, cut) /\ ParseCSV(text) # Error
    <3>1. PICK c : TightCut(part, c) /\ CutOut(part, c) = CutOut(text, cut)
      BY <2>1, CutOfTrimmed
    <3>2. s.counter = N /\ s.fields = CutOut(text, cut) BY Zenon, <2>2, <3>1, LoopFollows
    <3>3. IsPacket(CutOut(text, cut))
      <4> DEFINE f == CutOut(text, cut)
      <4>1. f = [k \in 0 .. N - 1 |-> ParseUint(Field(text, cut, k), MaxValue[k])]
        BY Zenon DEF CutOut
      <4> HIDE DEF f
      <4>2. IsPacket(f) BY <4>1 DEF IsPacket
      <4> QED BY <4>2 DEF f
    <3>4. CutOut(text, cut) # Error BY Zenon, <3>3, PacketIsNoError
    <3> QED BY Zenon, <1>2, <3>2, <3>4
  <2>4. ASSUME ParseCSV(text) # Error PROVE \E cut \in C : ParseCSV(text) = CutOut(text, cut)
    <3>1. s.fields # Error /\ s.counter = N /\ ParseCSV(text) = s.fields BY Zenon, <1>2, <2>4
    <3>2. PICK c : TightCut(part, c) /\ s.fields = CutOut(part, c)
      BY Zenon, <2>2, <3>1, LoopCuts
    <3>3. PICK cut \in [0 .. N -> 0 .. Len(text) + 1] :
            IsCut(text, cut) /\ CutOut(part, c) = CutOut(text, cut)
      BY <2>1, <3>2, CutOfLine
    <3> QED BY Zenon, <3>1, <3>2, <3>3
  <2> HIDE DEF C
  <2>5. CASE ParseCSV(text) = Error
    <3>1. C = {} BY Zenon, <2>3, <2>5
    <3>2. Meanings(text) = {} BY Zenon, <1>1, <3>1
    <3> QED BY Zenon, <2>5, <3>2 DEF Agrees
  <2>6. CASE ParseCSV(text) # Error
    <3>1. Meanings(text) = {ParseCSV(text)} BY Zenon, <1>1, <2>3, <2>4, <2>6
    <3> QED BY Zenon, <2>6, <3>1 DEF Agrees
  <2> QED BY <2>5, <2>6
<1>5. \/ part = <<>> /\ \A i \in 1 .. Len(text) : text[i] = Space
      \/ \E d, b : IsTrimmed(part, text, d, b)
  <2> SUFFICES ASSUME NEW a \in 1 .. Len(text), NEW b \in 1 .. Len(text),
                      a <= b /\ text[a] # Space /\ text[b] # Space,
                      \A i \in 1 .. Len(text) : i < a \/ i > b => text[i] = Space,
                      part = SubSeq(text, a, b)
               PROVE  IsTrimmed(part, text, a - 1, b)
    BY Zenon, Trimmed
  <2> HIDE DEF part
  <2>1. a - 1 \in Nat /\ b \in Nat /\ a - 1 < b /\ b <= Len(text) /\ (a - 1) + 1 = a BY <1>0
  <2> QED BY Zenon, <2>1 DEF IsTrimmed, IsPart
<1> QED BY <1>3, <1>4, <1>5

\* Whatever line a client sends, the parser says of it what the wire format says.
THEOREM ParserIsFormat == MCSpec => []ParserMatchesFormat
<1>1. MCInit => line \in Seq(Int)
  <2> SUFFICES ASSUME line \in Lines PROVE line \in Seq(Int) BY DEF MCInit
  <2>1. PICK n \in 0 .. MaxLength : line \in [1 .. n -> Alphabet] BY DEF Lines
  <2>2. n \in Nat /\ Alphabet \subseteq Int
    BY ProtocolAssumption DEF Comma, Space, Other
  <2>3. line \in [1 .. n -> Int] BY Zenon, <2>1, <2>2
  <2> QED BY <2>2, <2>3
<1>2. line \in Seq(Int) /\ [MCNext]_<<vars, line>> => (line \in Seq(Int))'
  BY Zenon DEF MCNext
<1>3. line \in Seq(Int) => ParserMatchesFormat
  BY Zenon, ParserCorrect DEF ParserMatchesFormat
<1> QED BY <1>1, <1>2, <1>3, PTL DEF MCSpec
=============================================================================
