------------------------------ MODULE Gateway -------------------------------
(***************************************************************************)
(* The TCP gateway of gateway/main.go: one handler and one writer          *)
(* goroutine per connection, one goroutine that moves packets into the     *)
(* ingress ring and one that takes execution reports from the egress ring  *)
(* and routes them by trader through clientRegistry, under registryMutex.  *)
(*                                                                         *)
(* A packet is its trader id.  A message that does not parse is skipped by *)
(* the handler and changes nothing; Protocol models the parser.  The       *)
(* engine behind the rings answers each packet with one report addressed   *)
(* the way main.cpp addresses it; EnginePipeline models it in detail.      *)
(* Trader id 0 is an id like any other to the gateway, and also what       *)
(* main.cpp leaves in the fields of a report that do not apply.            *)
(***************************************************************************)
EXTENDS Integers, Sequences

CONSTANTS Sessions,            \* TCP connections
          Traders,             \* the trader ids that clients use
          nil,
          PacketChanCapacity,  \* capacity of packetChan (1024)
          ChanCapacity,        \* capacity of a session's channel (65536)
          RingSize,            \* slots of the ingress ring (65536)
          MaxMessages          \* bound: messages read from all clients

ASSUME GatewayAssumption ==
  /\ Traders \subseteq Nat
  /\ nil \notin Sessions
  /\ {PacketChanCapacity, ChanCapacity, RingSize} \subseteq Nat \ {0}
  /\ MaxMessages \in Nat

VARIABLES
  hpc, traderID, localSessionTraders,  \* per session: the handler
  writer, ch,                          \* per session: the writer, its channel
  clientRegistry,
  packetChan, ingress, egress,         \* packetChan and the two rings
  dpc, packet,                         \* the egress goroutine; it holds the read lock
                                       \* except when "idle"
  makers,                              \* traders with resting orders
  messages, dropped, answered, routed  \* counters

handlerVars == <<hpc, traderID, localSessionTraders>>
vars == <<handlerVars, writer, ch, clientRegistry, packetChan, ingress, egress, dpc, packet,
          makers, messages, dropped, answered, routed>>

\* A report is addressed to a taker and a maker; 0 where main.cpp leaves the field empty.
\* parties are the traders whose orders it is about, which the packet does not say (history).
Reports == {r \in [taker : Traders \cup {0}, maker : Traders \cup {0}, parties : SUBSET Traders] :
              {r.taker, r.maker} \subseteq r.parties \cup {0}}

TypeOK ==
  /\ hpc \in [Sessions -> {"new", "read", "register", "send", "cleanup", "done"}]
  /\ traderID \in [Sessions -> Traders \cup {0}]
  /\ localSessionTraders \in [Sessions -> SUBSET Traders]
  /\ writer \in [Sessions -> {"none", "run", "exited"}]
  /\ ch \in [Sessions -> Seq(Reports)]
  /\ \A s \in Sessions : Len(ch[s]) <= ChanCapacity
  /\ clientRegistry \in [Traders -> Sessions \cup {nil}]
  /\ packetChan \in Seq(Traders) /\ Len(packetChan) <= PacketChanCapacity
  /\ ingress \in Seq(Traders) /\ Len(ingress) <= RingSize
  /\ egress \in Seq(Reports)
  /\ dpc \in {"idle", "taker", "maker"}
  /\ packet \in Reports
  /\ makers \subseteq Traders
  /\ messages \in 0 .. MaxMessages /\ dropped \in Nat /\ answered \in Nat /\ routed \in Nat

Init ==
  /\ hpc = [s \in Sessions |-> "new"]
  /\ traderID = [s \in Sessions |-> 0]
  /\ localSessionTraders = [s \in Sessions |-> {}]
  /\ writer = [s \in Sessions |-> "none"]
  /\ ch = [s \in Sessions |-> <<>>]
  /\ clientRegistry = [t \in Traders |-> nil]
  /\ packetChan = <<>> /\ ingress = <<>> /\ egress = <<>>
  /\ dpc = "idle"
  /\ packet = [taker |-> 0, maker |-> 0, parties |-> {}]
  /\ makers = {}
  /\ messages = 0 /\ dropped = 0 /\ answered = 0 /\ routed = 0

-----------------------------------------------------------------------------
\* HandleClient.  The write lock is free when the egress goroutine does not read.
HandlerFrame ==
  UNCHANGED <<ingress, egress, dpc, packet, makers, dropped, answered, routed>>

Unlocked == dpc = "idle"

Accept(s) ==
  /\ hpc[s] = "new"
  /\ hpc' = [hpc EXCEPT ![s] = "read"]
  /\ writer' = [writer EXCEPT ![s] = "run"]
  /\ UNCHANGED <<traderID, localSessionTraders, ch, clientRegistry, packetChan, messages>>
  /\ HandlerFrame

ReadMessage_unrecorded(s, t) ==
  /\ hpc[s] = "read"
  /\ messages < MaxMessages
  /\ messages' = messages + 1
  /\ traderID' = [traderID EXCEPT ![s] = t]
  /\ hpc' = [hpc EXCEPT ![s] = "register"]
  /\ UNCHANGED <<localSessionTraders, writer, ch, clientRegistry, packetChan>>
  /\ HandlerFrame
ReadMessage(s, t) ==
  /\ hpc[s] = "read"
  /\ messages < MaxMessages
  /\ messages' = messages + 1
  /\ traderID' = [traderID EXCEPT ![s] = t]
  /\ hpc' = [hpc EXCEPT ![s] = IF t \in localSessionTraders[s] THEN "send" ELSE "register"]
  /\ localSessionTraders' = [localSessionTraders EXCEPT ![s] = @ \cup {t}]
  /\ UNCHANGED <<writer, ch, clientRegistry, packetChan>>
  /\ HandlerFrame

Register(s) ==
  /\ hpc[s] = "register"
  /\ Unlocked
  /\ clientRegistry' = [clientRegistry EXCEPT ![traderID[s]] = s]
  /\ hpc' = [hpc EXCEPT ![s] = "send"]
  /\ UNCHANGED <<traderID, localSessionTraders, writer, ch, packetChan, messages>>
  /\ HandlerFrame

SendPacket_dropping(s) ==
  /\ hpc[s] = "send"
  /\ packetChan' = IF Len(packetChan) < PacketChanCapacity
                   THEN Append(packetChan, traderID[s]) ELSE packetChan
  /\ hpc' = [hpc EXCEPT ![s] = "read"]
  /\ UNCHANGED <<traderID, localSessionTraders, writer, ch, clientRegistry, messages>>
  /\ HandlerFrame
SendPacket(s) ==
  /\ hpc[s] = "send"
  /\ Len(packetChan) < PacketChanCapacity
  /\ packetChan' = Append(packetChan, traderID[s])
  /\ hpc' = [hpc EXCEPT ![s] = "read"]
  /\ UNCHANGED <<traderID, localSessionTraders, writer, ch, clientRegistry, messages>>
  /\ HandlerFrame

\* The client closes, or a read fails: conn.Close, then the deferred teardown.
Disconnect(s) ==
  /\ hpc[s] = "read"
  /\ hpc' = [hpc EXCEPT ![s] = "cleanup"]
  /\ UNCHANGED <<traderID, localSessionTraders, writer, ch, clientRegistry, packetChan, messages>>
  /\ HandlerFrame

\* The traders of the session are removed, whoever they are bound to now, and the
\* channel is closed (the channel of s is closed when the handler is "done").
Unbound_last_only(s) == {traderID[s]}
Unbound(s) == localSessionTraders[s]

Cleanup(s) ==
  /\ hpc[s] = "cleanup"
  /\ Unlocked
  /\ clientRegistry' = [t \in Traders |-> IF t \in Unbound(s) THEN nil ELSE clientRegistry[t]]
  /\ hpc' = [hpc EXCEPT ![s] = "done"]
  /\ UNCHANGED <<traderID, localSessionTraders, writer, ch, packetChan, messages>>
  /\ HandlerFrame

ClosedChannel(s) == hpc[s] = "done"
ClosedConn(s) == hpc[s] \in {"cleanup", "done"}

\* The writer goroutine: a write to a closed connection fails, and any other may.
WriterFrame ==
  UNCHANGED <<handlerVars, clientRegistry, packetChan, ingress, egress, dpc, packet, makers,
              messages, dropped, answered, routed>>

WritePayload(s) ==
  /\ writer[s] = "run"
  /\ ch[s] # <<>>
  /\ ~ClosedConn(s)
  /\ ch' = [ch EXCEPT ![s] = Tail(@)]
  /\ UNCHANGED writer
  /\ WriterFrame

WriterExit_on_error_only(s) ==
  /\ writer[s] = "run"
  /\ ch[s] # <<>>
  /\ ch' = [ch EXCEPT ![s] = Tail(@)]
  /\ writer' = [writer EXCEPT ![s] = "exited"]
  /\ WriterFrame
WriterExit(s) ==
  /\ writer[s] = "run"
  /\ \/ ch[s] # <<>> /\ ch' = [ch EXCEPT ![s] = Tail(@)]
     \/ ch[s] = <<>> /\ ClosedChannel(s) /\ UNCHANGED ch
  /\ writer' = [writer EXCEPT ![s] = "exited"]
  /\ WriterFrame

-----------------------------------------------------------------------------
\* The ingress goroutine: a packet for which the ring has no room is dropped.
Forward ==
  /\ packetChan # <<>>
  /\ packetChan' = Tail(packetChan)
  /\ IF Len(ingress) < RingSize
     THEN ingress' = Append(ingress, Head(packetChan)) /\ UNCHANGED dropped
     ELSE dropped' = dropped + 1 /\ UNCHANGED ingress
  /\ UNCHANGED <<handlerVars, writer, ch, clientRegistry, egress, dpc, packet, makers,
                 messages, answered, routed>>

\* The engine answers a packet of trader t: a reject names nobody, an accept names t
\* as the maker, a fill names t as the taker and the trader of a resting order.
Rejection(t) == [taker |-> 0, maker |-> 0, parties |-> {t}]
Acceptance(t) == [taker |-> 0, maker |-> t, parties |-> {t}]
Fill(t, m) == [taker |-> t, maker |-> m, parties |-> {t, m}]

Engine ==
  /\ ingress # <<>>
  /\ ingress' = Tail(ingress)
  /\ LET t == Head(ingress) IN
       \/ egress' = Append(egress, Rejection(t)) /\ UNCHANGED makers
       \/ egress' = Append(egress, Acceptance(t)) /\ makers' = makers \cup {t}
       \/ \E m \in makers : egress' = Append(egress, Fill(t, m)) /\ UNCHANGED makers
  /\ answered' = answered + 1
  /\ UNCHANGED <<handlerVars, writer, ch, clientRegistry, packetChan, dpc, packet, messages,
                 dropped, routed>>

\* The egress goroutine takes a report and the read lock.
DistributorFrame ==
  UNCHANGED <<handlerVars, writer, clientRegistry, packetChan, ingress, makers, messages,
              dropped, answered>>

Dequeue ==
  /\ dpc = "idle"
  /\ egress # <<>>
  /\ packet' = Head(egress)
  /\ egress' = Tail(egress)
  /\ dpc' = "taker"
  /\ UNCHANGED <<ch, routed>>
  /\ DistributorFrame

\* The non-blocking send to the session of trader t: the report is dropped when the
\* channel is full or t is not registered.
Registered(t) == IF t \in Traders THEN clientRegistry[t] ELSE nil

Offer_unbounded(t) ==
  LET s == Registered(t) IN
  IF s # nil THEN ch' = [ch EXCEPT ![s] = Append(@, packet)] ELSE UNCHANGED ch
Offer_blocking(t) ==
  LET s == Registered(t) IN
  IF s # nil THEN Len(ch[s]) < ChanCapacity /\ ch' = [ch EXCEPT ![s] = Append(@, packet)]
             ELSE UNCHANGED ch
Offer(t) ==
  LET s == Registered(t) IN
  IF s # nil /\ Len(ch[s]) < ChanCapacity
  THEN ch' = [ch EXCEPT ![s] = Append(@, packet)]
  ELSE UNCHANGED ch

RouteTaker ==
  /\ dpc = "taker"
  /\ Offer(packet.taker)
  /\ dpc' = "maker"
  /\ UNCHANGED <<egress, packet, routed>>
  /\ DistributorFrame

RouteMaker ==
  /\ dpc = "maker"
  /\ Offer(packet.maker)
  /\ dpc' = "idle"
  /\ routed' = routed + 1
  /\ UNCHANGED <<egress, packet>>
  /\ DistributorFrame

Distribute == Dequeue \/ RouteTaker \/ RouteMaker

HandleClient(s) ==
  \/ \E t \in Traders : ReadMessage(s, t)
  \/ Register(s) \/ SendPacket(s) \/ Disconnect(s) \/ Cleanup(s)

Next == \/ \E s \in Sessions : Accept(s) \/ HandleClient(s) \/ WritePayload(s) \/ WriterExit(s)
        \/ Forward
        \/ Engine
        \/ Distribute

\* The goroutines are scheduled.  Clients need not send, nor read what is written to
\* them: a writer may block until its connection is closed.  A waiting writer of the
\* RWMutex keeps new readers out, so Lock returns although the egress goroutine keeps
\* taking the read lock (strong fairness).
Fairness ==
  /\ WF_vars(Forward)
  /\ WF_vars(Engine)
  /\ WF_vars(Distribute)
  /\ \A s \in Sessions :
       /\ SF_vars(Register(s))
       /\ SF_vars(Cleanup(s))
       /\ WF_vars(SendPacket(s))
       /\ WF_vars(ClosedConn(s) /\ WriterExit(s))

Spec == Init /\ [][Next]_vars /\ Fairness

-----------------------------------------------------------------------------
\* The registry never names a session whose channel is closed: the send of the egress
\* goroutine would panic and end the gateway.
RegistryOpen ==
  \A t \in Traders : clientRegistry[t] # nil => ~ClosedChannel(clientRegistry[t])

\* A session with these traders may be given report r: it is about an order of one of them,
\* or one of them is trader 0, for whom main.go (107, 116) takes an empty id.
MayReceive(traders, r) ==
  \/ r.parties \cap traders # {}
  \/ 0 \in traders /\ 0 \in {r.taker, r.maker}

\* A session receives only reports about orders of traders who sent on that session,
\* however traders move between sessions meanwhile.  The exception is a session on which
\* trader 0 sent: it also receives what is addressed to nobody.
RoutedToParty ==
  \A s \in Sessions : \A i \in 1 .. Len(ch[s]) : MayReceive(localSessionTraders[s], ch[s][i])

\* Every report of the engine is taken and routed although clients never read: a full
\* channel drops the report and never blocks the goroutine that holds the lock.
EveryReportRouted == \A k \in 1 .. MaxMessages : answered >= k ~> routed >= k

\* Every message that a handler has read and parsed is answered by the engine or dropped
\* where the ingress goroutine finds the ring full: no other step loses one, and none
\* keeps it for good, also when the session ends meanwhile.
EveryMessageSettled == \A k \in 1 .. MaxMessages : messages >= k ~> answered + dropped >= k

\* A session that ends takes its goroutines with it: the handler gets the lock and
\* closes the channel, and the writer leaves its loop.
SessionEnds ==
  \A s \in Sessions : hpc[s] = "cleanup" ~> hpc[s] = "done" /\ writer[s] = "exited"

\* A trader who sent an order on an open session is registered.
TraderStaysBound ==
  \A s \in Sessions : \A t \in localSessionTraders[s] :
    hpc[s] \in {"read", "send"} => clientRegistry[t] # nil
=============================================================================
