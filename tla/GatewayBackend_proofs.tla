----------------------- MODULE GatewayBackend_proofs ------------------------
(* Proofs about GatewayBackend, for any gateways, datagrams and handlers. *)
EXTENDS GatewayBackend, TLAPS

(* A tick of the clock changes no route, only the ages. *)
LEMMA OlderMapRoutes ==
    ASSUME NEW map \in [MAC -> Gateway \cup {NoGateway}]
    PROVE  /\ OlderMap(map) \in [MAC -> Gateway \cup {NoGateway}]
           /\ Keys(OlderMap(map)) = Keys(map)
           /\ \A m \in Keys(map) : /\ OlderMap(map)[m].addr = map[m].addr
                                   /\ OlderMap(map)[m].version = map[m].version
<1>1. ASSUME NEW g \in Gateway
      PROVE  Older(g) \in Gateway /\ Older(g).addr = g.addr /\ Older(g).version = g.version
    BY CleanupAgeAssumption DEF Older, Gateway, Ages
<1>2. ASSUME NEW m \in MAC
      PROVE  /\ OlderMap(map)[m] \in Gateway \cup {NoGateway}
             /\ OlderMap(map)[m] = NoGateway <=> map[m] = NoGateway
             /\ m \in Keys(map) => /\ OlderMap(map)[m].addr = map[m].addr
                                   /\ OlderMap(map)[m].version = map[m].version
    BY <1>1, NoGatewayAssumption DEF OlderMap, Keys
<1>. QED BY <1>2 DEF OlderMap, Keys

(* A handler that has been started has an address and a datagram. *)
LEMMA StartedType ==
    ASSUME TypeOK, NEW h \in Goroutine, hnd[h].pc # "new"
    PROVE  /\ hnd[h] \in Handlers
           /\ hnd[h].addr \in Addr
           /\ hnd[h].data \in DatagramType
BY DatagramAssumption DEF TypeOK, Handlers, NotStarted

(* Changing only where a handler is keeps its address and datagram. *)
LEMMA GotoType ==
    ASSUME TypeOK, NEW h \in Goroutine, hnd[h].pc # "new",
           NEW pc \in {"set", "ack", "stat", "rx", "done"}, Goto(h, pc)
    PROVE  /\ hnd' \in [Goroutine -> Handlers \cup {NotStarted}]
           /\ hnd'[h].pc = pc
           /\ hnd'[h].addr = hnd[h].addr
           /\ hnd'[h].data = hnd[h].data
           /\ \A g \in Goroutine \ {h} : hnd'[g] = hnd[g]
<1>1. hnd[h] \in Handlers BY StartedType
<1>2. hnd' = [hnd EXCEPT ![h] = [hnd[h] EXCEPT !.pc = pc]] BY DEF Goto
<1>. QED BY <1>1, <1>2 DEF TypeOK, Handlers

(* An acknowledgement of a datagram that was decoded is a packet. *)
LEMMA AckType ==
    ASSUME TypeOK, NEW h \in Goroutine, hnd[h].pc # "new", Unmarshalled(hnd[h].data)
    PROVE  Ack(h) \in UDPPacket
BY StartedType DEF Ack, UDPPacket, Unmarshalled, DatagramType

(* The PULL_RESP for a registered gateway is a packet. *)
LEMMA PullRespType ==
    ASSUME TypeOK, NEW m \in MAC, m \in Keys(route)
    PROVE  PullResp(m) \in UDPPacket
BY DEF PullResp, UDPPacket, TypeOK, RTypeOK, Keys, Gateway

(* Ack and Answerable only look at the datagram and at announced, which    *)
(* only grows.                                                             *)
LEMMA AckStable ==
    ASSUME NEW g \in Goroutine, hnd'[g].data = hnd[g].data, hnd'[g].addr = hnd[g].addr,
           announced \subseteq announced'
    PROVE  /\ Ack(g)' = Ack(g)
           /\ Answerable(g) => Answerable(g)'
BY DEF Ack, Answerable, Announced

(* What holds of a handler still holds after a step of somebody else. *)
LEMMA OtherHandler ==
    ASSUME NEW g \in Goroutine, hnd'[g] = hnd[g], stats'[g] = stats[g],
           uplinks'[g] = uplinks[g], announced \subseteq announced',
           acks'[g] = acks[g], AckLeft(g) => AckLeft(g)',
           HandlerOK(g), ForwardOK(g)
    PROVE  HandlerOK(g)' /\ ForwardOK(g)'
<1>1. HandlerOK(g)' BY AckStable DEF HandlerOK
<1>2. ForwardOK(g)' BY DEF ForwardOK, GoodPrefix
<1>. QED BY <1>1, <1>2

(* An acknowledgement that has left stays so while its handler and the sender rest. *)
LEMMA AckLeftStable ==
    ASSUME NEW g \in Goroutine, hnd'[g].data = hnd[g].data, hnd'[g].addr = hnd[g].addr,
           acks'[g] = acks[g], UNCHANGED sender
    PROVE  AckLeft(g) => AckLeft(g)'
BY DEF AckLeft, Ack

(* No handler went on, and nothing was acknowledged or announced. *)
LEMMA HandlerStable ==
    ASSUME HandlerInv, UNCHANGED <<hnd, acks, announced>>
    PROVE  HandlerInv'
<1>1. hnd' = hnd /\ acks' = acks /\ announced' = announced OBVIOUS
<1>. QED BY ONLY HandlerInv, <1>1 DEF HandlerInv, HandlerOK, Announced, Answerable, Ack

(* Nothing was handed on, and no acknowledgement got lost. *)
LEMMA ForwardStable ==
    ASSUME ForwardInv, UNCHANGED <<hnd, stats, uplinks>>,
           \A g \in Goroutine : AckLeft(g) => AckLeft(g)'
    PROVE  ForwardInv'
<1>. SUFFICES ASSUME NEW g \in Goroutine PROVE ForwardOK(g)' BY DEF ForwardInv
<1>1. ForwardOK(g) /\ (AckLeft(g) => AckLeft(g)') BY DEF ForwardInv
<1>2. hnd' = hnd /\ stats' = stats /\ uplinks' = uplinks OBVIOUS
<1>3. GoodPrefix(g) => GoodPrefix(g)' BY ONLY <1>1, <1>2 DEF GoodPrefix
<1>. QED BY ONLY <1>1, <1>2, <1>3 DEF ForwardOK

(* A packet on its way to the socket stays in order after a handler step   *)
(* that leaves the sender and the downlink loop alone.                     *)
LEMMA PacketsInFlight ==
    ASSUME PacketInv, NEW h \in Goroutine, UNCHANGED <<sender, tx, resps, acks>>,
           announced \subseteq announced',
           hnd'[h].data = hnd[h].data, hnd'[h].addr = hnd[h].addr,
           hnd[h].pc \in {"stat", "rx", "done"} => hnd'[h].pc \in {"stat", "rx", "done"},
           \A g \in Goroutine \ {h} : hnd'[g] = hnd[g]
    PROVE  PacketInv'
<1>1. ASSUME NEW g \in Goroutine
      PROVE  /\ hnd'[g].data = hnd[g].data /\ hnd'[g].addr = hnd[g].addr
             /\ hnd[g].pc \in {"stat", "rx", "done"} => hnd'[g].pc \in {"stat", "rx", "done"}
    OBVIOUS
<1>2. tx.pc = "send" => tx.pkt.type = "PULL_RESP" /\ Announced(tx.pkt)'
    BY DEF PacketInv, Announced
<1>3. PullRespToAnnounced'
    BY DEF PacketInv, PullRespToAnnounced
<1>4. CASE sender.pc # "write"
    BY <1>2, <1>3, <1>4 DEF PacketInv
<1>5. CASE sender.pc = "write"
    <2>1. CASE sender.pkt.type = "PULL_RESP" /\ Announced(sender.pkt)
        <3>1. Announced(sender.pkt)' BY <2>1 DEF Announced
        <3>. QED BY <1>2, <1>3, <1>5, <2>1, <3>1 DEF PacketInv
    <2>2. CASE /\ sender.pkt.src \in Goroutine
               /\ hnd[sender.pkt.src].pc \in {"stat", "rx", "done"}
               /\ Answerable(sender.pkt.src)
               /\ sender.pkt = Ack(sender.pkt.src)
               /\ acks[sender.pkt.src] = <<>>
        <3>1. PICK g \in Goroutine : g = sender.pkt.src BY <2>2
        <3>2. Ack(g)' = Ack(g) /\ Answerable(g)'
            BY <1>1, <2>2, <3>1, AckStable
        <3>3. /\ hnd'[g].pc \in {"stat", "rx", "done"} /\ Answerable(g)'
              /\ sender.pkt = Ack(g)' /\ acks[g] = <<>> /\ g = sender'.pkt.src
            BY <1>1, <2>2, <3>1, <3>2
        <3>. QED BY <1>2, <1>3, <3>3 DEF PacketInv, Answerable, Ack, Announced
    <2>. QED BY <1>5, <2>1, <2>2 DEF PacketInv
<1>. QED BY <1>4, <1>5

(* A step that only moves one handler on. *)
LEMMA MoveIInv ==
    ASSUME IInv, NEW h \in Goroutine, NEW pc \in {"set", "ack", "stat", "rx", "done"},
           hnd[h].pc # "new", Goto(h, pc),
           hnd[h].pc \in {"stat", "rx", "done"} => pc \in {"stat", "rx", "done"},
           UNCHANGED <<rvars, proc, loopvars, tx, sends, closevars, announced, acks, resps>>,
           stats' \in [Goroutine -> Seq(Addr)], uplinks' \in [Goroutine -> Seq(RXPK)],
           \A g \in Goroutine \ {h} : stats'[g] = stats[g] /\ uplinks'[g] = uplinks[g],
           HandlerOK(h)', ForwardOK(h)'
    PROVE  IInv'
<1>. USE DEF rvars, loopvars, closevars
<1>0. /\ hnd' \in [Goroutine -> Handlers \cup {NotStarted}]
      /\ hnd'[h].pc = pc /\ hnd'[h].data = hnd[h].data /\ hnd'[h].addr = hnd[h].addr
      /\ \A g \in Goroutine \ {h} : hnd'[g] = hnd[g]
    BY GotoType DEF IInv
<1>1. TypeOK' BY <1>0 DEF IInv, TypeOK, RTypeOK
<1>2. CloseInv' BY DEF IInv, CloseInv
<1>3. WgInv' BY DEF IInv, WgInv, Running
<1>4. RouteInv' BY DEF IInv, RouteInv, Keys
<1>5. PacketInv' BY <1>0, PacketsInFlight DEF IInv
<1>6. ASSUME NEW g \in Goroutine PROVE HandlerOK(g)' /\ ForwardOK(g)'
    <2>1. CASE g = h BY <2>1
    <2>2. CASE g # h
        <3>1. AckLeft(g) => AckLeft(g)' BY <1>0, <2>2, AckLeftStable
        <3>2. HandlerOK(g) /\ ForwardOK(g) BY DEF IInv, HandlerInv, ForwardInv
        <3>. QED BY <1>0, <2>2, <3>1, <3>2, OtherHandler
    <2>. QED BY <2>1, <2>2
<1>. QED BY <1>1, <1>2, <1>3, <1>4, <1>5, <1>6 DEF IInv, HandlerInv, ForwardInv

-----------------------------------------------------------------------------
(* The invariant holds when NewBackend returns. *)
LEMMA InitIInv == Init => IInv
<1>. SUFFICES ASSUME Init PROVE IInv OBVIOUS
<1>. USE DEF Init, RInit
<1>1. TypeOK
    <2>1. /\ acks \in [Goroutine -> Seq(UDPPacket)]
          /\ stats \in [Goroutine -> Seq(Addr)]
          /\ uplinks \in [Goroutine -> Seq(RXPK)]
        OBVIOUS
    <2>2. sends \in 0 .. MaxSend BY BoundAssumption
    <2>3. RTypeOK BY DEF RTypeOK
    <2>4. hnd \in [Goroutine -> Handlers \cup {NotStarted}] OBVIOUS
    <2>5. /\ sender \in [pc : {"new", "recv"} \cup LoopEnd]
          /\ tx \in [pc : {"idle"}]
        OBVIOUS
    <2>6. wg \in 0 .. 2 OBVIOUS
    <2>. QED
        BY <2>1, <2>2, <2>3, <2>4, <2>5, <2>6 DEF TypeOK, LoopEnd
<1>2. CloseInv BY DEF CloseInv
<1>3. WgInv BY DEF WgInv, Busy
<1>4. RouteInv BY DEF RouteInv, Keys
<1>5. PacketInv BY DEF PacketInv, PullRespToAnnounced
<1>6. HandlerInv BY DEF HandlerInv, HandlerOK, NotStarted
<1>7. ForwardInv
    BY DEF ForwardInv, ForwardOK, GoodPrefix, NotStarted
<1>. QED BY <1>1, <1>2, <1>3, <1>4, <1>5, <1>6, <1>7 DEF IInv

(* The loops. *)

(* The reader enters its loop and counts itself in wg. *)
LEMMA ReaderStartIInv ==
    ASSUME IInv, ReaderStart
    PROVE  IInv'
<1>. USE DEF IInv, ReaderStart, rvars, loopvars, closevars, history
<1>1. TypeOK' BY DEF TypeOK, RTypeOK, LoopEnd, WgInv, Busy, Running
<1>2. CloseInv' BY DEF CloseInv, TypeOK, Running
<1>3. WgInv' BY DEF WgInv, Busy, Running, TypeOK, LoopEnd
<1>4. RouteInv' BY DEF RouteInv, Keys
<1>5. PacketInv' BY DEF PacketInv, Announced, Answerable, Ack, PullRespToAnnounced
<1>6. HandlerInv' BY HandlerStable
<1>7. ForwardInv'
    <2>1. \A g \in Goroutine : AckLeft(g) => AckLeft(g)' BY DEF AckLeft, Ack
    <2>. QED BY <2>1, ForwardStable
<1>. QED BY <1>1, <1>2, <1>3, <1>4, <1>5, <1>6, <1>7

(* A failed read ends the reader loop. *)
LEMMA ReadErrorIInv ==
    ASSUME IInv, ReadError
    PROVE  IInv'
<1>. USE DEF IInv, ReadError, IOError, rvars, loopvars, closevars, history
<1>1. TypeOK' BY DEF TypeOK, RTypeOK, LoopEnd
<1>2. CloseInv' BY DEF CloseInv, TypeOK, Running
<1>3. WgInv' BY DEF WgInv, Busy, Running, TypeOK, LoopEnd
<1>4. RouteInv' BY DEF RouteInv, Keys
<1>5. PacketInv' BY DEF PacketInv, Announced, Answerable, Ack, PullRespToAnnounced
<1>6. HandlerInv' BY HandlerStable
<1>7. ForwardInv'
    <2>1. \A g \in Goroutine : AckLeft(g) => AckLeft(g)' BY DEF AckLeft, Ack
    <2>. QED BY <2>1, ForwardStable
<1>. QED BY <1>1, <1>2, <1>3, <1>4, <1>5, <1>6, <1>7

(* The reader leaves wg, or ends the process. *)
LEMMA ReaderEndIInv ==
    ASSUME IInv, ReaderEnd
    PROVE  IInv'
<1>. USE DEF IInv, ReaderEnd, ClosedAsRead, rvars, loopvars, closevars, history
<1>1. TypeOK'
    <2>1. wg' \in 0 .. 2 /\ reader' \in LoopEnd
        BY DEF TypeOK, LoopEnd, WgInv, Busy, Running
    <2>. QED BY <2>1 DEF TypeOK, RTypeOK
<1>2. CloseInv' BY DEF CloseInv, TypeOK, Running
<1>3. WgInv' BY DEF WgInv, Busy, Running, TypeOK, LoopEnd
<1>4. RouteInv' BY DEF RouteInv, Keys
<1>5. PacketInv' BY DEF PacketInv, Announced, Answerable, Ack, PullRespToAnnounced
<1>6. HandlerInv' BY HandlerStable
<1>7. ForwardInv'
    <2>1. \A g \in Goroutine : AckLeft(g) => AckLeft(g)' BY DEF AckLeft, Ack
    <2>. QED BY <2>1, ForwardStable
<1>. QED BY <1>1, <1>2, <1>3, <1>4, <1>5, <1>6, <1>7

(* The sender enters its loop and counts itself in wg. *)
LEMMA SenderStartIInv ==
    ASSUME IInv, SenderStart
    PROVE  IInv'
<1>. USE DEF IInv, SenderStart, Waiting, rvars, loopvars, closevars, history
<1>1. TypeOK' BY DEF TypeOK, RTypeOK, LoopEnd, WgInv, Busy, Running
<1>2. CloseInv' BY DEF CloseInv, TypeOK, Running
<1>3. WgInv' BY DEF WgInv, Busy, Running, TypeOK, LoopEnd
<1>4. RouteInv' BY DEF RouteInv, Keys
<1>5. PacketInv' BY DEF PacketInv, Announced, Answerable, Ack, PullRespToAnnounced
<1>6. HandlerInv' BY HandlerStable
<1>7. ForwardInv'
    <2>1. \A g \in Goroutine : AckLeft(g) => AckLeft(g)' BY DEF AckLeft, LoopEnd, Ack
    <2>. QED BY <2>1, ForwardStable
<1>. QED BY <1>1, <1>2, <1>3, <1>4, <1>5, <1>6, <1>7

(* A written packet moves from the sender into the history. *)
LEMMA SenderWriteIInv ==
    ASSUME IInv, SenderWrite
    PROVE  IInv'
<1>. USE DEF IInv, SenderWrite, Waiting, rvars, loopvars, closevars, history
<1>0. sender.pkt \in UDPPacket BY DEF TypeOK, LoopEnd
<1>1. TypeOK'
    <2>1. acks' \in [Goroutine -> Seq(UDPPacket)]
        <3>1. CASE sender.pkt.type = "PULL_RESP"
            BY <3>1 DEF TypeOK
        <3>2. CASE sender.pkt.type # "PULL_RESP"
            <4>1. sender.pkt.src \in Goroutine BY <3>2 DEF PacketInv
            <4>2. Append(acks[sender.pkt.src], sender.pkt) \in Seq(UDPPacket)
                BY <1>0, <4>1 DEF TypeOK
            <4>. QED BY <3>2, <4>1, <4>2 DEF TypeOK
        <3>. QED BY <3>1, <3>2
    <2>2. resps' \in SUBSET UDPPacket
        BY <1>0 DEF TypeOK
    <2>. QED BY <2>1, <2>2 DEF TypeOK, RTypeOK
<1>2. CloseInv' BY DEF CloseInv, TypeOK, Running
<1>3. WgInv' BY DEF WgInv, Busy, Running, TypeOK, LoopEnd
<1>4. RouteInv' BY DEF RouteInv, Keys
<1>5. PacketInv'
    <2>1. /\ PacketInv /\ tx' = tx /\ announced' = announced /\ sender'.pc # "write"
          /\ sender.pc = "write"
          /\ resps' = IF sender.pkt.type = "PULL_RESP" THEN resps \cup {sender.pkt} ELSE resps
        OBVIOUS
    <2>2. \A p \in resps : Announced(p)
        BY ONLY <2>1 DEF PacketInv, PullRespToAnnounced, Announced
    <2>3. sender.pkt.type = "PULL_RESP" => Announced(sender.pkt)
        BY ONLY <2>1 DEF PacketInv, Ack
    <2>. QED BY ONLY <2>1, <2>2, <2>3 DEF PacketInv, PullRespToAnnounced, Announced
<1>6. ASSUME NEW g \in Goroutine PROVE HandlerOK(g)' /\ ForwardOK(g)'
    <2>0. HandlerOK(g) /\ ForwardOK(g) BY DEF HandlerInv, ForwardInv
    <2>1. CASE sender.pkt.type # "PULL_RESP" /\ sender.pkt.src = g
        <3>1. /\ hnd[g].pc \in {"stat", "rx", "done"} /\ Answerable(g)
              /\ sender.pkt = Ack(g) /\ acks[g] = <<>>
            BY <2>1 DEF PacketInv
        <3>2. acks'[g] = <<Ack(g)>>
            BY <1>0, <2>1, <3>1 DEF TypeOK
        <3>3. Ack(g)' = Ack(g) /\ Answerable(g)'
            BY <3>1, AckStable
        <3>4. HandlerOK(g)'
            BY <2>0, <3>1, <3>2, <3>3 DEF HandlerOK
        <3>5. AckLeft(g)'
            BY <3>2 DEF AckLeft
        <3>6. ForwardOK(g)'
            BY <2>0, <3>5 DEF ForwardOK, GoodPrefix
        <3>. QED BY <3>4, <3>6
    <2>2. CASE sender.pkt.type = "PULL_RESP" \/ sender.pkt.src # g
        <3>1. acks'[g] = acks[g] BY <2>2 DEF TypeOK, PacketInv
        <3>2. sender.pkt # Ack(g) BY <2>2 DEF Ack
        <3>3. AckLeft(g) => AckLeft(g)' BY <3>1, <3>2 DEF AckLeft, LoopEnd
        <3>. QED BY <2>0, <3>1, <3>3, OtherHandler
    <2>. QED BY <2>1, <2>2
<1>7. HandlerInv' /\ ForwardInv' BY <1>6 DEF HandlerInv, ForwardInv
<1>. QED BY <1>1, <1>2, <1>3, <1>4, <1>5, <1>6, <1>7

(* A failed write ends the sender loop. *)
LEMMA WriteErrorIInv ==
    ASSUME IInv, WriteError
    PROVE  IInv'
<1>. USE DEF IInv, WriteError, IOError, rvars, loopvars, closevars, history
<1>1. TypeOK' BY DEF TypeOK, RTypeOK, LoopEnd
<1>2. CloseInv' BY DEF CloseInv, TypeOK, Running
<1>3. WgInv' BY DEF WgInv, Busy, Running, TypeOK, LoopEnd
<1>4. RouteInv' BY DEF RouteInv, Keys
<1>5. PacketInv' BY DEF PacketInv, Announced, Answerable, Ack, PullRespToAnnounced
<1>6. HandlerInv' BY HandlerStable
<1>7. ForwardInv'
    <2>1. ASSUME NEW g \in Goroutine PROVE AckLeft(g)'
        BY DEF AckLeft, LoopEnd
    <2>. QED BY <2>1, ForwardStable
<1>. QED BY <1>1, <1>2, <1>3, <1>4, <1>5, <1>6, <1>7

(* A closed channel ends the sender loop. *)
LEMMA SenderDrainedIInv ==
    ASSUME IInv, SenderDrained
    PROVE  IInv'
<1>. USE DEF IInv, SenderDrained, Waiting, rvars, loopvars, closevars, history
<1>1. TypeOK' BY DEF TypeOK, RTypeOK, LoopEnd
<1>2. CloseInv' BY DEF CloseInv, TypeOK, Running
<1>3. WgInv' BY DEF WgInv, Busy, Running, TypeOK, LoopEnd
<1>4. RouteInv' BY DEF RouteInv, Keys
<1>5. PacketInv' BY DEF PacketInv, Announced, Answerable, Ack, PullRespToAnnounced
<1>6. HandlerInv' BY HandlerStable
<1>7. ForwardInv'
    <2>1. ASSUME NEW g \in Goroutine PROVE AckLeft(g)'
        BY DEF AckLeft, LoopEnd
    <2>. QED BY <2>1, ForwardStable
<1>. QED BY <1>1, <1>2, <1>3, <1>4, <1>5, <1>6, <1>7

(* The sender leaves wg, or ends the process. *)
LEMMA SenderEndIInv ==
    ASSUME IInv, SenderEnd
    PROVE  IInv'
<1>. USE DEF IInv, SenderEnd, ClosedAsRead, rvars, loopvars, closevars, history
<1>1. TypeOK' BY DEF TypeOK, RTypeOK, LoopEnd, WgInv, Busy, Running
<1>2. CloseInv' BY DEF CloseInv, TypeOK, Running
<1>3. WgInv' BY DEF WgInv, Busy, Running, TypeOK, LoopEnd
<1>4. RouteInv' BY DEF RouteInv, Keys
<1>5. PacketInv' BY DEF PacketInv, Announced, Answerable, Ack, PullRespToAnnounced
<1>6. HandlerInv' BY HandlerStable
<1>7. ForwardInv'
    <2>1. ASSUME NEW g \in Goroutine PROVE AckLeft(g)'
        BY DEF AckLeft, LoopEnd
    <2>. QED BY <2>1, ForwardStable
<1>. QED BY <1>1, <1>2, <1>3, <1>4, <1>5, <1>6, <1>7

(* log.Fatal ends the process and nothing else changes. *)
LEMMA FatalIInv ==
    ASSUME IInv, Fatal
    PROVE  IInv'
<1>. USE DEF IInv, Fatal, rvars, loopvars, closevars, history
<1>1. TypeOK' BY DEF TypeOK, RTypeOK
<1>2. CloseInv' BY DEF CloseInv
<1>3. WgInv' BY DEF WgInv, Running
<1>4. RouteInv' BY DEF RouteInv, Keys
<1>5. PacketInv' BY DEF PacketInv, Announced, Answerable, Ack, PullRespToAnnounced
<1>6. HandlerInv' BY HandlerStable
<1>7. ForwardInv'
    <2>1. \A g \in Goroutine : AckLeft(g) => AckLeft(g)' BY DEF AckLeft, Ack
    <2>. QED BY <2>1, ForwardStable
<1>. QED BY <1>1, <1>2, <1>3, <1>4, <1>5, <1>6, <1>7

(* The handler goroutines. *)

(* A fresh handler has sent and forwarded nothing. *)
LEMMA ReceiveIInv ==
    ASSUME IInv, NEW h \in Goroutine, NEW a \in Addr, NEW d \in Datagram, Receive(h, a, d)
    PROVE  IInv'
<1>. USE DEF IInv, Receive, rvars, loopvars, closevars, history
<1>0. /\ hnd' \in [Goroutine -> Handlers \cup {NotStarted}]
      /\ hnd'[h].pc = "start" /\ hnd[h].pc = "new"
      /\ \A g \in Goroutine \ {h} : hnd'[g] = hnd[g]
    BY DEF TypeOK, Handlers, NotStarted
<1>1. TypeOK' BY <1>0 DEF TypeOK, RTypeOK
<1>2. CloseInv' BY DEF CloseInv
<1>3. WgInv' BY DEF WgInv, Running
<1>4. RouteInv' BY DEF RouteInv, Keys
<1>5. PacketInv'
    <2>1. sender.pc = "write" /\ sender.pkt.src \in Goroutine
            /\ hnd[sender.pkt.src].pc \in {"stat", "rx", "done"}
          => hnd'[sender.pkt.src] = hnd[sender.pkt.src]
        BY <1>0
    <2>2. PacketInv /\ UNCHANGED <<tx, sender, resps, acks, announced>> OBVIOUS
    <2>. QED BY ONLY <2>1, <2>2 DEF PacketInv, PullRespToAnnounced, Announced, Answerable, Ack
<1>6. ASSUME NEW g \in Goroutine PROVE HandlerOK(g)' /\ ForwardOK(g)'
    <2>0. HandlerOK(g) /\ ForwardOK(g) BY DEF HandlerInv, ForwardInv
    <2>1. CASE g = h
        <3>1. acks'[g] = <<>> /\ uplinks'[g] = <<>> /\ stats'[g] = <<>>
            BY <1>0, <2>0, <2>1 DEF HandlerOK, ForwardOK
        <3>. QED BY <1>0, <2>1, <3>1 DEF HandlerOK, ForwardOK, GoodPrefix
    <2>2. CASE g # h
        <3>1. AckLeft(g) => AckLeft(g)' BY <1>0, <2>2, AckLeftStable
        <3>. QED BY <1>0, <2>0, <2>2, <3>1, OtherHandler
    <2>. QED BY <2>1, <2>2
<1>. QED BY <1>1, <1>2, <1>3, <1>4, <1>5, <1>6 DEF HandlerInv, ForwardInv

(* Only a decoded datagram gets beyond the dispatch. *)
LEMMA HandlePacketIInv ==
    ASSUME IInv, NEW h \in Goroutine, HandlePacket(h)
    PROVE  IInv'
<1>. USE DEF IInv, HandlePacket, rvars, loopvars, closevars, history
<1>0. /\ HandlerOK(h) /\ ForwardOK(h)
      /\ stats \in [Goroutine -> Seq(Addr)] /\ uplinks \in [Goroutine -> Seq(RXPK)]
    BY DEF HandlerInv, ForwardInv, TypeOK
<1>1. acks[h] = <<>> /\ uplinks[h] = <<>> /\ stats[h] = <<>>
    BY <1>0 DEF HandlerOK, ForwardOK
<1>2. ASSUME NEW pc \in {"set", "ack", "done"}, Goto(h, pc),
             pc # "done" => Unmarshalled(hnd[h].data),
             pc = "set" => hnd[h].data.type = "PULL_DATA",
             pc = "ack" => hnd[h].data.type = "PUSH_DATA",
             pc = "done" => ~(/\ Unmarshalled(hnd[h].data)
                              /\ hnd[h].data.type \in {"PUSH_DATA", "PULL_DATA"})
      PROVE  IInv'
    <2>1. hnd'[h].pc = pc /\ hnd'[h].data = hnd[h].data
        BY <1>2, GotoType
    <2>2. HandlerOK(h)'
        BY <1>1, <1>2, <2>1 DEF HandlerOK, Answerable
    <2>3. ForwardOK(h)'
        BY <1>1, <1>2, <2>1 DEF ForwardOK, GoodPrefix
    <2>. QED BY <1>0, <1>2, <2>2, <2>3, MoveIInv
<1>. QED BY <1>2

(* A PULL_DATA refused by onNew leaves no trace. *)
LEMMA PullDataRefusedIInv ==
    ASSUME IInv, NEW h \in Goroutine, PullDataRefused(h)
    PROVE  IInv'
<1>. USE DEF IInv, PullDataRefused, rvars, loopvars, closevars, history
<1>0. /\ HandlerOK(h) /\ ForwardOK(h)
      /\ stats \in [Goroutine -> Seq(Addr)] /\ uplinks \in [Goroutine -> Seq(RXPK)]
    BY DEF HandlerInv, ForwardInv, TypeOK
<1>1. acks[h] = <<>> /\ uplinks[h] = <<>> /\ stats[h] = <<>>
      /\ hnd[h].data.type = "PULL_DATA"
    BY <1>0 DEF HandlerOK, ForwardOK
<1>2. hnd'[h].pc = "done" /\ hnd'[h].data = hnd[h].data
    BY GotoType
<1>3. HandlerOK(h)' BY <1>1, <1>2 DEF HandlerOK
<1>4. ForwardOK(h)' BY <1>1, <1>2 DEF ForwardOK, GoodPrefix
<1>. QED BY <1>0, <1>3, <1>4, MoveIInv

(* The status is forwarded once. *)
LEMMA HandleStatIInv ==
    ASSUME IInv, NEW h \in Goroutine, HandleStat(h)
    PROVE  IInv'
<1>. USE DEF IInv, HandleStat, rvars, loopvars, closevars, history
<1>0. /\ HandlerOK(h) /\ ForwardOK(h)
      /\ stats \in [Goroutine -> Seq(Addr)] /\ uplinks \in [Goroutine -> Seq(RXPK)]
    BY DEF HandlerInv, ForwardInv, TypeOK
<1>1. /\ uplinks[h] = <<>> /\ stats[h] = <<>> /\ AckLeft(h) /\ Answerable(h)
      /\ hnd[h].data.type = "PUSH_DATA" /\ hnd[h].data.stat /\ hnd[h].addr \in Addr
    BY <1>0, StartedType DEF HandlerOK, ForwardOK
<1>2. hnd'[h].pc = "rx" /\ hnd'[h].data = hnd[h].data /\ hnd'[h].addr = hnd[h].addr
    BY GotoType
<1>3. /\ stats' \in [Goroutine -> Seq(Addr)]
      /\ stats'[h] = <<hnd[h].addr>>
      /\ \A g \in Goroutine \ {h} : stats'[g] = stats[g]
    BY <1>0, <1>1
<1>4. Ack(h)' = Ack(h) /\ Answerable(h)' /\ AckLeft(h)'
    BY <1>1, <1>2, AckStable, AckLeftStable
<1>5. HandlerOK(h)' BY <1>0, <1>1, <1>2, <1>4 DEF HandlerOK
<1>6. ForwardOK(h)' BY <1>1, <1>2, <1>3, <1>4 DEF ForwardOK, GoodPrefix
<1>. QED BY <1>0, <1>3, <1>5, <1>6, MoveIInv

(* A PUSH_DATA handler ends with all of its rxpks forwarded. *)
LEMMA PushDataEndIInv ==
    ASSUME IInv, NEW h \in Goroutine, PushDataEnd(h)
    PROVE  IInv'
<1>. USE DEF IInv, PushDataEnd, rvars, loopvars, closevars, history
<1>0. /\ HandlerOK(h) /\ ForwardOK(h)
      /\ stats \in [Goroutine -> Seq(Addr)] /\ uplinks \in [Goroutine -> Seq(RXPK)]
    BY DEF HandlerInv, ForwardInv, TypeOK
<1>1. /\ AckLeft(h) /\ Answerable(h) /\ hnd[h].data.type = "PUSH_DATA" /\ GoodPrefix(h)
      /\ stats[h] = IF hnd[h].data.stat THEN <<hnd[h].addr>> ELSE <<>>
    BY <1>0 DEF HandlerOK, ForwardOK
<1>2. hnd'[h].pc = "done" /\ hnd'[h].data = hnd[h].data /\ hnd'[h].addr = hnd[h].addr
    BY GotoType
<1>4. Ack(h)' = Ack(h) /\ Answerable(h)' /\ AckLeft(h)'
    BY <1>1, <1>2, AckStable, AckLeftStable
<1>5. HandlerOK(h)' BY <1>0, <1>1, <1>2, <1>4 DEF HandlerOK
<1>6. ForwardOK(h)'
    <2>1. Len(uplinks[h]) \in Nat BY <1>0
    <2>. QED BY <1>1, <1>2, <1>4, <2>1 DEF ForwardOK, GoodPrefix
<1>. QED BY <1>0, <1>5, <1>6, MoveIInv

(* The next rxpk extends the forwarded prefix, or ends it for good. *)
LEMMA HandleRXPacketIInv ==
    ASSUME IInv, NEW h \in Goroutine, HandleRXPacket(h)
    PROVE  IInv'
<1>. USE DEF IInv, HandleRXPacket, rvars, loopvars, closevars, history
<1>0. /\ HandlerOK(h) /\ ForwardOK(h)
      /\ stats \in [Goroutine -> Seq(Addr)] /\ uplinks \in [Goroutine -> Seq(RXPK)]
    BY DEF HandlerInv, ForwardInv, TypeOK
<1>. DEFINE rxpk == hnd[h].data.rxpk
            n == Len(uplinks[h])
<1>1. /\ AckLeft(h) /\ Answerable(h) /\ hnd[h].data.type = "PUSH_DATA" /\ GoodPrefix(h)
      /\ stats[h] = IF hnd[h].data.stat THEN <<hnd[h].addr>> ELSE <<>>
    BY <1>0 DEF HandlerOK, ForwardOK
<1>2. /\ rxpk \in Seq(RXPK) /\ n \in Nat /\ n + 1 \in 1 .. Len(rxpk)
      /\ rxpk[n + 1] \in RXPK
    BY <1>0, StartedType DEF DatagramType
<1>3. CASE Forwardable(rxpk[n + 1]) /\ UNCHANGED hnd
    <2>1. /\ uplinks' = [uplinks EXCEPT ![h] = Append(uplinks[h], rxpk[n + 1])]
          /\ Append(uplinks[h], rxpk[n + 1]) \in Seq(RXPK)
        BY <1>0, <1>2, <1>3
    <2>2. /\ uplinks' \in [Goroutine -> Seq(RXPK)]
          /\ uplinks'[h] = Append(uplinks[h], rxpk[n + 1])
          /\ \A g \in Goroutine \ {h} : uplinks'[g] = uplinks[g]
        BY <1>0, <2>1
    <2>3. /\ Len(uplinks'[h]) = n + 1
          /\ uplinks'[h][n + 1] = rxpk[n + 1]
          /\ \A i \in 1 .. n : uplinks'[h][i] = uplinks[h][i]
        BY <1>0, <1>2, <2>2
    <2>4. Ack(h)' = Ack(h) /\ Answerable(h)' /\ AckLeft(h)'
        BY <1>1, <1>3, AckStable, AckLeftStable
    <2>5. HandlerOK(h)' BY <1>0, <1>3, <2>4 DEF HandlerOK
    <2>6. GoodPrefix(h)'
        <3>1. \A i \in 1 .. n + 1 : uplinks'[h][i] = rxpk[i] /\ Forwardable(rxpk[i])
            <4>. SUFFICES ASSUME NEW i \in 1 .. n + 1
                          PROVE  uplinks'[h][i] = rxpk[i] /\ Forwardable(rxpk[i])
                OBVIOUS
            <4>1. CASE i = n + 1 BY <1>3, <2>3, <4>1
            <4>2. CASE i \in 1 .. n BY <1>1, <2>3, <4>2 DEF GoodPrefix
            <4>. QED BY <1>2, <4>1, <4>2
        <3>2. hnd'[h] = hnd[h] /\ hnd[h].pc = "rx" /\ n + 1 <= Len(rxpk)
            BY <1>2, <1>3
        <3>. QED BY <1>1, <2>3, <2>4, <3>1, <3>2 DEF GoodPrefix
    <2>7. ForwardOK(h)' BY <1>0, <1>1, <1>3, <2>4, <2>6 DEF ForwardOK
    <2>8. Goto(h, "rx")
        <3>1. hnd[h] \in Handlers BY StartedType
        <3>2. [hnd[h] EXCEPT !.pc = "rx"] = hnd[h] BY <3>1 DEF Handlers
        <3>. QED BY <1>3, <3>2 DEF Goto, TypeOK
    <2>. QED BY <1>0, <2>2, <2>5, <2>7, <2>8, MoveIInv
<1>4. CASE ~Forwardable(rxpk[n + 1]) /\ Goto(h, "done") /\ UNCHANGED uplinks
    <2>1. hnd'[h].pc = "done" /\ hnd'[h].data = hnd[h].data /\ hnd'[h].addr = hnd[h].addr
        BY <1>4, GotoType
    <2>2. Ack(h)' = Ack(h) /\ Answerable(h)' /\ AckLeft(h)'
        BY <1>1, <2>1, AckStable, AckLeftStable
    <2>3. HandlerOK(h)' BY <1>0, <1>1, <2>1, <2>2 DEF HandlerOK
    <2>4. ForwardOK(h)' BY <1>1, <1>4, <2>1, <2>2 DEF ForwardOK, GoodPrefix
    <2>. QED BY <1>0, <1>4, <2>3, <2>4, MoveIInv
<1>. QED BY <1>3, <1>4

(* A stored route is an announced one. *)
LEMMA PullDataSetIInv ==
    ASSUME IInv, NEW h \in Goroutine, PullDataSet(h)
    PROVE  IInv'
<1>. USE DEF IInv, PullDataSet, rvars, loopvars, closevars, history
<1>. DEFINE d == hnd[h].data
            a == hnd[h].addr
<1>0. /\ HandlerOK(h) /\ ForwardOK(h) /\ hnd[h].pc = "set"
      /\ d.mac \in MAC /\ d.version \in Version /\ a \in Addr /\ d.type = "PULL_DATA"
      /\ Unmarshalled(d)
    BY StartedType DEF HandlerInv, ForwardInv, HandlerOK, Unmarshalled, DatagramType
<1>1. /\ hnd' \in [Goroutine -> Handlers \cup {NotStarted}]
      /\ hnd'[h].pc = "ack" /\ hnd'[h].data = d /\ hnd'[h].addr = a
      /\ \A g \in Goroutine \ {h} : hnd'[g] = hnd[g]
    BY GotoType
<1>2. PICK age \in Ages : Put(d.mac, [addr |-> a, version |-> d.version, age |-> age])
    OBVIOUS
<1>. DEFINE gw == [addr |-> a, version |-> d.version, age |-> age]
<1>3. gw \in Gateway BY <1>0 DEF Gateway
<1>4. /\ route' = [route EXCEPT ![d.mac] = gw]
      /\ subscribed' \in SUBSET MAC
      /\ announced' = announced \cup {<<d.mac, a, d.version>>}
    BY <1>0, <1>2 DEF Put, New, Refresh, TypeOK, RTypeOK
<1>5. TypeOK'
    <2>1. route' \in [MAC -> Gateway \cup {NoGateway}]
        BY <1>0, <1>3, <1>4 DEF TypeOK, RTypeOK
    <2>2. announced' \in SUBSET (MAC \X Addr \X Version)
        BY <1>0, <1>4 DEF TypeOK
    <2>. QED BY <1>1, <1>4, <2>1, <2>2 DEF TypeOK, RTypeOK
<1>6. CloseInv' BY DEF CloseInv
<1>7. WgInv' BY DEF WgInv, Running
<1>8. RouteInv'
    <2>. SUFFICES ASSUME NEW m \in MAC, route'[m] # NoGateway
                  PROVE  <<m, route'[m].addr, route'[m].version>> \in announced'
        BY DEF RouteInv, Keys
    <2>1. CASE m = d.mac
        BY <1>0, <1>4, <2>1 DEF TypeOK, RTypeOK
    <2>2. CASE m # d.mac
        BY <1>4, <2>2 DEF TypeOK, RTypeOK, RouteInv, Keys
    <2>. QED BY <2>1, <2>2
<1>9. PacketInv' BY <1>0, <1>1, <1>4, PacketsInFlight
<1>10. ASSUME NEW g \in Goroutine PROVE HandlerOK(g)' /\ ForwardOK(g)'
    <2>0. HandlerOK(g) /\ ForwardOK(g) BY DEF HandlerInv, ForwardInv
    <2>1. CASE g = h
        <3>1. acks[h] = <<>> /\ uplinks[h] = <<>> /\ stats[h] = <<>>
            BY <1>0 DEF HandlerOK, ForwardOK
        <3>2. Answerable(h)'
            BY <1>0, <1>1, <1>4 DEF Answerable, Announced, Ack
        <3>. QED BY <1>1, <2>1, <3>1, <3>2 DEF HandlerOK, ForwardOK, GoodPrefix
    <2>2. CASE g # h
        <3>1. AckLeft(g) => AckLeft(g)' BY <1>1, <2>2, AckLeftStable
        <3>. QED BY <1>1, <1>4, <2>0, <2>2, <3>1, OtherHandler
    <2>. QED BY <2>1, <2>2
<1>. QED BY <1>5, <1>6, <1>7, <1>8, <1>9, <1>10 DEF HandlerInv, ForwardInv

(* The sender takes the acknowledgement of a datagram for the first time. *)
LEMMA SendAckIInv ==
    ASSUME IInv, NEW h \in Goroutine, SendAck(h)
    PROVE  IInv'
<1>. USE DEF IInv, SendAck, HandOver, rvars, loopvars, closevars, history
<1>0. /\ HandlerOK(h) /\ ForwardOK(h) /\ Answerable(h) /\ hnd[h].pc = "ack"
      /\ acks[h] = <<>> /\ uplinks[h] = <<>> /\ stats[h] = <<>>
    BY DEF HandlerInv, ForwardInv, HandlerOK, ForwardOK
<1>1. PICK pc \in {"stat", "rx", "done"} :
        /\ Goto(h, pc)
        /\ pc = "done" <=> hnd[h].data.type = "PULL_DATA"
        /\ pc = "stat" => hnd[h].data.stat
        /\ pc = "rx" => ~hnd[h].data.stat
    OBVIOUS
<1>2. /\ hnd' \in [Goroutine -> Handlers \cup {NotStarted}]
      /\ hnd'[h].pc = pc /\ hnd'[h].data = hnd[h].data /\ hnd'[h].addr = hnd[h].addr
      /\ \A g \in Goroutine \ {h} : hnd'[g] = hnd[g]
    BY <1>0, <1>1, GotoType
<1>3. Ack(h)' = Ack(h) /\ Answerable(h)'
    BY <1>0, <1>2, AckStable
<1>4. sender' = [pc |-> "write", pkt |-> Ack(h)] /\ sender.pc = "recv"
    BY DEF Waiting
<1>5. TypeOK'
    <2>1. Ack(h) \in UDPPacket BY <1>0, AckType DEF Answerable
    <2>. QED BY <1>2, <1>4, <2>1 DEF TypeOK, RTypeOK
<1>6. CloseInv' BY DEF CloseInv
<1>7. WgInv' BY <1>4 DEF WgInv, Running
<1>8. RouteInv' BY DEF RouteInv, Keys
<1>9. PacketInv'
    <2>1. tx.pc = "send" => tx.pkt.type = "PULL_RESP" /\ Announced(tx.pkt)'
        BY DEF PacketInv, Announced
    <2>2. PullRespToAnnounced' BY DEF PacketInv, PullRespToAnnounced
    <2>3. sender'.pkt = Ack(h) /\ sender'.pkt.src = h
        BY <1>4 DEF Ack
    <2>. QED BY <1>0, <1>2, <1>3, <2>1, <2>2, <2>3 DEF PacketInv, Answerable, Ack, Announced
<1>10. ASSUME NEW g \in Goroutine PROVE HandlerOK(g)' /\ ForwardOK(g)'
    <2>0. HandlerOK(g) /\ ForwardOK(g) BY DEF HandlerInv, ForwardInv
    <2>1. CASE g = h
        <3>1. AckLeft(h)' BY <1>3, <1>4 DEF AckLeft
        <3>2. HandlerOK(h)' BY <1>0, <1>1, <1>2, <1>3 DEF HandlerOK, Answerable
        <3>3. ForwardOK(h)' BY <1>0, <1>1, <1>2, <3>1 DEF ForwardOK, GoodPrefix
        <3>. QED BY <2>1, <3>2, <3>3
    <2>2. CASE g # h
        <3>1. AckLeft(g) => AckLeft(g)' BY <1>4 DEF AckLeft, LoopEnd
        <3>. QED BY <1>2, <2>0, <2>2, <3>1, OtherHandler
    <2>. QED BY <2>1, <2>2
<1>. QED BY <1>5, <1>6, <1>7, <1>8, <1>9, <1>10 DEF HandlerInv, ForwardInv

(* A panic of a handler changes nothing but the process. *)
LEMMA AckPanicsIInv ==
    ASSUME IInv, NEW h \in Goroutine, AckPanics(h)
    PROVE  IInv'
<1>. USE DEF IInv, AckPanics, SendOnClosed, rvars, loopvars, closevars, history
<1>1. TypeOK' BY DEF TypeOK, RTypeOK, LoopEnd
<1>2. CloseInv' BY DEF CloseInv, TypeOK, Running
<1>3. WgInv' BY DEF WgInv, Busy, Running, TypeOK, LoopEnd
<1>4. RouteInv' BY DEF RouteInv, Keys
<1>5. PacketInv' BY DEF PacketInv, Announced, Answerable, Ack, PullRespToAnnounced
<1>6. HandlerInv' BY HandlerStable
<1>7. ForwardInv'
    <2>1. \A g \in Goroutine : AckLeft(g) => AckLeft(g)' BY DEF AckLeft, Ack
    <2>. QED BY <2>1, ForwardStable
<1>. QED BY <1>1, <1>2, <1>3, <1>4, <1>5, <1>6, <1>7

(* Send, Close and the cleanup goroutine. *)

(* Send takes a route that was announced. *)
LEMMA SendIInv ==
    ASSUME IInv, NEW m \in MAC, Send(m)
    PROVE  IInv'
<1>. USE DEF IInv, Send, rvars, loopvars, closevars, history
<1>0. m \in Keys(route) =>
        PullResp(m) \in UDPPacket /\ Announced(PullResp(m)) /\ PullResp(m).type = "PULL_RESP"
    BY PullRespType DEF RouteInv, Announced, PullResp
<1>1. TypeOK'
    <2>1. sends' \in 0 .. MaxSend BY BoundAssumption DEF TypeOK
    <2>2. tx' \in [pc : {"idle"}] \cup [pc : {"send"}, pkt : UDPPacket]
        BY <1>0 DEF TypeOK
    <2>. QED BY <2>1, <2>2 DEF TypeOK, RTypeOK
<1>2. CloseInv' BY DEF CloseInv, TypeOK, Running
<1>3. WgInv' BY DEF WgInv, Busy, Running, TypeOK, LoopEnd
<1>4. RouteInv' BY DEF RouteInv, Keys
<1>5. PacketInv'
    <2>1. CASE UNCHANGED tx
        BY <2>1 DEF PacketInv, Announced, Answerable, Ack, PullRespToAnnounced
    <2>2. CASE m \in Keys(route) /\ tx' = [pc |-> "send", pkt |-> PullResp(m)]
        BY <1>0, <2>2 DEF PacketInv, Announced, Answerable, Ack, PullRespToAnnounced
    <2>. QED BY <2>1, <2>2
<1>6. HandlerInv' BY HandlerStable
<1>7. ForwardInv'
    <2>1. \A g \in Goroutine : AckLeft(g) => AckLeft(g)' BY DEF AckLeft, Ack
    <2>. QED BY <2>1, ForwardStable
<1>. QED BY <1>1, <1>2, <1>3, <1>4, <1>5, <1>6, <1>7

(* The sender takes the PULL_RESP. *)
LEMMA SendPullRespIInv ==
    ASSUME IInv, SendPullResp
    PROVE  IInv'
<1>. USE DEF IInv, SendPullResp, HandOver, Waiting, rvars, loopvars, closevars, history
<1>1. TypeOK' BY DEF TypeOK, RTypeOK, LoopEnd
<1>2. CloseInv' BY DEF CloseInv, TypeOK, Running
<1>3. WgInv' BY DEF WgInv, Busy, Running, TypeOK, LoopEnd
<1>4. RouteInv' BY DEF RouteInv, Keys
<1>5. PacketInv' BY DEF PacketInv, Announced, Answerable, Ack, PullRespToAnnounced
<1>6. HandlerInv' BY HandlerStable
<1>7. ForwardInv'
    <2>1. \A g \in Goroutine : AckLeft(g) => AckLeft(g)' BY DEF AckLeft, LoopEnd, Ack
    <2>. QED BY <2>1, ForwardStable
<1>. QED BY <1>1, <1>2, <1>3, <1>4, <1>5, <1>6, <1>7

(* A panic of Send changes nothing but the process. *)
LEMMA SendPanicsIInv ==
    ASSUME IInv, SendPanics
    PROVE  IInv'
<1>. USE DEF IInv, SendPanics, SendOnClosed, rvars, loopvars, closevars, history
<1>1. TypeOK' BY DEF TypeOK, RTypeOK, LoopEnd
<1>2. CloseInv' BY DEF CloseInv, TypeOK, Running
<1>3. WgInv' BY DEF WgInv, Busy, Running, TypeOK, LoopEnd
<1>4. RouteInv' BY DEF RouteInv, Keys
<1>5. PacketInv' BY DEF PacketInv, Announced, Answerable, Ack, PullRespToAnnounced
<1>6. HandlerInv' BY HandlerStable
<1>7. ForwardInv'
    <2>1. \A g \in Goroutine : AckLeft(g) => AckLeft(g)' BY DEF AckLeft, Ack
    <2>. QED BY <2>1, ForwardStable
<1>. QED BY <1>1, <1>2, <1>3, <1>4, <1>5, <1>6, <1>7

(* Close sets the flag first. *)
LEMMA CloseFlagIInv ==
    ASSUME IInv, CloseFlag
    PROVE  IInv'
<1>. USE DEF IInv, CloseFlag, rvars, loopvars, closevars, history
<1>1. TypeOK' BY DEF TypeOK, RTypeOK, LoopEnd
<1>2. CloseInv' BY DEF CloseInv, TypeOK, Running
<1>3. WgInv' BY DEF WgInv, Busy, Running, TypeOK, LoopEnd
<1>4. RouteInv' BY DEF RouteInv, Keys
<1>5. PacketInv' BY DEF PacketInv, Announced, Answerable, Ack, PullRespToAnnounced
<1>6. HandlerInv' BY HandlerStable
<1>7. ForwardInv'
    <2>1. \A g \in Goroutine : AckLeft(g) => AckLeft(g)' BY DEF AckLeft, Ack
    <2>. QED BY <2>1, ForwardStable
<1>. QED BY <1>1, <1>2, <1>3, <1>4, <1>5, <1>6, <1>7

(* Close closes the channel after the flag is set. *)
LEMMA CloseChanIInv ==
    ASSUME IInv, CloseChan
    PROVE  IInv'
<1>. USE DEF IInv, CloseChan, rvars, loopvars, closevars, history
<1>1. TypeOK' BY DEF TypeOK, RTypeOK, LoopEnd
<1>2. CloseInv' BY DEF CloseInv, TypeOK, Running
<1>3. WgInv' BY DEF WgInv, Busy, Running, TypeOK, LoopEnd
<1>4. RouteInv' BY DEF RouteInv, Keys
<1>5. PacketInv' BY DEF PacketInv, Announced, Answerable, Ack, PullRespToAnnounced
<1>6. HandlerInv' BY HandlerStable
<1>7. ForwardInv'
    <2>1. \A g \in Goroutine : AckLeft(g) => AckLeft(g)' BY DEF AckLeft, Ack
    <2>. QED BY <2>1, ForwardStable
<1>. QED BY <1>1, <1>2, <1>3, <1>4, <1>5, <1>6, <1>7

(* Close closes the socket last. *)
LEMMA CloseConnIInv ==
    ASSUME IInv, CloseConn
    PROVE  IInv'
<1>. USE DEF IInv, CloseConn, rvars, loopvars, closevars, history
<1>1. TypeOK' BY DEF TypeOK, RTypeOK, LoopEnd
<1>2. CloseInv' BY DEF CloseInv, TypeOK, Running
<1>3. WgInv' BY DEF WgInv, Busy, Running, TypeOK, LoopEnd
<1>4. RouteInv' BY DEF RouteInv, Keys
<1>5. PacketInv' BY DEF PacketInv, Announced, Answerable, Ack, PullRespToAnnounced
<1>6. HandlerInv' BY HandlerStable
<1>7. ForwardInv'
    <2>1. \A g \in Goroutine : AckLeft(g) => AckLeft(g)' BY DEF AckLeft, Ack
    <2>. QED BY <2>1, ForwardStable
<1>. QED BY <1>1, <1>2, <1>3, <1>4, <1>5, <1>6, <1>7

(* Close returns once wg is zero. *)
LEMMA CloseWaitIInv ==
    ASSUME IInv, CloseWait
    PROVE  IInv'
<1>. USE DEF IInv, CloseWait, rvars, loopvars, closevars, history
<1>1. TypeOK' BY DEF TypeOK, RTypeOK, LoopEnd
<1>2. CloseInv' BY DEF CloseInv, TypeOK, Running
<1>3. WgInv' BY DEF WgInv, Busy, Running, TypeOK, LoopEnd
<1>4. RouteInv' BY DEF RouteInv, Keys
<1>5. PacketInv' BY DEF PacketInv, Announced, Answerable, Ack, PullRespToAnnounced
<1>6. HandlerInv' BY HandlerStable
<1>7. ForwardInv'
    <2>1. \A g \in Goroutine : AckLeft(g) => AckLeft(g)' BY DEF AckLeft, Ack
    <2>. QED BY <2>1, ForwardStable
<1>. QED BY <1>1, <1>2, <1>3, <1>4, <1>5, <1>6, <1>7

(* The process ends. *)
LEMMA ExitIInv ==
    ASSUME IInv, Exit
    PROVE  IInv'
<1>. USE DEF IInv, Exit, rvars, loopvars, closevars, history
<1>1. TypeOK' BY DEF TypeOK, RTypeOK, LoopEnd
<1>2. CloseInv' BY DEF CloseInv, TypeOK, Running
<1>3. WgInv' BY DEF WgInv, Busy, Running, TypeOK, LoopEnd
<1>4. RouteInv' BY DEF RouteInv, Keys
<1>5. PacketInv' BY DEF PacketInv, Announced, Answerable, Ack, PullRespToAnnounced
<1>6. HandlerInv' BY HandlerStable
<1>7. ForwardInv'
    <2>1. \A g \in Goroutine : AckLeft(g) => AckLeft(g)' BY DEF AckLeft, Ack
    <2>. QED BY <2>1, ForwardStable
<1>. QED BY <1>1, <1>2, <1>3, <1>4, <1>5, <1>6, <1>7

(* The clock and the cleanup only age and remove routes. *)
LEMMA CleanupIInv ==
    ASSUME IInv, Cleanup
    PROVE  IInv'
<1>. USE DEF IInv, Cleanup, rvars, loopvars, closevars, history
<1>0. /\ route' \in [MAC -> Gateway \cup {NoGateway}]
      /\ subscribed' \in SUBSET MAC
      /\ \A m \in Keys(route') : /\ m \in Keys(route)
                                /\ route'[m].addr = route[m].addr
                                /\ route'[m].version = route[m].version
    <2>1. CASE Tick
        BY <2>1, OlderMapRoutes DEF Tick, TypeOK, RTypeOK
    <2>2. ASSUME NEW m \in MAC, Forget(m)
          PROVE  /\ route' \in [MAC -> Gateway \cup {NoGateway}]
                 /\ subscribed' \in SUBSET MAC
                 /\ \A k \in Keys(route') : k \in Keys(route) /\ route'[k] = route[k]
        BY <2>2 DEF Forget, TypeOK, RTypeOK, Keys
    <2>. QED BY <2>1, <2>2
<1>1. TypeOK' BY <1>0 DEF TypeOK, RTypeOK
<1>2. CloseInv' BY DEF CloseInv, TypeOK, Running
<1>3. WgInv' BY DEF WgInv, Busy, Running, TypeOK, LoopEnd
<1>4. RouteInv'
    BY <1>0 DEF RouteInv
<1>5. PacketInv' BY DEF PacketInv, Announced, Answerable, Ack, PullRespToAnnounced
<1>6. HandlerInv' BY HandlerStable
<1>7. ForwardInv'
    <2>1. \A g \in Goroutine : AckLeft(g) => AckLeft(g)' BY DEF AckLeft, Ack
    <2>. QED BY <2>1, ForwardStable
<1>. QED BY <1>1, <1>2, <1>3, <1>4, <1>5, <1>6, <1>7

-----------------------------------------------------------------------------
(* Every step of a handler goroutine preserves the invariant. *)
LEMMA HandleIInv ==
    ASSUME IInv, NEW h \in Goroutine, Handle(h)
    PROVE  IInv'
BY HandlePacketIInv, PullDataSetIInv, PullDataRefusedIInv, SendAckIInv, AckPanicsIInv,
   HandleStatIInv, HandleRXPacketIInv, PushDataEndIInv DEF Handle

(* Every step preserves the invariant: one lemma for each action above. *)
LEMMA NextIInv == IInv /\ [Next]_vars => IInv'
<1>. SUFFICES ASSUME IInv, [Next]_vars PROVE IInv' OBVIOUS
<1>1. CASE ReaderStart \/ ReadError \/ ReaderEnd
    BY <1>1, ReaderStartIInv, ReadErrorIInv, ReaderEndIInv
<1>2. CASE SenderStart \/ SenderWrite \/ WriteError \/ SenderDrained \/ SenderEnd \/ Fatal
    BY <1>2, SenderStartIInv, SenderWriteIInv, WriteErrorIInv, SenderDrainedIInv,
       SenderEndIInv, FatalIInv
<1>3. ASSUME NEW h \in Goroutine, NEW a \in Addr, NEW d \in Datagram, Receive(h, a, d)
      PROVE  IInv'
    BY <1>3, ReceiveIInv
<1>4. ASSUME NEW h \in Goroutine, Handle(h) PROVE IInv'
    BY <1>4, HandleIInv
<1>5. ASSUME NEW m \in MAC, Send(m) PROVE IInv'
    BY <1>5, SendIInv
<1>6. CASE SendPullResp \/ SendPanics
    BY <1>6, SendPullRespIInv, SendPanicsIInv
<1>7. CASE CloseFlag \/ CloseChan \/ CloseConn \/ CloseWait \/ Exit
    BY <1>7, CloseFlagIInv, CloseChanIInv, CloseConnIInv, CloseWaitIInv, ExitIInv
<1>8. CASE Cleanup
    BY <1>8, CleanupIInv
<1>9. CASE UNCHANGED vars
    <2>. USE <1>9 DEF IInv, vars, loopvars, closevars, history
    <2>1. TypeOK' BY DEF TypeOK, RTypeOK
    <2>2. CloseInv' BY DEF CloseInv
    <2>3. WgInv' BY DEF WgInv, Running
    <2>4. RouteInv' BY DEF RouteInv
    <2>5. PacketInv' BY DEF PacketInv, Announced, Answerable, Ack, PullRespToAnnounced
    <2>6. HandlerInv' BY HandlerStable
    <2>7. ForwardInv'
        <3>1. \A g \in Goroutine : AckLeft(g) => AckLeft(g)' BY DEF AckLeft, Ack
        <3>. QED BY <3>1, ForwardStable
    <2>. QED BY <2>1, <2>2, <2>3, <2>4, <2>5, <2>6, <2>7
<1>. QED BY <1>1, <1>2, <1>3, <1>4, <1>5, <1>6, <1>7, <1>8, <1>9 DEF Next

(* The inductive invariant holds in every reachable state of the backend. *)
THEOREM IInvHolds == Spec => []IInv
BY InitIInv, NextIInv, PTL DEF Spec

-----------------------------------------------------------------------------
(* Whatever datagrams arrive and whenever Send and Close are called, the   *)
(* variables of the backend stay in their types.                           *)
THEOREM TypeCorrect == Spec => []TypeOK
<1>1. IInv => TypeOK BY DEF IInv
<1>. QED BY <1>1, IInvHolds, PTL

(* Send never writes a PULL_RESP to an address, or in a version, that the  *)
(* gateway did not announce by an accepted PULL_DATA.                      *)
THEOREM DownlinksGoHome == Spec => []PullRespToAnnounced
<1>1. IInv => PullRespToAnnounced BY DEF IInv, PacketInv
<1>. QED BY <1>1, IInvHolds, PTL

(* Every acknowledgement answers the datagram it was written for, at most  *)
(* once, and a PULL_ACK confirms a route that set has stored.              *)
THEOREM AcksAreAnswers == Spec => []AcksAnswerRequests
<1>1. IInv => AcksAnswerRequests
    <2>. SUFFICES ASSUME IInv, NEW h \in Goroutine, acks[h] # <<>>
                  PROVE  /\ acks[h] = <<Ack(h)>>
                         /\ Answerable(h)
        BY DEF AcksAnswerRequests, Answerable, Announced, Ack
    <2>. QED BY DEF IInv, HandlerInv, HandlerOK
<1>. QED BY <1>1, IInvHolds, PTL

(* handlePushData forwards the rxpks of a datagram up to the first bad one, *)
(* all of them once it is done, and nothing before the PUSH_ACK.           *)
THEOREM UplinksAreForwarded == Spec => []UplinksAreGoodPrefix
<1>1. IInv => UplinksAreGoodPrefix
    BY DEF IInv, ForwardInv, ForwardOK, UplinksAreGoodPrefix
<1>. QED BY <1>1, IInvHolds, PTL

(* The order of the steps of Close keeps the loops it ends from calling    *)
(* log.Fatal: whoever meets the closed channel or socket finds the flag.   *)
THEOREM CloseIsClean == Spec => ShutdownIsNotFatal
<1>1. ASSUME IInv, [Next]_vars
      PROVE  /\ reader = "ended" => reader' \in {"ended", "done"}
             /\ sender.pc = "ended" => sender'.pc \in {"ended", "done"}
    <2>. USE DEF loopvars
    <2>0. /\ reader = "ended" => closed
          /\ sender.pc = "ended" => closed
        BY <1>1 DEF IInv, CloseInv
    <2>1. ASSUME NEW h \in Goroutine, Handle(h)
          PROVE  UNCHANGED reader /\ (UNCHANGED sender \/ sender = Waiting)
        BY <2>1 DEF Handle, HandlePacket, PullDataSet, PullDataRefused, SendAck, HandOver,
           AckPanics, SendOnClosed, HandleStat, HandleRXPacket, PushDataEnd
    <2>2. ASSUME NEW h \in Goroutine, NEW a \in Addr, NEW d \in Datagram, Receive(h, a, d)
          PROVE  UNCHANGED <<reader, sender>>
        BY <2>2 DEF Receive
    <2>3. ASSUME NEW m \in MAC, Send(m) PROVE UNCHANGED <<reader, sender>>
        BY <2>3 DEF Send
    <2>4. CASE ReaderStart \/ ReadError \/ ReaderEnd
        BY <2>0, <2>4 DEF ReaderStart, ReadError, ReaderEnd, ClosedAsRead
    <2>5. CASE SenderStart \/ SenderWrite \/ WriteError \/ SenderDrained
        BY <2>5 DEF SenderStart, SenderWrite, WriteError, SenderDrained, Waiting
    <2>6. CASE SenderEnd
        <3>1. UNCHANGED reader BY <2>6 DEF SenderEnd
        <3>2. ASSUME sender.pc = "ended" PROVE sender'.pc = "done"
            <4>1. ClosedAsRead(sender.pc) = {TRUE} BY <2>0, <3>2, <1>1 DEF ClosedAsRead, IInv, TypeOK
            <4>2. sender' = [pc |-> "done"] BY <2>6, <4>1 DEF SenderEnd
            <4>. QED BY <4>2
        <3>. QED BY <3>1, <3>2
    <2>7. CASE SendPullResp
        BY <2>7 DEF SendPullResp, HandOver, Waiting
    <2>8. CASE Fatal \/ SendPanics \/ CloseFlag \/ CloseChan \/ CloseConn \/ CloseWait
               \/ Exit \/ Cleanup
        BY <2>8 DEF Fatal, SendPanics, SendOnClosed, CloseFlag, CloseChan, CloseConn,
           CloseWait, Exit, Cleanup
    <2>9. CASE UNCHANGED vars BY <2>9 DEF vars
    <2>10. sender = Waiting => sender.pc # "ended" BY DEF Waiting
    <2>. QED BY <1>1, <2>1, <2>2, <2>3, <2>4, <2>5, <2>6, <2>7, <2>8, <2>9, <2>10 DEF Next
<1>2. IInv /\ [Next]_vars =>
        [/\ reader = "ended" => reader' \in {"ended", "done"}
         /\ sender.pc = "ended" => sender'.pc \in {"ended", "done"}]_vars
    BY <1>1
<1>. QED BY <1>2, IInvHolds, PTL DEF Spec, ShutdownIsNotFatal

(* When wg.Wait lets Close return, neither loop is running. *)
THEOREM CloseWaits == Spec => CloseWaitsForLoops
<1>1. IInv /\ [Next]_vars =>
        [closer' = "done" /\ closer # "done"
           => reader \in {"new", "done"} /\ sender.pc \in {"new", "done"}]_vars
    <2>. SUFFICES ASSUME IInv, Next, closer' = "done", closer # "done"
                  PROVE  reader \in {"new", "done"} /\ sender.pc \in {"new", "done"}
        OBVIOUS
    <2>1. CloseWait
        <3>. USE DEF closevars
        <3>1. ASSUME NEW h \in Goroutine, Handle(h) PROVE UNCHANGED closer
            BY <3>1 DEF Handle, HandlePacket, PullDataSet, PullDataRefused, SendAck,
               AckPanics, SendOnClosed, HandleStat, HandleRXPacket, PushDataEnd
        <3>2. ASSUME NEW h \in Goroutine, NEW a \in Addr, NEW d \in Datagram,
                     Receive(h, a, d)
              PROVE  UNCHANGED closer
            BY <3>2 DEF Receive
        <3>3. ASSUME NEW m \in MAC, Send(m) PROVE UNCHANGED closer
            BY <3>3 DEF Send
        <3>4. ~(ReaderStart \/ ReadError \/ ReaderEnd \/ SenderStart \/ SenderWrite
                \/ WriteError \/ SenderDrained \/ SenderEnd \/ Fatal)
            BY DEF ReaderStart, ReadError, ReaderEnd, SenderStart, SenderWrite, WriteError,
               SenderDrained, SenderEnd, Fatal
        <3>5. ~(SendPullResp \/ SendPanics \/ CloseFlag \/ CloseChan \/ CloseConn
                \/ Exit \/ Cleanup)
            BY DEF SendPullResp, SendPanics, SendOnClosed, CloseFlag, CloseChan, CloseConn,
               Exit, Cleanup
        <3>. QED BY <3>1, <3>2, <3>3, <3>4, <3>5 DEF Next
    <2>2. /\ Busy(reader \notin {"new", "done"}) = 0
          /\ Busy(sender.pc \notin {"new", "done"}) = 0
        BY <2>1 DEF CloseWait, IInv, WgInv, Busy
    <2>. QED BY <2>2 DEF Busy, IInv, TypeOK, LoopEnd
<1>. QED BY <1>1, IInvHolds, PTL DEF Spec, CloseWaitsForLoops

-----------------------------------------------------------------------------
(* The backend and the registry. *)

(* Every handler and every loop uses the registry by its operations only:  *)
(* what the backend does to it is a behaviour of Registry, which the       *)
(* registry with its lock implements.                                      *)
THEOREM BackendUsesRegistry == Spec => RSpec
<1>1. Init => RInit BY DEF Init
<1>2. ASSUME IInv, [Next]_vars PROVE [RNext]_rvars
    <2>. USE DEF rvars
    <2>1. ASSUME NEW h \in Goroutine, PullDataSet(h) PROVE RNext
        <3>1. hnd[h].pc # "new" BY <2>1 DEF PullDataSet
        <3>2. /\ hnd[h].addr \in Addr /\ hnd[h].data.mac \in MAC
              /\ hnd[h].data.version \in Version
            BY <1>2, <2>1, <3>1, StartedType
            DEF PullDataSet, DatagramType, IInv, HandlerInv, HandlerOK, Unmarshalled
        <3>3. PICK age \in Ages :
                Put(hnd[h].data.mac,
                    [addr |-> hnd[h].addr, version |-> hnd[h].data.version, age |-> age])
            BY <2>1 DEF PullDataSet
        <3>4. [addr |-> hnd[h].addr, version |-> hnd[h].data.version, age |-> age] \in Gateway
            BY <3>2 DEF Gateway
        <3>. QED BY <3>2, <3>3, <3>4 DEF RNext
    <2>2. ASSUME NEW h \in Goroutine, Handle(h), ~PullDataSet(h) PROVE UNCHANGED rvars
        BY <2>2 DEF Handle, HandlePacket, PullDataRefused, SendAck, AckPanics, SendOnClosed,
           HandleStat, HandleRXPacket, PushDataEnd
    <2>3. CASE Cleanup BY <2>3 DEF Cleanup, RNext
    <2>4. ASSUME NEW h \in Goroutine, NEW a \in Addr, NEW d \in Datagram, Receive(h, a, d)
          PROVE  UNCHANGED rvars
        BY <2>4 DEF Receive
    <2>5. ASSUME NEW m \in MAC, Send(m) PROVE UNCHANGED rvars
        BY <2>5 DEF Send
    <2>6. ASSUME ReaderStart \/ ReadError \/ ReaderEnd \/ SenderStart \/ SenderWrite
                 \/ WriteError \/ SenderDrained \/ SenderEnd \/ Fatal
          PROVE  UNCHANGED rvars
        BY <2>6 DEF ReaderStart, ReadError, ReaderEnd, SenderStart, SenderWrite, WriteError,
           SenderDrained, SenderEnd, Fatal
    <2>7. ASSUME SendPullResp \/ SendPanics \/ CloseFlag \/ CloseChan \/ CloseConn
                 \/ CloseWait \/ Exit
          PROVE  UNCHANGED rvars
        BY <2>7 DEF SendPullResp, SendPanics, SendOnClosed, CloseFlag, CloseChan, CloseConn,
           CloseWait, Exit
    <2>8. CASE UNCHANGED vars BY <2>8 DEF vars
    <2>. QED BY <1>2, <2>1, <2>2, <2>3, <2>4, <2>5, <2>6, <2>7, <2>8 DEF Next
<1>3. IInv /\ [Next]_vars => [RNext]_rvars BY <1>2
<1>. QED BY <1>1, <1>3, IInvHolds, PTL DEF Spec, RSpec

(* What Registry promises whoever uses it: exactly the gateways it knows   *)
(* have a downlink subscription.                                           *)
RouteIffSubscribed == RTypeOK /\ subscribed = Keys(route)

(* Registry keeps its promise. *)
LEMMA RegistryPromise == RSpec => []RouteIffSubscribed
<1>1. RInit => RouteIffSubscribed
    BY DEF RInit, RouteIffSubscribed, RTypeOK, Keys
<1>2. ASSUME RouteIffSubscribed, [RNext]_rvars PROVE RouteIffSubscribed'
    <2>. USE DEF RouteIffSubscribed, RTypeOK
    <2>1. ASSUME NEW m \in MAC, NEW g \in Gateway, Put(m, g) PROVE RouteIffSubscribed'
        <3>1. route' = [route EXCEPT ![m] = g] BY <2>1 DEF Put, New, Refresh
        <3>2. Keys(route') = Keys(route) \cup {m}
            BY <1>2, <3>1, NoGatewayAssumption DEF Keys
        <3>3. subscribed' = subscribed \cup {m}
            BY <1>2, <2>1 DEF Put, New, Refresh
        <3>. QED BY <1>2, <3>1, <3>2, <3>3
    <2>2. ASSUME NEW m \in MAC, Forget(m) PROVE RouteIffSubscribed'
        BY <1>2, <2>2 DEF Forget, Keys
    <2>3. CASE Tick BY <1>2, <2>3, OlderMapRoutes DEF Tick
    <2>4. CASE UNCHANGED rvars BY <1>2, <2>4 DEF rvars
    <2>. QED BY <1>2, <2>1, <2>2, <2>3, <2>4 DEF RNext
<1>3. RouteIffSubscribed /\ [RNext]_rvars => RouteIffSubscribed' BY <1>2
<1>. QED BY <1>1, <1>3, PTL DEF RSpec

(* Put together: while the backend serves any datagrams and is closed at   *)
(* any moment, a downlink can be routed to exactly the gateways that are   *)
(* subscribed.                                                             *)
THEOREM RoutesAreSubscribed == Spec => []RouteIffSubscribed
BY BackendUsesRegistry, RegistryPromise, PTL

-----------------------------------------------------------------------------
(* The panic of a send on the closed udpSendChan is a matter of shutdown:  *)
(* it takes a Close that has begun, and a goroutine that still had an      *)
(* acknowledgement or a downlink to hand over.                             *)
PanicNeedsShutdown ==
    proc = "panic" => /\ closed /\ chanClosed
                      /\ tx.pc = "send" \/ \E h \in Goroutine : hnd[h].pc = "ack"

(* Nothing happens once the process has ended. *)
LEMMA NothingAfterwards == ~Running /\ [Next]_vars => UNCHANGED vars
<1>. SUFFICES ASSUME ~Running, Next PROVE FALSE OBVIOUS
<1>1. ASSUME NEW h \in Goroutine PROVE ~Handle(h)
    BY DEF Handle, HandlePacket, PullDataSet, PullDataRefused, SendAck, AckPanics,
       HandleStat, HandleRXPacket, PushDataEnd
<1>2. ASSUME NEW h \in Goroutine, NEW a \in Addr, NEW d \in Datagram PROVE ~Receive(h, a, d)
    BY DEF Receive
<1>3. ASSUME NEW m \in MAC PROVE ~Send(m) BY DEF Send
<1>4. ~(ReaderStart \/ ReadError \/ ReaderEnd \/ SenderStart \/ SenderWrite \/ WriteError
        \/ SenderDrained \/ SenderEnd \/ Fatal)
    BY DEF ReaderStart, ReadError, ReaderEnd, SenderStart, SenderWrite, WriteError,
       SenderDrained, SenderEnd, Fatal
<1>5. ~(SendPullResp \/ SendPanics \/ CloseFlag \/ CloseChan \/ CloseConn \/ CloseWait
        \/ Exit \/ Cleanup)
    BY DEF SendPullResp, SendPanics, CloseFlag, CloseChan, CloseConn, CloseWait, Exit, Cleanup
<1>. QED BY <1>1, <1>2, <1>3, <1>4, <1>5 DEF Next

(* The only steps that end the process in a panic are the sends on the     *)
(* channel that Close has closed.                                          *)
LEMMA PanicStep ==
    ASSUME Next, proc # "panic", proc' = "panic"
    PROVE  SendPanics \/ \E h \in Goroutine : AckPanics(h)
<1>1. ASSUME NEW h \in Goroutine, Handle(h) PROVE AckPanics(h)
    BY <1>1 DEF Handle, HandlePacket, PullDataSet, PullDataRefused, SendAck, HandleStat,
       HandleRXPacket, PushDataEnd
<1>2. ASSUME NEW h \in Goroutine, NEW a \in Addr, NEW d \in Datagram PROVE ~Receive(h, a, d)
    BY DEF Receive
<1>3. ASSUME NEW m \in MAC PROVE ~Send(m) BY DEF Send
<1>4. ~(ReaderStart \/ ReadError \/ ReaderEnd \/ SenderStart \/ SenderWrite \/ WriteError
        \/ SenderDrained \/ SenderEnd \/ Fatal)
    BY DEF ReaderStart, ReadError, ReaderEnd, SenderStart, SenderWrite, WriteError,
       SenderDrained, SenderEnd, Fatal
<1>5. ~(SendPullResp \/ CloseFlag \/ CloseChan \/ CloseConn \/ CloseWait \/ Exit \/ Cleanup)
    BY DEF SendPullResp, CloseFlag, CloseChan, CloseConn, CloseWait, Exit, Cleanup
<1>. QED BY <1>1, <1>2, <1>3, <1>4, <1>5 DEF Next

(* How far the panic that the bridge's shutdown can end in goes: a bridge  *)
(* in service never panics on udpSendChan, nor does one whose goroutines   *)
(* have nothing left to hand over when it is closed.                       *)
THEOREM PanicOnlyInShutdown == Spec => []PanicNeedsShutdown
<1>1. Init => PanicNeedsShutdown BY DEF Init, PanicNeedsShutdown
<1>2. ASSUME IInv, PanicNeedsShutdown, [Next]_vars PROVE PanicNeedsShutdown'
    <2>. SUFFICES ASSUME proc' = "panic" PROVE PanicNeedsShutdown'
        BY DEF PanicNeedsShutdown
    <2>1. CASE proc = "panic"
        <3>1. UNCHANGED vars BY <1>2, <2>1, NothingAfterwards DEF Running
        <3>. QED BY <1>2, <3>1 DEF vars, closevars, PanicNeedsShutdown
    <2>2. CASE proc # "panic"
        <3>1. SendPanics \/ \E h \in Goroutine : AckPanics(h)
            BY <1>2, <2>2, PanicStep DEF vars
        <3>2. chanClosed /\ UNCHANGED <<hnd, tx, closevars>>
            BY <3>1 DEF SendPanics, AckPanics, SendOnClosed
        <3>3. closed BY <1>2, <3>2 DEF IInv, CloseInv
        <3>. QED BY <3>1, <3>2, <3>3
             DEF SendPanics, AckPanics, closevars, PanicNeedsShutdown
    <2>. QED BY <2>1, <2>2
<1>3. IInv /\ PanicNeedsShutdown /\ [Next]_vars => PanicNeedsShutdown' BY <1>2
<1>. QED BY <1>1, <1>3, IInvHolds, PTL DEF Spec
=============================================================================
