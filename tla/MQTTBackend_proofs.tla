------------------------- MODULE MQTTBackend_proofs --------------------------
(* Proofs about MQTTBackend, for any number of gateways, connections,      *)
(* calls and messages.                                                     *)
EXTENDS MQTTBackend, TLAPS

Elems(q) == {q[i] : i \in DOMAIN q}

(* The call has queued its request and has no answer; or it has not        *)
(* changed the map yet.                                                    *)
CallWaits == caller.pc = "wait"
CallUnderway == caller.pc \in {"wait", "return"}

(* Whose answers are on their way to the client's loop. *)
Acked == Acks(back)

(* A request that is queued or written is the one its goroutine waits for: *)
(* the map has not changed since onConnected read it.                      *)
Owned(r) ==
    /\ r.who = 0 => CallWaits /\ r.op = caller.op /\ r.topics = {caller.mac}
    /\ r.who # 0 => onConn[r.who] = "wait" /\ r.op = "sub" /\ r.topics = gateways
OwnedInv == \A r \in Elems(outq) \cup Elems(wire) : Owned(r)

(* Every goroutine waits for one request, which is in one place. *)
Single(q) == \A i, j \in DOMAIN q : q[i].who = q[j].who => i = j
IsAck(x) == "ack" \in DOMAIN x
SingleAck == \A i, j \in DOMAIN back :
                 IsAck(back[i]) /\ IsAck(back[j]) /\ back[i].ack = back[j].ack => i = j
OnceInv ==
    /\ Single(outq) /\ Single(wire) /\ SingleAck
    /\ Waiting(outq) \cap Waiting(wire) = {}
    /\ Waiting(outq) \cap Acked = {} /\ Waiting(wire) \cap Acked = {}

(* What the broker answered is what it still does, while the connection    *)
(* is up.                                                                  *)
Served(w) ==
    /\ w = 0 => CallWaits
    /\ w # 0 => onConn[w] = "wait"
    /\ conn = "up" =>
          /\ w = 0 => /\ caller.op = "sub" => caller.mac \in broker \cup refused
                      /\ caller.op = "unsub" => caller.mac \notin broker
          /\ w # 0 => gateways \subseteq broker \cup refused
AckInv == \A w \in Acked : Served(w)

(* The map's lock: a call excludes every onConnected. *)
LockInv == caller.pc \in {"call", "wait", "return"} => Readers = {}

(* onConnected runs for connections that were made, and so do the loops. *)
ConnInv ==
    /\ conn \in {"losing", "hung", "down", "closing"} => nconn < MaxConn
    /\ free + held <= nconn
    /\ \A c \in Conn : c > nconn => onConn[c] = "none"

(* The broker forgets a connection that is given up, and what incoming     *)
(* read of it is handled before there is another one.                      *)
GivenUpInv ==
    /\ conn # "up" => broker = {} /\ wire = <<>>
    /\ conn = "down" => back = <<>>

(* The gateways a call that waits is about to add and to remove. *)
Adding == IF CallUnderway /\ caller.op = "sub" THEN {caller.mac} ELSE {}
Removing == IF CallUnderway /\ caller.op = "unsub" THEN {caller.mac} ELSE {}

(* onConnected has subscribed, on the connection that is up. *)
Resubscribed == conn = "up" /\ onConn[nconn] \in {"return", "done"}

(* The handlers are those of the map, as the call will leave it; the       *)
(* broker knows no other gateway; after onConnected it knows them all, but *)
(* for those it refused; and a call that is about to change the map finds  *)
(* the broker as it asked, unless the connection was lost in between and   *)
(* onConnected, which waits for the map, has yet to subscribe.             *)
RouteInv == routes = (gateways \cup Adding) \ Removing
BrokerInv == broker \subseteq gateways \cup Adding
RestoredInv == Resubscribed => gateways \ Removing \subseteq broker \cup refused
ReturnInv ==
    caller.pc = "return" =>
        /\ caller.op = "unsub" => caller.mac \notin broker
        /\ caller.op = "sub" /\ Resubscribed => caller.mac \in broker \cup refused

IInv ==
    /\ TypeOK /\ OwnedInv /\ OnceInv /\ AckInv /\ LockInv /\ ConnInv /\ GivenUpInv
    /\ RouteInv /\ BrokerInv /\ RestoredInv /\ ReturnInv

-----------------------------------------------------------------------------
(* Elements of a queue, and an element that is added to it or taken off. *)
LEMMA AppendQueue ==
    ASSUME NEW q \in Seq(Request), NEW r \in Request
    PROVE  /\ Append(q, r) \in Seq(Request)
           /\ Elems(Append(q, r)) = Elems(q) \cup {r}
           /\ Waiting(Append(q, r)) = Waiting(q) \cup {r.who}
           /\ Single(q) /\ r.who \notin Waiting(q) => Single(Append(q, r))
<1>. DEFINE a == Append(q, r)
<1>1. a \in Seq(Request) /\ DOMAIN q = 1 .. Len(q) /\ DOMAIN a = 1 .. Len(q) + 1 /\ Len(q) \in Nat
    OBVIOUS
<1>2. a[Len(q) + 1] = r /\ \A i \in 1 .. Len(q) : a[i] = q[i] OBVIOUS
<1>. HIDE DEF a
<1>3. DOMAIN a = DOMAIN q \cup {Len(q) + 1} /\ Len(q) + 1 \notin DOMAIN q BY <1>1
<1>4. Elems(a) = Elems(q) \cup {r} BY <1>1, <1>2, <1>3 DEF Elems
<1>5. Waiting(a) = Waiting(q) \cup {r.who} BY <1>1, <1>2, <1>3 DEF Waiting
<1>6. ASSUME Single(q), r.who \notin Waiting(q) PROVE Single(a)
    <2>1. \A i \in DOMAIN q : q[i].who # r.who BY <1>6 DEF Waiting
    <2>. QED BY <1>1, <1>2, <1>3, <1>6, <2>1 DEF Single
<1>. QED BY <1>1, <1>4, <1>5, <1>6 DEF a

(* The first request is taken out of a queue. *)
LEMMA TakeQueue ==
    ASSUME NEW q \in Seq(Request), q # <<>>
    PROVE  /\ Head(q) \in Request /\ Head(q) \in Elems(q)
           /\ Tail(q) \in Seq(Request)
           /\ Elems(Tail(q)) \subseteq Elems(q)
           /\ Head(q).who \in Waiting(q)
           /\ Waiting(Tail(q)) \subseteq Waiting(q)
           /\ Single(q) => Single(Tail(q)) /\ Head(q).who \notin Waiting(Tail(q))
<1>. DEFINE t == Tail(q)
<1>1. /\ Len(q) \in Nat \ {0} /\ DOMAIN q = 1 .. Len(q) /\ Head(q) = q[1] /\ 1 \in DOMAIN q
      /\ t \in Seq(Request) /\ DOMAIN t = 1 .. Len(q) - 1
    OBVIOUS
<1>2. \A i \in DOMAIN t : t[i] = q[i + 1] OBVIOUS
<1>. HIDE DEF t
<1>3. \A i \in DOMAIN t : i + 1 \in DOMAIN q /\ i + 1 # 1 /\ i \in Nat BY <1>1
<1>4. Elems(t) \subseteq Elems(q) BY <1>2, <1>3 DEF Elems
<1>5. Waiting(t) \subseteq Waiting(q) BY <1>2, <1>3 DEF Waiting
<1>6. Head(q) \in Elems(q) /\ Head(q).who \in Waiting(q) /\ Head(q) \in Request
    BY <1>1 DEF Elems, Waiting
<1>7. ASSUME Single(q) PROVE Single(t) /\ q[1].who \notin Waiting(t)
    <2>1. \A i, j \in DOMAIN t : q[i + 1].who = q[j + 1].who => i + 1 = j + 1
        BY <1>3, <1>7 DEF Single
    <2>2. Single(t) BY <1>2, <1>3, <2>1 DEF Single
    <2>3. \A i \in DOMAIN t : q[i + 1].who # q[1].who BY <1>1, <1>3, <1>7 DEF Single
    <2>. QED BY <1>2, <2>2, <2>3 DEF Waiting
<1>. QED BY <1>1, <1>4, <1>5, <1>6, <1>7 DEF t

(* An empty queue. *)
LEMMA EmptyQueue ==
    /\ <<>> \in Seq(Request) /\ Elems(<<>>) = {} /\ Waiting(<<>>) = {} /\ Single(<<>>)
    /\ <<>> \in Seq(Packet)
BY DEF Elems, Waiting, Single

(* An answer is an acknowledgement or a message. *)
LEMMA Packets ==
    /\ \A w \in 0 .. MaxConn : [ack |-> w] \in Packet /\ IsAck([ack |-> w])
    /\ Message \in Packet /\ ~IsAck(Message)
    /\ \A x \in Packet : IsAck(x) => x.ack \in 0 .. MaxConn
BY DEF Packet, Message, IsAck

(* An answer or a message joins the ones on their way back. *)
LEMMA AppendBack ==
    ASSUME back \in Seq(Packet), NEW x \in Packet, back' = Append(back, x)
    PROVE  /\ back' \in Seq(Packet)
           /\ IsAck(x) => Acked' = Acked \cup {x.ack}
           /\ ~IsAck(x) => Acked' = Acked
           /\ SingleAck /\ (IsAck(x) => x.ack \notin Acked) => SingleAck'
<1>1. /\ back' \in Seq(Packet) /\ DOMAIN back = 1 .. Len(back)
      /\ DOMAIN back' = 1 .. Len(back) + 1 /\ Len(back) \in Nat
    OBVIOUS
<1>2. back'[Len(back) + 1] = x /\ \A i \in 1 .. Len(back) : back'[i] = back[i] OBVIOUS
<1>3. DOMAIN back' = DOMAIN back \cup {Len(back) + 1} /\ Len(back) + 1 \notin DOMAIN back
    BY <1>1
<1>4. IsAck(x) => Acked' = Acked \cup {x.ack} BY ONLY <1>1, <1>2, <1>3 DEF Acked, Acks, IsAck
<1>5. ~IsAck(x) => Acked' = Acked BY ONLY <1>1, <1>2, <1>3 DEF Acked, Acks, IsAck
<1>6. ASSUME SingleAck, IsAck(x) => x.ack \notin Acked PROVE SingleAck'
    <2>1. \A i \in DOMAIN back : IsAck(x) /\ IsAck(back[i]) => back[i].ack # x.ack
        BY ONLY <1>6 DEF Acked, Acks, IsAck
    <2>. QED BY ONLY <1>1, <1>2, <1>3, <1>6, <2>1 DEF SingleAck
<1>. QED BY <1>1, <1>4, <1>5, <1>6

(* The first answer or message is taken. *)
LEMMA TakeBack ==
    ASSUME back \in Seq(Packet), back # <<>>, back' = Tail(back)
    PROVE  /\ Head(back) \in Packet /\ back' \in Seq(Packet)
           /\ IsAck(Head(back)) => Head(back).ack \in Acked
           /\ Acked' \subseteq Acked
           /\ SingleAck => /\ SingleAck'
                           /\ IsAck(Head(back)) => Head(back).ack \notin Acked'
<1>1. /\ Len(back) \in Nat \ {0} /\ DOMAIN back = 1 .. Len(back)
      /\ Head(back) = back[1] /\ 1 \in DOMAIN back
      /\ back' \in Seq(Packet) /\ DOMAIN back' = 1 .. Len(back) - 1
    OBVIOUS
<1>2. \A i \in DOMAIN back' : back'[i] = back[i + 1] OBVIOUS
<1>3. \A i \in DOMAIN back' : i + 1 \in DOMAIN back /\ i + 1 # 1 /\ i \in Nat BY ONLY <1>1
<1>4. Acked' \subseteq Acked BY ONLY <1>2, <1>3 DEF Acked, Acks
<1>5. IsAck(back[1]) => back[1].ack \in Acked BY ONLY <1>1 DEF Acked, Acks, IsAck
<1>6. ASSUME SingleAck PROVE SingleAck' /\ (IsAck(back[1]) => back[1].ack \notin Acked')
    <2>1. \A i, j \in DOMAIN back' :
            IsAck(back[i + 1]) /\ IsAck(back[j + 1]) /\ back[i + 1].ack = back[j + 1].ack
              => i + 1 = j + 1
        BY ONLY <1>3, <1>6 DEF SingleAck
    <2>2. SingleAck' BY ONLY <1>2, <1>3, <2>1 DEF SingleAck
    <2>3. \A i \in DOMAIN back' :
            IsAck(back[i + 1]) /\ IsAck(back[1]) => back[i + 1].ack # back[1].ack
        BY ONLY <1>1, <1>3, <1>6 DEF SingleAck
    <2>4. IsAck(back[1]) => back[1].ack \notin Acked'
        BY ONLY <1>2, <2>3 DEF Acked, Acks, IsAck
    <2>. QED BY <2>2, <2>4
<1>7. Head(back) \in Packet BY <1>1
<1>. QED BY <1>1, <1>4, <1>5, <1>6, <1>7

(* What is left of the answers when a connection is given up. *)
LEMMA LeftBack ==
    ASSUME back \in Seq(Packet), back' \in Left
    PROVE  back' \in Seq(Packet) /\ Acked' \subseteq Acked /\ (SingleAck => SingleAck')
<1>1. PICK n \in {0, 1} \cap 0 .. Len(back) : back' = SubSeq(back, 1, n) BY DEF Left
<1>2. Len(back) \in Nat /\ DOMAIN back = 1 .. Len(back) /\ n \in Nat /\ n <= Len(back)
    OBVIOUS
<1>3. back' \in Seq(Packet) /\ DOMAIN back' = 1 .. n /\ \A i \in 1 .. n : back'[i] = back[i]
    <2>1. \A i \in 1 .. n : back[i] \in Packet BY <1>2
    <2>. QED BY <1>1, <1>2, <2>1
<1>4. \A i \in DOMAIN back' : i \in DOMAIN back /\ back'[i] = back[i] BY ONLY <1>2, <1>3
<1>5. Acked' \subseteq Acked BY ONLY <1>4 DEF Acked, Acks
<1>6. SingleAck => SingleAck' BY ONLY <1>4 DEF SingleAck
<1>. QED BY <1>3, <1>5, <1>6

(* Nothing is on its way back. *)
LEMMA NoBack ==
    ASSUME back = <<>> PROVE Acked = {} /\ SingleAck
BY DEF Acked, Acks, SingleAck

-----------------------------------------------------------------------------
(* The call of the registry and its record. *)
LEMMA CallRecord ==
    ASSUME TypeOK
    PROVE  /\ Idle.pc = "idle"
           /\ caller.pc # "idle" => caller # Idle
           /\ caller # Idle => caller \in RegistryCall
           /\ caller \in RegistryCall => /\ caller.op \in {"sub", "unsub"} /\ caller.mac \in MAC
                                         /\ caller.pc \in {"lock", "call", "wait", "return"}
<1>1. Idle.pc = "idle" BY DEF Idle
<1>2. caller \in {Idle} \cup RegistryCall BY DEF TypeOK
<1>3. \A c \in RegistryCall : /\ c.op \in {"sub", "unsub"} /\ c.mac \in MAC
                              /\ c.pc \in {"lock", "call", "wait", "return"}
    BY DEF RegistryCall
<1>. QED BY <1>1, <1>2, <1>3

(* The requests in a queue. *)
LEMMA QueueType ==
    ASSUME NEW q \in Seq(Request)
    PROVE  /\ \A r \in Elems(q) : /\ r \in Request /\ r.who \in 0 .. MaxConn
                                  /\ r.topics \subseteq MAC /\ r.op \in {"sub", "unsub"}
                                  /\ r.who \in Waiting(q)
           /\ \A w \in Waiting(q) : \E r \in Elems(q) : r.who = w
<1>1. \A i \in DOMAIN q : q[i] \in Request OBVIOUS
<1>2. \A r \in Request : /\ r.who \in 0 .. MaxConn
                         /\ r.topics \subseteq MAC /\ r.op \in {"sub", "unsub"}
    BY DEF Request
<1>. QED BY ONLY <1>1, <1>2 DEF Elems, Waiting

(* Whoever has a request under way waits for it.  Nobody but the call has  *)
(* one while the call holds the lock.                                      *)
LEMMA Underway ==
    ASSUME IInv
    PROVE  /\ \A w \in Waiting(outq) \cup Waiting(wire) \cup Acked :
                /\ w \in 0 .. MaxConn
                /\ w = 0 => CallWaits
                /\ w # 0 => w \in Conn /\ onConn[w] = "wait"
                /\ caller.pc \in {"call", "wait", "return"} => w = 0
<1>1. /\ outq \in Seq(Request) /\ wire \in Seq(Request) /\ back \in Seq(Packet)
      /\ MaxConn \in Nat
    BY MQTTAssumption DEF IInv, TypeOK
<1>2. ASSUME NEW w \in Waiting(outq) \cup Waiting(wire)
      PROVE  w \in 0 .. MaxConn /\ (w = 0 => CallWaits) /\ (w # 0 => onConn[w] = "wait")
    <2>1. PICK r \in Elems(outq) \cup Elems(wire) : r.who = w BY <1>1, QueueType
    <2>2. Owned(r) /\ r.who \in 0 .. MaxConn BY <1>1, QueueType DEF IInv, OwnedInv
    <2>. QED BY ONLY <2>1, <2>2 DEF Owned
<1>3. \A w \in Acked : w \in 0 .. MaxConn
    <2>1. \A i \in DOMAIN back : back[i] \in Packet BY <1>1
    <2>. QED BY ONLY <2>1, Packets DEF Acked, Acks, IsAck
<1>4. ASSUME NEW w \in Acked PROVE (w = 0 => CallWaits) /\ (w # 0 => onConn[w] = "wait")
    BY DEF IInv, AckInv, Served
<1>5. ASSUME NEW w \in Waiting(outq) \cup Waiting(wire) \cup Acked
      PROVE  /\ w \in 0 .. MaxConn /\ (w = 0 => CallWaits)
             /\ w # 0 => w \in Conn /\ onConn[w] = "wait"
    BY <1>1, <1>2, <1>3, <1>4 DEF Conn
<1>6. ASSUME NEW w \in Conn, onConn[w] = "wait", caller.pc \in {"call", "wait", "return"} PROVE FALSE
    BY <1>6 DEF IInv, LockInv, Readers
<1>. QED BY <1>5, <1>6

(* The answers stay as they are. *)
LEMMA SameBack ==
    ASSUME UNCHANGED back PROVE Acked' = Acked /\ SingleAck' = SingleAck
BY DEF Acked, Acks, SingleAck

(* Nothing that concerns the subscriptions changes. *)
LEMMA Frame ==
    ASSUME IInv, TypeOK', free' + held' <= nconn,
           UNCHANGED <<conn, nconn, client, gateways, caller, onConn>>
    PROVE  IInv'
<1>. USE DEF IInv, client
<1>1. OwnedInv' BY DEF OwnedInv, Owned, CallWaits
<1>2. OnceInv' BY SameBack DEF OnceInv
<1>3. AckInv' BY SameBack DEF AckInv, Served, CallWaits
<1>4. LockInv' /\ ConnInv' /\ GivenUpInv' BY DEF LockInv, Readers, ConnInv, GivenUpInv
<1>5. RouteInv' /\ BrokerInv' /\ RestoredInv' /\ ReturnInv'
    BY DEF RouteInv, BrokerInv, RestoredInv, ReturnInv, Resubscribed, Adding, Removing, CallUnderway
<1>. QED BY <1>1, <1>2, <1>3, <1>4, <1>5

(* The invariant holds initially. *)
LEMMA InitIInv == Init => IInv
<1>. SUFFICES ASSUME Init PROVE IInv OBVIOUS
<1>. USE MQTTAssumption DEF Init
<1>1. TypeOK
    <2>1. onConn \in [Conn -> {"none", "lock", "call", "wait", "return", "done"}] OBVIOUS
    <2>2. free \in Nat /\ held \in Nat /\ free + held <= MaxConn /\ inq \in 0 .. Depth OBVIOUS
    <2>3. nconn \in Conn /\ calls \in 0 .. MaxCall /\ msgs \in 0 .. MaxMsg BY DEF Conn
    <2>4. outq \in Seq(Request) /\ wire \in Seq(Request) /\ back \in Seq(Packet) BY EmptyQueue
    <2>. QED BY <2>1, <2>2, <2>3, <2>4 DEF TypeOK
<1>2. Elems(outq) = {} /\ Elems(wire) = {} /\ Waiting(outq) = {} /\ Waiting(wire) = {}
    BY EmptyQueue
<1>3. OwnedInv BY <1>2 DEF OwnedInv
<1>4. OnceInv BY <1>2, EmptyQueue, NoBack DEF OnceInv
<1>5. AckInv BY NoBack DEF AckInv
<1>6. LockInv /\ ConnInv /\ GivenUpInv BY DEF LockInv, ConnInv, GivenUpInv, Idle, Conn
<1>7. RouteInv /\ BrokerInv /\ RestoredInv /\ ReturnInv
    BY DEF RouteInv, BrokerInv, RestoredInv, ReturnInv, Adding, Removing, CallUnderway, Idle
<1>. QED BY <1>1, <1>3, <1>4, <1>5, <1>6, <1>7 DEF IInv

(* The registry calls SubscribeGatewayTX or UnSubscribeGatewayTX. *)
LEMMA CallIInv ==
    ASSUME IInv, NEW op \in {"sub", "unsub"}, NEW m \in MAC, Call(op, m)
    PROVE  IInv'
<1>. USE MQTTAssumption DEF IInv, Call, client, inbound
<1>a. Acked' = Acked /\ SingleAck' = SingleAck BY SameBack
<1>b. \A r \in Elems(outq) \cup Elems(wire) : r.who \in 0 .. MaxConn
    BY QueueType DEF TypeOK
<1>c. \A w \in Acked : w \in 0 .. MaxConn BY Underway
<1>d. caller.pc = "idle" /\ caller'.pc = "lock" BY CallRecord
<1>1. TypeOK'
    <2>1. caller' \in {Idle} \cup RegistryCall BY CallRecord DEF RegistryCall
    <2>2. calls' \in 0 .. MaxCall BY DEF TypeOK
    <2>. QED BY <2>1, <2>2 DEF TypeOK
<1>2. OwnedInv' BY <1>a, <1>d DEF OwnedInv, Owned, CallWaits
<1>3. OnceInv' BY <1>a DEF OnceInv
<1>4. AckInv' BY <1>a, <1>d DEF AckInv, Served, CallWaits
<1>5. LockInv' BY <1>a, <1>d DEF LockInv, Readers
<1>6. ConnInv' BY <1>a, <1>d DEF ConnInv
<1>7. RouteInv' BY <1>a, <1>d DEF RouteInv, Adding, Removing, CallUnderway
<1>8. BrokerInv' BY <1>a, <1>d DEF BrokerInv, Adding, CallUnderway
<1>9. RestoredInv' BY <1>a, <1>d DEF RestoredInv, Resubscribed, Removing, CallUnderway
<1>10. GivenUpInv' BY DEF GivenUpInv
<1>11. ReturnInv' BY <1>d DEF ReturnInv
<1>. QED BY <1>1, <1>2, <1>3, <1>4, <1>5, <1>6, <1>7, <1>8, <1>9, <1>10, <1>11

(* The call gets the lock: no onConnected holds it. *)
LEMMA CallLockIInv ==
    ASSUME IInv, CallLock
    PROVE  IInv'
<1>. USE MQTTAssumption DEF IInv, CallLock, client, inbound
<1>a. Acked' = Acked /\ SingleAck' = SingleAck BY SameBack
<1>b. \A r \in Elems(outq) \cup Elems(wire) : r.who \in 0 .. MaxConn
    BY QueueType DEF TypeOK
<1>c. \A w \in Acked : w \in 0 .. MaxConn BY Underway
<1>d. caller.pc = "lock" /\ caller'.pc = "call"
    <2>1. caller \in RegistryCall BY CallRecord
    <2>. QED BY <2>1 DEF RegistryCall
<1>1. TypeOK'
    <2>1. caller' \in {Idle} \cup RegistryCall BY CallRecord DEF RegistryCall
    <2>. QED BY <2>1 DEF TypeOK
<1>2. OwnedInv' BY <1>a, <1>d DEF OwnedInv, Owned, CallWaits
<1>3. OnceInv' BY <1>a DEF OnceInv
<1>4. AckInv' BY <1>a, <1>d DEF AckInv, Served, CallWaits
<1>5. LockInv' BY <1>a, <1>d DEF LockInv, Readers
<1>6. ConnInv' BY <1>a, <1>d DEF ConnInv
<1>7. RouteInv' BY <1>a, <1>d DEF RouteInv, Adding, Removing, CallUnderway
<1>8. BrokerInv' BY <1>a, <1>d DEF BrokerInv, Adding, CallUnderway
<1>9. RestoredInv' BY <1>a, <1>d DEF RestoredInv, Resubscribed, Removing, CallUnderway
<1>10. GivenUpInv' BY DEF GivenUpInv
<1>11. ReturnInv' BY <1>d DEF ReturnInv
<1>. QED BY <1>1, <1>2, <1>3, <1>4, <1>5, <1>6, <1>7, <1>8, <1>9, <1>10, <1>11

(* The call fails on a closed client. *)
LEMMA CallFailsIInv ==
    ASSUME IInv, CallFails
    PROVE  IInv'
<1>. USE MQTTAssumption DEF IInv, CallFails, client, inbound
<1>a. Acked' = Acked /\ SingleAck' = SingleAck BY SameBack
<1>b. \A r \in Elems(outq) \cup Elems(wire) : r.who \in 0 .. MaxConn
    BY QueueType DEF TypeOK
<1>c. \A w \in Acked : w \in 0 .. MaxConn BY Underway
<1>d. caller.pc = "call" /\ caller'.pc = "idle" BY CallRecord
<1>1. TypeOK'
    <2>1. caller' \in {Idle} \cup RegistryCall BY CallRecord DEF RegistryCall
    <2>. QED BY <2>1 DEF TypeOK
<1>2. OwnedInv' BY <1>a, <1>d DEF OwnedInv, Owned, CallWaits
<1>3. OnceInv' BY <1>a DEF OnceInv
<1>4. AckInv' BY <1>a, <1>d DEF AckInv, Served, CallWaits
<1>5. LockInv' BY <1>a, <1>d DEF LockInv, Readers
<1>6. ConnInv' BY <1>a, <1>d DEF ConnInv
<1>7. RouteInv' BY <1>a, <1>d DEF RouteInv, Adding, Removing, CallUnderway
<1>8. BrokerInv' BY <1>a, <1>d DEF BrokerInv, Adding, CallUnderway
<1>9. RestoredInv' BY <1>a, <1>d DEF RestoredInv, Resubscribed, Removing, CallUnderway
<1>10. GivenUpInv' BY DEF GivenUpInv
<1>11. ReturnInv' BY <1>d DEF ReturnInv
<1>. QED BY <1>1, <1>2, <1>3, <1>4, <1>5, <1>6, <1>7, <1>8, <1>9, <1>10, <1>11

(* onConnected gets the lock, or has nothing to subscribe. *)
LEMMA OnConnectedLockIInv ==
    ASSUME IInv, NEW c \in Conn, OnConnectedLock(c)
    PROVE  IInv'
<1>. USE MQTTAssumption DEF IInv, OnConnectedLock, client, inbound
<1>a. Acked' = Acked /\ SingleAck' = SingleAck BY SameBack
<1>b. \A r \in Elems(outq) \cup Elems(wire) : r.who \in 0 .. MaxConn
    BY QueueType DEF TypeOK
<1>c. \A w \in Acked : w \in 0 .. MaxConn BY Underway
<1>d. caller.pc = "idle" /\ caller' = caller BY CallRecord
<1>e. /\ onConn[c] = "lock" /\ onConn'[c] \in {"call", "done"}
      /\ onConn'[c] = "done" => gateways = {}
      /\ \A d \in Conn : d # c => onConn'[d] = onConn[d]
    BY DEF TypeOK
<1>1. TypeOK'
    <2>1. onConn' \in [Conn -> {"none", "lock", "call", "wait", "return", "done"}] BY DEF TypeOK
    <2>. QED BY <2>1 DEF TypeOK
<1>2. OwnedInv' BY <1>b, <1>d, <1>e DEF OwnedInv, Owned, CallWaits, Conn
<1>3. OnceInv' BY <1>a DEF OnceInv
<1>4. AckInv' BY <1>a, <1>c, <1>d, <1>e DEF AckInv, Served, CallWaits, Conn
<1>5. LockInv' BY <1>d DEF LockInv
<1>6. ConnInv' BY <1>e DEF ConnInv
<1>7. RouteInv' BY <1>a, <1>d DEF RouteInv, Adding, Removing, CallUnderway
<1>8. BrokerInv' BY <1>a, <1>d DEF BrokerInv, Adding, CallUnderway
<1>9. RestoredInv' BY <1>d, <1>e DEF RestoredInv, Resubscribed, Removing, CallUnderway, TypeOK
<1>10. GivenUpInv' BY DEF GivenUpInv
<1>11. ReturnInv' BY <1>d DEF ReturnInv
<1>. QED BY <1>1, <1>2, <1>3, <1>4, <1>5, <1>6, <1>7, <1>8, <1>9, <1>10, <1>11

(* The request of a call is queued. *)
LEMMA CallRequestIInv ==
    ASSUME IInv, CallRequest
    PROVE  IInv'
<1>. USE MQTTAssumption DEF IInv, CallRequest, client, inbound
<1>z. /\ caller \in RegistryCall /\ caller.op \in {"sub", "unsub"} /\ caller.mac \in MAC
      /\ caller.pc = "call"
    BY CallRecord
<1>a. Acked' = Acked /\ SingleAck' = SingleAck BY SameBack
<1>. DEFINE r == [op |-> caller.op, topics |-> {caller.mac}, who |-> 0]
<1>b. r \in Request /\ r.who = 0 /\ r.op = caller.op /\ r.topics = {caller.mac}
    BY <1>z DEF Request, TypeOK, Conn
<1>. HIDE DEF r
<1>c. outq' = Append(outq, r) /\ outq \in Seq(Request) BY DEF TypeOK, r
<1>d. /\ outq' \in Seq(Request)
      /\ Elems(outq') = Elems(outq) \cup {r}
      /\ Waiting(outq') = Waiting(outq) \cup {r.who}
      /\ Single(outq) /\ r.who \notin Waiting(outq) => Single(outq')
    BY ONLY <1>b, <1>c, AppendQueue
<1>e. /\ Waiting(outq) = {} /\ Waiting(wire) = {} /\ Acked = {}
    <2>1. \A w \in Waiting(outq) \cup Waiting(wire) \cup Acked : FALSE
        BY <1>z, Underway DEF CallWaits
    <2>. QED BY <2>1
<1>h. Elems(outq) = {} /\ Elems(wire') = {}
    BY <1>e, QueueType DEF TypeOK
<1>f. caller'.pc = "wait" /\ caller'.op = caller.op /\ caller'.mac = caller.mac
    BY <1>z DEF RegistryCall
<1>1. TypeOK'
    <2>1. caller' \in {Idle} \cup RegistryCall BY <1>z DEF RegistryCall
    <2>2. routes' \subseteq MAC BY <1>z DEF TypeOK
    <2>. QED BY <1>d, <2>1, <2>2 DEF TypeOK
<1>2. OwnedInv' BY ONLY <1>b, <1>d, <1>e, <1>f, <1>h DEF OwnedInv, Owned, CallWaits
<1>3. OnceInv'
    <2>1. OnceInv /\ wire' = wire OBVIOUS
    <2>. QED BY ONLY <1>a, <1>d, <1>e, <2>1 DEF OnceInv
<1>4. AckInv' BY <1>a, <1>e DEF AckInv
<1>5. LockInv' BY DEF LockInv, Readers
<1>6. ConnInv' BY <1>f, <1>z DEF ConnInv
<1>7. RouteInv' BY <1>f, <1>z DEF RouteInv, Adding, Removing, CallUnderway
<1>8. BrokerInv' BY <1>f, <1>z DEF BrokerInv, Adding, CallUnderway
<1>9. RestoredInv' BY <1>f, <1>z DEF RestoredInv, Resubscribed, Removing, CallUnderway
<1>10. GivenUpInv' BY DEF GivenUpInv
<1>11. ReturnInv' BY <1>f DEF ReturnInv
<1>. QED BY <1>1, <1>2, <1>3, <1>4, <1>5, <1>6, <1>7, <1>8, <1>9, <1>10, <1>11

(* onConnected queues the subscription of all gateways. *)
LEMMA OnConnectedRequestIInv ==
    ASSUME IInv, NEW c \in Conn, OnConnectedRequest(c)
    PROVE  IInv'
<1>. USE MQTTAssumption DEF IInv, OnConnectedRequest, client, inbound
<1>a. Acked' = Acked /\ SingleAck' = SingleAck BY SameBack
<1>. DEFINE r == [op |-> "sub", topics |-> gateways, who |-> c]
<1>b. r \in Request /\ r.who = c /\ r.op = "sub" /\ r.topics = gateways
    BY DEF Request, TypeOK, Conn
<1>. HIDE DEF r
<1>c. outq' = Append(outq, r) /\ outq \in Seq(Request) BY DEF TypeOK, r
<1>d. /\ outq' \in Seq(Request)
      /\ Elems(outq') = Elems(outq) \cup {r}
      /\ Waiting(outq') = Waiting(outq) \cup {r.who}
      /\ Single(outq) /\ r.who \notin Waiting(outq) => Single(outq')
    BY ONLY <1>b, <1>c, AppendQueue
<1>e. c \notin Waiting(outq) /\ c \notin Waiting(wire) /\ c \notin Acked
    <2>1. c # 0 /\ onConn[c] = "call" BY DEF Conn
    <2>. QED BY <2>1, Underway
<1>f. /\ onConn[c] = "call" /\ onConn'[c] = "wait"
      /\ \A d \in Conn : d # c => onConn'[d] = onConn[d]
    BY DEF TypeOK
<1>g. caller.pc \notin {"call", "wait", "return"} /\ caller' = caller BY DEF LockInv, Readers
<1>1. TypeOK'
    <2>1. onConn' \in [Conn -> {"none", "lock", "call", "wait", "return", "done"}] BY DEF TypeOK
    <2>2. routes' \subseteq MAC BY DEF TypeOK
    <2>. QED BY <1>d, <2>1, <2>2 DEF TypeOK
<1>2. OwnedInv'
    <2>1. /\ OwnedInv /\ gateways' = gateways /\ caller' = caller /\ wire' = wire
          /\ \A q \in Elems(outq) \cup Elems(wire) : q.who \in 0 .. MaxConn
        BY QueueType DEF TypeOK
    <2>2. \A w \in 0 .. MaxConn : w # 0 => w \in Conn BY DEF Conn
    <2>3. c # 0 BY DEF Conn
    <2>. QED BY ONLY <1>b, <1>d, <1>f, <2>1, <2>2, <2>3 DEF OwnedInv, Owned, CallWaits
<1>3. OnceInv'
    <2>1. OnceInv /\ wire' = wire OBVIOUS
    <2>. QED BY ONLY <1>a, <1>b, <1>d, <1>e, <2>1 DEF OnceInv
<1>4. AckInv'
    <2>1. AckInv /\ UNCHANGED <<conn, gateways, caller, broker, refused>> OBVIOUS
    <2>2. \A w \in Acked : w # 0 => w \in Conn BY Underway
    <2>. QED BY ONLY <1>a, <1>f, <2>1, <2>2 DEF AckInv, Served, CallWaits
<1>5. LockInv' BY <1>g DEF LockInv
<1>6. ConnInv' BY <1>f DEF ConnInv, Conn
<1>7. RouteInv' BY <1>g DEF RouteInv, Adding, Removing, CallUnderway
<1>8. BrokerInv' BY DEF BrokerInv, Adding, CallUnderway
<1>9. RestoredInv' BY <1>f DEF RestoredInv, Resubscribed, Removing, CallUnderway, TypeOK
<1>10. GivenUpInv' BY DEF GivenUpInv
<1>11. ReturnInv' BY <1>g DEF ReturnInv
<1>. QED BY <1>1, <1>2, <1>3, <1>4, <1>5, <1>6, <1>7, <1>8, <1>9, <1>10, <1>11

(* The first request of the queue is written. *)
LEMMA WriteIInv ==
    ASSUME IInv, Write
    PROVE  IInv'
<1>. USE MQTTAssumption DEF IInv, Write, client, inbound
<1>a. Acked' = Acked /\ SingleAck' = SingleAck BY SameBack
<1>. DEFINE r == Head(outq)
<1>b. outq \in Seq(Request) /\ wire \in Seq(Request) /\ outq # <<>> BY DEF TypeOK
<1>e. outq' = Tail(outq) /\ wire' = Append(wire, r) OBVIOUS
<1>c. /\ r \in Request /\ r \in Elems(outq)
      /\ outq' \in Seq(Request)
      /\ Elems(outq') \subseteq Elems(outq)
      /\ r.who \in Waiting(outq)
      /\ Waiting(outq') \subseteq Waiting(outq)
      /\ Single(outq) => Single(outq') /\ r.who \notin Waiting(outq')
    BY ONLY <1>b, <1>e, TakeQueue
<1>. HIDE DEF r
<1>d. /\ wire' \in Seq(Request)
      /\ Elems(wire') = Elems(wire) \cup {r}
      /\ Waiting(wire') = Waiting(wire) \cup {r.who}
      /\ Single(wire) /\ r.who \notin Waiting(wire) => Single(wire')
    BY ONLY <1>b, <1>c, <1>e, AppendQueue
<1>1. TypeOK' BY <1>c, <1>d DEF TypeOK
<1>2. OwnedInv' BY <1>c, <1>d DEF OwnedInv, Owned, CallWaits
<1>3. OnceInv'
    <2>1. OnceInv OBVIOUS
    <2>. QED BY ONLY <1>a, <1>c, <1>d, <2>1 DEF OnceInv
<1>4. AckInv' BY <1>a DEF AckInv, Served, CallWaits
<1>5. LockInv' BY DEF LockInv, Readers
<1>6. ConnInv' BY DEF ConnInv
<1>7. RouteInv' BY DEF RouteInv, Adding, Removing, CallUnderway
<1>8. BrokerInv' BY DEF BrokerInv, Adding, CallUnderway
<1>9. RestoredInv' BY DEF RestoredInv, Resubscribed, Removing, CallUnderway
<1>10. GivenUpInv' BY DEF GivenUpInv
<1>11. ReturnInv' BY DEF ReturnInv, Resubscribed
<1>. QED BY <1>1, <1>2, <1>3, <1>4, <1>5, <1>6, <1>7, <1>8, <1>9, <1>10, <1>11

(* The broker answers a request. *)
LEMMA AnswerIInv ==
    ASSUME IInv, NEW no \in SUBSET MAC, Answer(no)
    PROVE  IInv'
<1>. USE MQTTAssumption DEF IInv, Answer, client, inbound
<1>. DEFINE r == Head(wire)
            x == [ack |-> r.who]
<1>b. /\ wire \in Seq(Request) /\ back \in Seq(Packet) /\ wire # <<>>
      /\ wire' = Tail(wire) /\ back' = Append(back, x)
    BY DEF TypeOK
<1>c. /\ r \in Request /\ r \in Elems(wire)
      /\ wire' \in Seq(Request)
      /\ Elems(wire') \subseteq Elems(wire)
      /\ r.who \in Waiting(wire)
      /\ Waiting(wire') \subseteq Waiting(wire)
      /\ Single(wire) => Single(wire') /\ r.who \notin Waiting(wire')
    BY ONLY <1>b, TakeQueue
<1>e. /\ no \subseteq r.topics /\ (r.op = "unsub" => no = {})
      /\ broker' = IF r.op = "unsub" THEN broker \ r.topics ELSE broker \cup (r.topics \ no)
      /\ refused' = (refused \ r.topics) \cup no
      /\ r.topics \subseteq MAC /\ r.op \in {"sub", "unsub"}
    BY <1>b, <1>c, QueueType
<1>f. Owned(r) /\ UNCHANGED <<caller, gateways, onConn>> BY <1>c DEF OwnedInv
<1>. HIDE DEF r
<1>d. /\ back' \in Seq(Packet) /\ Acked' = Acked \cup {r.who}
      /\ SingleAck /\ r.who \notin Acked => SingleAck'
    <2>1. r.who \in 0 .. MaxConn BY <1>c, Underway
    <2>2. x \in Packet /\ IsAck(x) /\ x.ack = r.who BY <2>1, Packets
    <2>. HIDE DEF x
    <2>3. /\ back' \in Seq(Packet)
          /\ IsAck(x) => Acked' = Acked \cup {x.ack}
          /\ SingleAck /\ (IsAck(x) => x.ack \notin Acked) => SingleAck'
        BY ONLY <1>b, <2>2, AppendBack
    <2>. QED BY ONLY <2>2, <2>3
<1>1. TypeOK'
    <2>1. broker' \subseteq MAC /\ refused' \subseteq MAC BY <1>e DEF TypeOK
    <2>. QED BY <1>c, <1>d, <2>1 DEF TypeOK
<1>2. OwnedInv' BY <1>c DEF OwnedInv, Owned, CallWaits
<1>3. OnceInv'
    <2>1. OnceInv /\ outq' = outq OBVIOUS
    <2>. QED BY ONLY <1>c, <1>d, <2>1 DEF OnceInv
<1>4. AckInv'
    <2>. SUFFICES ASSUME NEW w \in Acked' PROVE Served(w)' BY DEF AckInv
    <2>1. CASE w = r.who BY ONLY <1>e, <1>f, <2>1 DEF Served, Owned, CallWaits
    <2>2. CASE w # r.who
        <3>1. w \in Acked /\ Served(w) BY <1>d, <2>2 DEF AckInv
        <3>2. w # 0 /\ r.who # 0
            <4>1. CASE w = 0 BY <4>1, <2>2, <3>1, <1>c, Underway DEF CallWaits
            <4>2. CASE r.who = 0 BY <4>2, <2>2, <3>1, <1>c, Underway DEF CallWaits
            <4>. QED BY <4>1, <4>2
        <3>. QED BY ONLY <1>e, <1>f, <3>1, <3>2 DEF Served, Owned, CallWaits
    <2>. QED BY <2>1, <2>2
<1>5. LockInv' BY DEF LockInv, Readers
<1>6. ConnInv' BY DEF ConnInv
<1>7. RouteInv' BY DEF RouteInv, Adding, Removing, CallUnderway
<1>8. BrokerInv'
    <2>1. BrokerInv OBVIOUS
    <2>. QED BY ONLY <1>e, <1>f, <2>1 DEF BrokerInv, Adding, CallUnderway, CallWaits, Owned
<1>9. RestoredInv'
    <2>1. RestoredInv /\ UNCHANGED <<conn, nconn>> OBVIOUS
    <2>. QED BY ONLY <1>e, <1>f, <2>1
         DEF RestoredInv, Resubscribed, Removing, CallUnderway, CallWaits, Owned
<1>10. GivenUpInv' BY DEF GivenUpInv
<1>11. ReturnInv'
    <2>1. caller.pc # "return" BY <1>c, Underway DEF CallWaits
    <2>. QED BY ONLY <1>f, <2>1 DEF ReturnInv
<1>. QED BY <1>1, <1>2, <1>3, <1>4, <1>5, <1>6, <1>7, <1>8, <1>9, <1>10, <1>11

(* The broker sends a message. *)
LEMMA SendMessageIInv ==
    ASSUME IInv, SendMessage
    PROVE  IInv'
<1>. USE MQTTAssumption DEF IInv, SendMessage, client, inbound
<1>. DEFINE x == Message
<1>a. back \in Seq(Packet) /\ back' = Append(back, x) /\ x \in Packet /\ ~IsAck(x)
    BY Packets DEF TypeOK
<1>. HIDE DEF x
<1>b. back' \in Seq(Packet) /\ Acked' = Acked /\ (SingleAck => SingleAck')
    BY ONLY <1>a, AppendBack
<1>1. TypeOK'
    <2>1. msgs' \in 0 .. MaxMsg BY DEF TypeOK
    <2>. QED BY <1>b, <2>1 DEF TypeOK
<1>2. OwnedInv' BY DEF OwnedInv, Owned, CallWaits
<1>3. OnceInv' BY <1>b DEF OnceInv
<1>4. AckInv' BY <1>b DEF AckInv, Served, CallWaits
<1>5. LockInv' BY DEF LockInv, Readers
<1>6. ConnInv' BY DEF ConnInv
<1>7. RouteInv' BY DEF RouteInv, Adding, Removing, CallUnderway
<1>8. BrokerInv' BY DEF BrokerInv, Adding, CallUnderway
<1>9. RestoredInv' BY DEF RestoredInv, Resubscribed, Removing, CallUnderway
<1>10. GivenUpInv' BY DEF GivenUpInv
<1>11. ReturnInv' BY DEF ReturnInv, Resubscribed
<1>. QED BY <1>1, <1>2, <1>3, <1>4, <1>5, <1>6, <1>7, <1>8, <1>9, <1>10, <1>11

(* The client takes a message. *)
LEMMA HandleMessageIInv ==
    ASSUME IInv, HandleMessage
    PROVE  IInv'
<1>. USE MQTTAssumption DEF IInv, HandleMessage, client, inbound
<1>b. back \in Seq(Packet) /\ back # <<>> /\ back' = Tail(back) BY DEF TypeOK
<1>. DEFINE x == Head(back)
<1>c. /\ x \in Packet /\ back' \in Seq(Packet)
      /\ IsAck(x) => x.ack \in Acked
      /\ Acked' \subseteq Acked
      /\ SingleAck => SingleAck' /\ (IsAck(x) => x.ack \notin Acked')
    BY ONLY <1>b, TakeBack
<1>1. TypeOK'
    <2>1. free' \in Nat /\ held' \in Nat /\ free' + held' = free + held BY DEF TypeOK
    <2>. QED BY <1>c, <2>1 DEF TypeOK
<1>2. OwnedInv' BY DEF OwnedInv, Owned, CallWaits
<1>3. OnceInv'
    <2>1. OnceInv /\ UNCHANGED <<outq, wire>> OBVIOUS
    <2>. QED BY ONLY <1>c, <2>1 DEF OnceInv
<1>4. AckInv' BY <1>c DEF AckInv, Served, CallWaits
<1>5. LockInv' BY DEF LockInv, Readers
<1>6. ConnInv' BY DEF ConnInv, TypeOK
<1>7. RouteInv' BY DEF RouteInv, Adding, Removing, CallUnderway
<1>8. BrokerInv' BY DEF BrokerInv, Adding, CallUnderway
<1>9. RestoredInv' BY DEF RestoredInv, Resubscribed, Removing, CallUnderway
<1>10. GivenUpInv' BY <1>b DEF GivenUpInv
<1>11. ReturnInv' BY DEF ReturnInv, Resubscribed
<1>. QED BY <1>1, <1>2, <1>3, <1>4, <1>5, <1>6, <1>7, <1>8, <1>9, <1>10, <1>11

(* The call of the registry gets its answer. *)
LEMMA CallAckIInv ==
    ASSUME IInv, HandleAck, Head(back).ack = 0
    PROVE  IInv'
<1>. USE MQTTAssumption DEF IInv, HandleAck, client, inbound
<1>b. back \in Seq(Packet) /\ back # <<>> /\ back' = Tail(back) BY DEF TypeOK
<1>. DEFINE x == Head(back)
<1>c. /\ x \in Packet /\ back' \in Seq(Packet)
      /\ IsAck(x) => x.ack \in Acked
      /\ Acked' \subseteq Acked
      /\ SingleAck => SingleAck' /\ (IsAck(x) => x.ack \notin Acked')
    BY ONLY <1>b, TakeBack
<1>d. IsAck(x) /\ x.ack = 0 BY DEF IsAck
<1>. HIDE DEF x
<1>e. 0 \in Acked /\ Served(0) BY <1>c, <1>d DEF AckInv
<1>f. /\ CallWaits /\ caller \in RegistryCall /\ caller.op \in {"sub", "unsub"}
      /\ caller.mac \in MAC
    BY <1>e, CallRecord DEF Served, CallWaits
<1>g. /\ caller' = [caller EXCEPT !.pc = "return"]
      /\ UNCHANGED <<conn, nconn, gateways, onConn, outq, wire, broker, routes, refused, free, held>>
    OBVIOUS
<1>k. /\ caller' \in RegistryCall /\ caller'.pc = "return"
      /\ caller'.op = caller.op /\ caller'.mac = caller.mac
    BY ONLY <1>f, <1>g DEF RegistryCall
<1>h. Waiting(outq) = {} /\ Waiting(wire) = {}
    <2>1. \A w \in Waiting(outq) \cup Waiting(wire) : w = 0 BY <1>f, Underway DEF CallWaits
    <2>2. 0 \notin Waiting(outq) /\ 0 \notin Waiting(wire) BY <1>e DEF OnceInv
    <2>. QED BY ONLY <2>1, <2>2
<1>i. Acked' = {}
    <2>1. \A w \in Acked : w = 0 BY <1>f, Underway DEF CallWaits
    <2>2. SingleAck BY DEF OnceInv
    <2>. QED BY ONLY <1>c, <1>d, <2>1, <2>2
<1>j. Elems(outq') = {} /\ Elems(wire') = {}
    BY <1>g, <1>h, QueueType DEF TypeOK
<1>1. TypeOK' BY <1>c, <1>g, <1>k DEF TypeOK
<1>2. OwnedInv' BY ONLY <1>j DEF OwnedInv
<1>3. OnceInv'
    <2>1. OnceInv OBVIOUS
    <2>. QED BY ONLY <1>c, <1>g, <1>h, <2>1 DEF OnceInv
<1>4. AckInv' BY ONLY <1>i DEF AckInv
<1>5. LockInv' BY <1>f, <1>g DEF LockInv, Readers, CallWaits
<1>6. ConnInv' BY <1>g DEF ConnInv
<1>l. Adding' = Adding /\ Removing' = Removing
    BY ONLY <1>f, <1>k DEF Adding, Removing, CallUnderway, CallWaits
<1>7. RouteInv' BY <1>g, <1>l DEF RouteInv
<1>8. BrokerInv' BY <1>g, <1>l DEF BrokerInv
<1>9. RestoredInv' BY <1>g, <1>l DEF RestoredInv, Resubscribed
<1>10. GivenUpInv' BY <1>b, <1>g DEF GivenUpInv
<1>11. ReturnInv'
    <2>1. conn # "up" => broker = {} BY DEF GivenUpInv
    <2>. QED BY ONLY <1>e, <1>g, <1>k, <2>1 DEF ReturnInv, Resubscribed, Served
<1>. QED BY <1>1, <1>2, <1>3, <1>4, <1>5, <1>6, <1>7, <1>8, <1>9, <1>10, <1>11

(* The call changes the map and releases the lock.  Nobody else has a      *)
(* request under way.                                                      *)
LEMMA CallReturnIInv ==
    ASSUME IInv, CallReturn
    PROVE  IInv'
<1>. USE MQTTAssumption DEF IInv, CallReturn, client, inbound
<1>a. Acked' = Acked /\ SingleAck' = SingleAck BY SameBack
<1>b. /\ caller.pc = "return" /\ caller.op \in {"sub", "unsub"} /\ caller.mac \in MAC
    BY CallRecord
<1>c. /\ gateways' = IF caller.op = "sub" THEN gateways \cup {caller.mac}
                                          ELSE gateways \ {caller.mac}
      /\ caller' = Idle /\ Idle.pc = "idle"
      /\ UNCHANGED <<conn, nconn, onConn, outq, wire, back, broker, routes, refused, free, held>>
    BY DEF Idle
<1>d. Waiting(outq) = {} /\ Waiting(wire) = {} /\ Acked = {}
    <2>1. \A w \in Waiting(outq) \cup Waiting(wire) \cup Acked : FALSE
        BY <1>b, Underway DEF CallWaits
    <2>. QED BY <2>1
<1>e. Elems(outq') = {} /\ Elems(wire') = {} BY <1>c, <1>d, QueueType DEF TypeOK
<1>f. ReturnInv /\ RouteInv /\ BrokerInv /\ RestoredInv OBVIOUS
<1>1. TypeOK'
    <2>1. gateways' \subseteq MAC BY <1>b, <1>c DEF TypeOK
    <2>2. caller' \in {Idle} \cup RegistryCall BY <1>c
    <2>. QED BY <2>1, <2>2 DEF TypeOK
<1>2. OwnedInv' BY ONLY <1>e DEF OwnedInv
<1>3. OnceInv' BY <1>a DEF OnceInv
<1>4. AckInv' BY ONLY <1>a, <1>d DEF AckInv
<1>5. LockInv' BY ONLY <1>c DEF LockInv
<1>6. ConnInv' BY <1>c DEF ConnInv
<1>7. RouteInv' BY ONLY <1>b, <1>c, <1>f DEF RouteInv, Adding, Removing, CallUnderway
<1>8. BrokerInv' BY ONLY <1>b, <1>c, <1>f DEF BrokerInv, ReturnInv, Adding, CallUnderway
<1>9. RestoredInv'
    BY ONLY <1>b, <1>c, <1>f DEF RestoredInv, ReturnInv, Resubscribed, Removing, CallUnderway
<1>10. GivenUpInv' BY DEF GivenUpInv
<1>11. ReturnInv' BY ONLY <1>c DEF ReturnInv
<1>. QED BY <1>1, <1>2, <1>3, <1>4, <1>5, <1>6, <1>7, <1>8, <1>9, <1>10, <1>11

(* onConnected gets its answer. *)
LEMMA OnConnectedAckIInv ==
    ASSUME IInv, HandleAck, Head(back).ack # 0
    PROVE  IInv'
<1>. USE MQTTAssumption DEF IInv, HandleAck, client, inbound
<1>b. back \in Seq(Packet) /\ back # <<>> /\ back' = Tail(back) BY DEF TypeOK
<1>. DEFINE x == Head(back)
<1>c. /\ x \in Packet /\ back' \in Seq(Packet)
      /\ IsAck(x) => x.ack \in Acked
      /\ Acked' \subseteq Acked
      /\ SingleAck => SingleAck' /\ (IsAck(x) => x.ack \notin Acked')
    BY ONLY <1>b, TakeBack
<1>. DEFINE c == x.ack
<1>d. /\ IsAck(x) /\ c # 0 /\ onConn' = [onConn EXCEPT ![c] = "return"]
      /\ UNCHANGED <<conn, nconn, gateways, caller, outq, wire, broker, routes, refused, free, held>>
    BY DEF IsAck
<1>. HIDE DEF x
<1>e. c \in Acked /\ Served(c) /\ c \in Conn /\ onConn[c] = "wait"
    BY <1>c, <1>d, Underway DEF AckInv
<1>f. c \notin Waiting(outq) /\ c \notin Waiting(wire) /\ c \notin Acked'
    BY <1>c, <1>d, <1>e DEF OnceInv
<1>. HIDE DEF c
<1>g. /\ onConn' \in [Conn -> {"none", "lock", "call", "wait", "return", "done"}] /\ onConn'[c] = "return"
      /\ \A d \in Conn : d # c => onConn'[d] = onConn[d]
    BY <1>d, <1>e DEF TypeOK
<1>1. TypeOK' BY <1>c, <1>g DEF TypeOK
<1>2. OwnedInv'
    <2>1. OwnedInv OBVIOUS
    <2>2. \A r \in Elems(outq) \cup Elems(wire) : r.who # 0 => r.who \in Conn /\ r.who # c
        <3>1. outq \in Seq(Request) /\ wire \in Seq(Request) BY DEF TypeOK
        <3>2. \A r \in Elems(outq) \cup Elems(wire) : r.who \in Waiting(outq) \cup Waiting(wire)
            BY ONLY <3>1, QueueType
        <3>3. \A w \in Waiting(outq) \cup Waiting(wire) : w # 0 => w \in Conn BY Underway
        <3>. QED BY ONLY <1>f, <3>2, <3>3
    <2>. QED BY ONLY <1>d, <1>g, <2>1, <2>2 DEF OwnedInv, Owned, CallWaits
<1>3. OnceInv'
    <2>1. OnceInv OBVIOUS
    <2>. QED BY ONLY <1>c, <1>d, <2>1 DEF OnceInv
<1>4. AckInv'
    <2>1. AckInv OBVIOUS
    <2>2. \A w \in Acked' : w \in Acked /\ (w # 0 => w \in Conn /\ w # c)
        BY <1>c, <1>f, Underway
    <2>. QED BY ONLY <1>d, <1>g, <2>1, <2>2 DEF AckInv, Served, CallWaits
<1>5. LockInv' BY <1>d, <1>e DEF LockInv, Readers
<1>6. ConnInv' BY <1>d, <1>e, <1>g DEF ConnInv
<1>7. RouteInv' BY <1>d DEF RouteInv, Adding, Removing, CallUnderway
<1>8. BrokerInv' BY <1>d DEF BrokerInv, Adding, CallUnderway
<1>9. RestoredInv'
    <2>1. RestoredInv /\ nconn \in Conn BY DEF TypeOK
    <2>. QED BY ONLY <1>d, <1>e, <1>g, <2>1 DEF RestoredInv, Resubscribed, Removing, CallUnderway, Served
<1>10. GivenUpInv' BY <1>b, <1>d DEF GivenUpInv
<1>11. ReturnInv' BY <1>d, <1>e DEF LockInv, Readers, ReturnInv
<1>. QED BY <1>1, <1>2, <1>3, <1>4, <1>5, <1>6, <1>7, <1>8, <1>9, <1>10, <1>11

(* onConnected returns. *)
LEMMA OnConnectedReturnIInv ==
    ASSUME IInv, NEW c \in Conn, OnConnectedReturn(c)
    PROVE  IInv'
<1>. USE MQTTAssumption DEF IInv, OnConnectedReturn, client, inbound
<1>a. Acked' = Acked /\ SingleAck' = SingleAck BY SameBack
<1>b. /\ onConn[c] = "return" /\ onConn'[c] = "done"
      /\ onConn' \in [Conn -> {"none", "lock", "call", "wait", "return", "done"}]
      /\ \A d \in Conn : d # c => onConn'[d] = onConn[d]
    BY DEF TypeOK
<1>c. caller.pc # "return" /\ caller' = caller BY <1>b DEF LockInv, Readers
<1>d. \A d \in Conn : onConn[d] = "wait" => onConn'[d] = "wait" BY ONLY <1>b
<1>1. TypeOK' BY <1>b DEF TypeOK
<1>2. OwnedInv'
    <2>1. OwnedInv /\ UNCHANGED <<outq, wire, caller, gateways>> OBVIOUS
    <2>2. \A r \in Elems(outq) \cup Elems(wire) : r.who # 0 => r.who \in Conn
        BY QueueType, Underway DEF TypeOK
    <2>. QED BY ONLY <1>d, <2>1, <2>2 DEF OwnedInv, Owned, CallWaits
<1>3. OnceInv' BY <1>a DEF OnceInv
<1>4. AckInv'
    <2>1. AckInv /\ UNCHANGED <<conn, broker, refused, caller, gateways>> OBVIOUS
    <2>2. \A w \in Acked : w # 0 => w \in Conn BY Underway
    <2>. QED BY ONLY <1>a, <1>d, <2>1, <2>2 DEF AckInv, Served, CallWaits
<1>5. LockInv' BY <1>b DEF LockInv, Readers
<1>6. ConnInv' BY <1>b DEF ConnInv
<1>7. RouteInv' BY DEF RouteInv, Adding, Removing, CallUnderway
<1>8. BrokerInv' BY DEF BrokerInv, Adding, CallUnderway
<1>9. RestoredInv'
    <2>1. RestoredInv /\ nconn \in Conn /\ UNCHANGED <<conn, nconn, broker, refused, caller, gateways>>
        BY DEF TypeOK
    <2>. QED BY ONLY <1>b, <2>1 DEF RestoredInv, Resubscribed, Removing, CallUnderway
<1>10. GivenUpInv' BY DEF GivenUpInv
<1>11. ReturnInv' BY <1>c DEF ReturnInv
<1>. QED BY <1>1, <1>2, <1>3, <1>4, <1>5, <1>6, <1>7, <1>8, <1>9, <1>10, <1>11

(* A message is queued, or a loop ends. *)
LEMMA LoopIInv ==
    ASSUME IInv, Queue \/ LoopStops PROVE IInv'
<1>. USE MQTTAssumption DEF IInv, Queue, LoopStops, client
<1>a. /\ free \in Nat /\ held \in Nat /\ nconn \in Nat /\ MaxConn \in Nat
      /\ free + held <= nconn /\ free + held <= MaxConn
    BY DEF TypeOK, ConnInv, Conn
<1>b. inq' \in 0 .. Depth BY DEF TypeOK
<1>c. \/ held > 0 /\ held' = held - 1 /\ free' = free + 1
      \/ free > 0 /\ free' = free - 1 /\ held' = held
    OBVIOUS
<1>1. free' \in Nat /\ held' \in Nat BY ONLY <1>a, <1>c
<1>2. free' + held' <= nconn BY ONLY <1>a, <1>c
<1>3. TypeOK'
    <2>1. free' + held' <= MaxConn BY ONLY <1>a, <1>c
    <2>. QED BY <1>1, <1>b, <2>1 DEF TypeOK
<1>. QED BY <1>2, <1>3, Frame

(* A message is dispatched to its handler, or dropped. *)
LEMMA DispatchIInv ==
    ASSUME IInv, Dispatch PROVE IInv'
<1>. USE MQTTAssumption DEF IInv, Dispatch, client
<1>1. inq' \in 0 .. Depth /\ handler' \in {"free", "push"} BY DEF TypeOK
<1>2. TypeOK' BY <1>1 DEF TypeOK
<1>3. free' + held' <= nconn BY DEF ConnInv
<1>. QED BY <1>2, <1>3, Frame

(* A message is handed to the reader, and sent. *)
LEMMA HandOverIInv ==
    ASSUME IInv, HandOver \/ Send PROVE IInv'
<1>. USE DEF IInv, HandOver, Send, client
<1>1. TypeOK' BY DEF TypeOK
<1>2. free' + held' <= nconn BY DEF ConnInv
<1>. QED BY <1>1, <1>2, Frame

(* A part of a queue has no request that the queue has not. *)
LEMMA PartOfQueue ==
    ASSUME NEW q \in Seq(Request), NEW a \in Nat \ {0}, NEW b \in 0 .. Len(q)
    PROVE  /\ SubSeq(q, a, b) \in Seq(Request)
           /\ Elems(SubSeq(q, a, b)) \subseteq Elems(q)
           /\ Waiting(SubSeq(q, a, b)) \subseteq Waiting(q)
           /\ Single(q) => Single(SubSeq(q, a, b))
<1>. DEFINE t == SubSeq(q, a, b)
<1>1. Len(q) \in Nat /\ DOMAIN q = 1 .. Len(q) OBVIOUS
<1>2. DOMAIN t = 1 .. (b - a + 1) /\ \A i \in 1 .. (b - a + 1) : t[i] = q[i + a - 1]
    BY <1>1
<1>3. \A i \in 1 .. (b - a + 1) : i \in Nat /\ i + a - 1 \in DOMAIN q
    BY ONLY <1>1, a \in Nat \ {0}, b \in 0 .. Len(q)
<1>4. t \in Seq(Request)
    <2>1. \A i \in a .. b : q[i] \in Request BY <1>1
    <2>. QED BY <1>1, <2>1
<1>. HIDE DEF t
<1>5. \A i \in DOMAIN t : i \in Nat /\ i + a - 1 \in DOMAIN q /\ t[i] = q[i + a - 1]
    BY ONLY <1>2, <1>3
<1>6. Elems(t) \subseteq Elems(q) BY ONLY <1>5 DEF Elems
<1>7. Waiting(t) \subseteq Waiting(q) BY ONLY <1>5 DEF Waiting
<1>8. ASSUME Single(q) PROVE Single(t)
    <2>1. \A i, j \in DOMAIN t : q[i + a - 1].who = q[j + a - 1].who => i + a - 1 = j + a - 1
        BY ONLY <1>5, <1>8 DEF Single
    <2>2. \A i, j \in DOMAIN t : i + a - 1 = j + a - 1 => i = j BY ONLY <1>5, a \in Nat \ {0}
    <2>. QED BY ONLY <1>5, <2>1, <2>2 DEF Single
<1>. QED BY <1>4, <1>6, <1>7, <1>8 DEF t

(* The connection is lost, with what was written to it. *)
LEMMA LoseIInv ==
    ASSUME IInv, NEW n \in {0, 1}, n <= Len(outq), Lose(n)
    PROVE  IInv'
<1>. USE MQTTAssumption DEF IInv, Lose, inbound
<1>a. /\ outq \in Seq(Request) /\ Len(outq) \in Nat /\ n \in Nat /\ n + 1 \in Nat \ {0}
      /\ n \in 0 .. Len(outq) /\ Len(outq) \in 0 .. Len(outq) /\ 1 \in Nat \ {0}
    BY DEF TypeOK
<1>b. /\ outq' = SubSeq(outq, n + 1, Len(outq)) /\ wire' = <<>>
      /\ broker' = {} /\ refused' = {} /\ conn' \in {"losing", "hung"}
      /\ nconn < MaxConn
      /\ UNCHANGED <<nconn, routes, gateways, caller, onConn, free, held>>
    OBVIOUS
<1>c. /\ outq' \in Seq(Request) /\ Elems(outq') \subseteq Elems(outq)
      /\ Waiting(outq') \subseteq Waiting(outq) /\ (Single(outq) => Single(outq'))
    BY ONLY <1>a, <1>b, PartOfQueue
<1>d. Waiting(SubSeq(outq, 1, n)) \subseteq Waiting(outq) BY ONLY <1>a, PartOfQueue
<1>e. back' \in Seq(Packet) /\ Acked' \subseteq Acked /\ (SingleAck => SingleAck')
    BY LeftBack DEF TypeOK
<1>f. Elems(wire') = {} /\ Waiting(wire') = {} /\ Single(wire') BY ONLY <1>b, EmptyQueue
<1>1. TypeOK'
    <2>1. lost' \subseteq 0 .. MaxConn
        <3>1. \A w \in Waiting(outq) \cup Waiting(wire) \cup Acked : w \in 0 .. MaxConn
            BY Underway
        <3>2. /\ lost \subseteq 0 .. MaxConn
              /\ lost' = lost \cup Waiting(wire) \cup (Acked \ Acked')
                             \cup Waiting(SubSeq(outq, 1, n))
            BY DEF TypeOK, Acked
        <3>. QED BY ONLY <1>d, <3>1, <3>2
    <2>2. wire' \in Seq(Request) BY <1>b, EmptyQueue
    <2>. QED BY <1>b, <1>c, <1>e, <2>1, <2>2 DEF TypeOK
<1>2. OwnedInv' BY <1>b, <1>c, <1>f DEF OwnedInv, Owned, CallWaits
<1>3. OnceInv'
    <2>1. OnceInv OBVIOUS
    <2>. QED BY ONLY <1>c, <1>e, <1>f, <2>1 DEF OnceInv
<1>4. AckInv' BY <1>b, <1>e DEF AckInv, Served, CallWaits
<1>5. LockInv' BY <1>b DEF LockInv, Readers
<1>6. ConnInv' BY <1>b DEF ConnInv
<1>7. RouteInv' BY <1>b DEF RouteInv, Adding, Removing, CallUnderway
<1>8. BrokerInv' BY ONLY <1>b DEF BrokerInv
<1>9. RestoredInv' BY ONLY <1>b DEF RestoredInv, Resubscribed
<1>10. GivenUpInv' BY ONLY <1>b DEF GivenUpInv
<1>11. ReturnInv' BY ONLY <1>b DEF ReturnInv, Resubscribed
<1>. QED BY <1>1, <1>2, <1>3, <1>4, <1>5, <1>6, <1>7, <1>8, <1>9, <1>10, <1>11

(* internalConnLost has waited for the workers. *)
LEMMA LostIInv ==
    ASSUME IInv, Lost PROVE IInv'
<1>. USE DEF IInv, Lost, client, inbound
<1>a. Acked' = Acked /\ SingleAck' = SingleAck BY SameBack
<1>1. TypeOK' BY DEF TypeOK
<1>2. OwnedInv' BY DEF OwnedInv, Owned, CallWaits
<1>3. OnceInv' BY <1>a DEF OnceInv
<1>4. AckInv' BY <1>a DEF AckInv, Served, CallWaits
<1>5. LockInv' BY DEF LockInv, Readers
<1>6. ConnInv' BY DEF ConnInv
<1>7. RouteInv' BY DEF RouteInv, Adding, Removing, CallUnderway
<1>8. BrokerInv' BY DEF BrokerInv, Adding, CallUnderway
<1>9. RestoredInv' BY DEF RestoredInv, Resubscribed
<1>10. GivenUpInv' BY DEF GivenUpInv
<1>11. ReturnInv' BY DEF ReturnInv, Resubscribed
<1>. QED BY <1>1, <1>2, <1>3, <1>4, <1>5, <1>6, <1>7, <1>8, <1>9, <1>10, <1>11

(* The client is connected again, and onConnected is started. *)
LEMMA ReconnectIInv ==
    ASSUME IInv, Reconnect PROVE IInv'
<1>. USE MQTTAssumption DEF IInv, Reconnect, client, inbound
<1>. DEFINE c == nconn + 1
<1>a. /\ c \in Conn /\ c # 0 /\ c > nconn /\ nconn' = c /\ nconn \in Conn
      /\ onConn' = [onConn EXCEPT ![c] = "lock"]
    BY DEF ConnInv, TypeOK, Conn
<1>. HIDE DEF c
<1>b. /\ onConn[c] = "none" /\ onConn'[c] = "lock"
      /\ onConn' \in [Conn -> {"none", "lock", "call", "wait", "return", "done"}]
      /\ \A d \in Conn : d # c => onConn'[d] = onConn[d]
    BY <1>a DEF ConnInv, TypeOK
<1>c. Acked' = Acked /\ SingleAck' = SingleAck BY SameBack
<1>d. free' \in Nat /\ held' \in Nat /\ free' + held' <= nconn' /\ nconn' <= MaxConn
    BY <1>a DEF TypeOK, ConnInv, Conn
<1>1. TypeOK'
    <2>1. free' + held' <= MaxConn BY <1>a, <1>d DEF Conn
    <2>. QED BY <1>a, <1>b, <1>d, <2>1 DEF TypeOK
<1>2. OwnedInv'
    <2>1. OwnedInv /\ UNCHANGED <<outq, wire, caller, gateways>> OBVIOUS
    <2>2. \A r \in Elems(outq) \cup Elems(wire) : r.who # 0 => r.who \in Conn /\ r.who # c
        BY <1>b, QueueType, Underway DEF TypeOK
    <2>. QED BY ONLY <1>b, <2>1, <2>2 DEF OwnedInv, Owned, CallWaits
<1>3. OnceInv' BY <1>c DEF OnceInv
<1>4. AckInv'
    <2>1. Acked = {} BY NoBack DEF GivenUpInv
    <2>. QED BY ONLY <1>c, <2>1 DEF AckInv
<1>5. LockInv' BY <1>b DEF LockInv, Readers
<1>6. ConnInv'
    <2>1. ConnInv /\ nconn \in Nat /\ conn' = "up" BY <1>a DEF Conn
    <2>2. \A d \in Conn : d \in Nat /\ (d > c => d > nconn /\ d # c) BY <1>a, <2>1 DEF Conn
    <2>. QED BY ONLY <1>a, <1>b, <1>d, <2>1, <2>2 DEF ConnInv
<1>7. RouteInv' BY DEF RouteInv, Adding, Removing, CallUnderway
<1>8. BrokerInv' BY DEF BrokerInv, Adding, CallUnderway
<1>9. RestoredInv' BY ONLY <1>a, <1>b DEF RestoredInv, Resubscribed
<1>10. GivenUpInv' BY DEF GivenUpInv
<1>11. ReturnInv' BY <1>a, <1>b DEF ReturnInv, Resubscribed
<1>. QED BY <1>1, <1>2, <1>3, <1>4, <1>5, <1>6, <1>7, <1>8, <1>9, <1>10, <1>11

(* The client is disconnected for good. *)
LEMMA CloseIInv ==
    ASSUME IInv, Close PROVE IInv'
<1>. USE DEF IInv, Close, inbound
<1>a. back' \in Seq(Packet) /\ Acked' \subseteq Acked /\ (SingleAck => SingleAck')
    BY LeftBack, SameBack DEF TypeOK
<1>b. /\ Elems(wire') = {} /\ Waiting(wire') = {} /\ Single(wire') /\ wire' \in Seq(Request)
    BY EmptyQueue
<1>c. /\ conn' \in {"closing", "closed", "down"}
      /\ conn' = "closing" => conn = "losing"
      /\ conn' = "down" => conn = "down" /\ back' = back
      /\ broker' = {} /\ refused' = {} /\ wire' = <<>>
      /\ UNCHANGED <<nconn, outq, routes, gateways, caller, onConn, free, held>>
    OBVIOUS
<1>1. TypeOK' BY <1>a, <1>b, <1>c DEF TypeOK
<1>2. OwnedInv' BY <1>b DEF OwnedInv, Owned, CallWaits
<1>3. OnceInv' BY <1>a, <1>b DEF OnceInv
<1>4. AckInv' BY <1>a, <1>c DEF AckInv, Served, CallWaits
<1>5. LockInv' BY DEF LockInv, Readers
<1>6. ConnInv' BY <1>c DEF ConnInv
<1>7. RouteInv' BY DEF RouteInv, Adding, Removing, CallUnderway
<1>8. BrokerInv' BY DEF BrokerInv
<1>9. RestoredInv' BY ONLY <1>c DEF RestoredInv, Resubscribed
<1>10. GivenUpInv' BY <1>c DEF GivenUpInv
<1>11. ReturnInv' BY ONLY <1>c DEF ReturnInv, Resubscribed
<1>. QED BY <1>1, <1>2, <1>3, <1>4, <1>5, <1>6, <1>7, <1>8, <1>9, <1>10, <1>11

(* Nothing changes. *)
LEMMA StutterIInv ==
    ASSUME IInv, UNCHANGED vars PROVE IInv'
<1>1. TypeOK' BY DEF IInv, TypeOK, vars, client, inbound
<1>2. free' + held' <= nconn BY DEF IInv, ConnInv, vars, inbound
<1>. QED BY <1>1, <1>2, Frame DEF vars

-----------------------------------------------------------------------------
(* Every step keeps the invariant. *)
LEMMA NextIInv == IInv /\ [Next]_vars => IInv'
<1>. SUFFICES ASSUME IInv, [Next]_vars PROVE IInv' OBVIOUS
<1>1. ASSUME NEW op \in {"sub", "unsub"}, NEW m \in MAC, Call(op, m) PROVE IInv'
    BY <1>1, CallIInv
<1>2. ASSUME CallLock \/ CallRequest \/ CallFails \/ CallReturn PROVE IInv'
    BY <1>2, CallLockIInv, CallRequestIInv, CallFailsIInv, CallReturnIInv
<1>3. ASSUME NEW c \in Conn, OnConnectedLock(c) \/ OnConnectedRequest(c) \/ OnConnectedReturn(c)
      PROVE  IInv'
    BY <1>3, OnConnectedLockIInv, OnConnectedRequestIInv, OnConnectedReturnIInv
<1>4. ASSUME Write \/ \E no \in SUBSET MAC : Answer(no) PROVE IInv'
    BY <1>4, WriteIInv, AnswerIInv
<1>5. ASSUME Inbound PROVE IInv'
    <2>1. ASSUME HandleAck PROVE IInv' BY <2>1, CallAckIInv, OnConnectedAckIInv
    <2>. QED BY <1>5, <2>1, HandleMessageIInv, DispatchIInv, HandOverIInv, LoopIInv DEF Inbound
<1>6. ASSUME LoopStops \/ Send \/ SendMessage PROVE IInv'
    BY <1>6, LoopIInv, HandOverIInv, SendMessageIInv
<1>7. ASSUME Loss PROVE IInv' BY <1>7, LoseIInv DEF Loss
<1>8. ASSUME Lost \/ Reconnect \/ Close \/ UNCHANGED vars PROVE IInv'
    BY <1>8, LostIInv, ReconnectIInv, CloseIInv, StutterIInv
<1>. QED BY <1>1, <1>2, <1>3, <1>4, <1>5, <1>6, <1>7, <1>8 DEF Next

(* The invariant holds in every reachable state. *)
THEOREM IInvHolds == Spec => []IInv
BY InitIInv, NextIInv, PTL DEF Spec

(* However often the connection is lost, and whatever requests are lost    *)
(* with it: once the calls and the onConnected of this connection have     *)
(* ended, the handlers of the client are the gateways of the map, and the  *)
(* broker is subscribed to those of them that it did not refuse.           *)
THEOREM SubscriptionsComeBack == Spec => []MQTTInv
<1>1. IInv => MQTTInv
    <2>. SUFFICES ASSUME IInv PROVE MQTTInv OBVIOUS
    <2>1. ASSUME Settled
          PROVE  /\ routes = gateways /\ broker \subseteq gateways
                 /\ gateways \subseteq broker \cup refused
        <3>1. ~CallUnderway BY <2>1 DEF Settled, CallUnderway, Idle
        <3>. QED BY <2>1, <3>1
             DEF IInv, Settled, RouteInv, BrokerInv, RestoredInv, Resubscribed, Adding, Removing
    <2>. QED BY <2>1 DEF IInv, MQTTInv, SubscriptionsRestored
<1>. QED BY <1>1, IInvHolds, PTL

-----------------------------------------------------------------------------
(* The goroutines that have a request in the queue, on the wire or just    *)
(* answered.                                                               *)
Pending == Waiting(outq) \cup Waiting(wire) \cup Acked

(* A request that was lost with a connection is nowhere any more, and its  *)
(* goroutine still waits for it: a call with the map locked, so nothing is *)
(* queued or written after it and the broker has no subscription; an       *)
(* onConnected with the read lock.                                         *)
LostInv ==
    /\ lost \cap Pending = {}
    /\ 0 \in lost => CallWaits /\ broker = {} /\ outq = <<>> /\ wire = <<>>
    /\ \A c \in lost \ {0} : onConn[c] = "wait"

(* What a step leaves as it is once a request is lost. *)
LostStep ==
    /\ lost \subseteq lost'
    /\ lost # {} => gateways' = gateways
    /\ 0 \in lost => /\ UNCHANGED <<caller, routes>>
                     /\ \A c \in Conn : onConn[c] = "lock" => onConn'[c] = "lock"

(* A step that asks for nothing new and leaves those who wait alone. *)
LEMMA StillLost ==
    ASSUME LostInv, lost' = lost, Pending' \subseteq Pending,
           0 \in lost => UNCHANGED <<caller, broker, outq, wire>>,
           \A c \in lost \ {0} : onConn'[c] = onConn[c]
    PROVE  LostInv'
BY DEF LostInv, CallWaits

(* No request is lost while a call has the lock and can still return. *)
LEMMA NoneLost ==
    ASSUME IInv, LostInv, caller.pc \in {"call", "wait", "return"}, 0 \notin lost
    PROVE  lost = {}
<1>1. Readers = {} /\ lost \subseteq 0 .. MaxConn /\ MaxConn \in Nat
    BY MQTTAssumption DEF IInv, LockInv, TypeOK
<1>2. \A c \in lost : c \in Conn /\ onConn[c] = "wait" BY <1>1 DEF LostInv, Conn
<1>. QED BY ONLY <1>1, <1>2 DEF Readers

(* A call of the registry goes on: it has lost no request. *)
LEMMA CallLost ==
    ASSUME IInv, LostInv,
           \/ \E op \in {"sub", "unsub"}, m \in MAC : Call(op, m)
           \/ CallLock \/ CallRequest \/ CallFails \/ CallReturn
    PROVE  LostInv' /\ LostStep
<1>1. ASSUME (\E op \in {"sub", "unsub"}, m \in MAC : Call(op, m)) \/ CallLock \/ CallFails
      PROVE  LostInv' /\ LostStep
    <2>1. caller.pc # "wait"
        <3>1. Idle.pc = "idle" BY DEF Idle
        <3>. QED BY <1>1, <3>1 DEF Call, CallLock, CallFails
    <2>2. 0 \notin lost BY <2>1 DEF LostInv, CallWaits
    <2>3. UNCHANGED <<outq, wire, back, lost, gateways, onConn>>
        BY <1>1 DEF Call, CallLock, CallFails, client
    <2>4. Pending' = Pending BY ONLY <2>3 DEF Pending, Acked, Acks
    <2>. QED BY ONLY LostInv, <2>2, <2>3, <2>4, StillLost DEF LostStep
<1>2. ASSUME CallRequest PROVE LostInv' /\ LostStep
    <2>1. caller.pc = "call" /\ lost' = lost /\ gateways' = gateways BY <1>2 DEF CallRequest
    <2>2. 0 \notin lost BY <2>1 DEF LostInv, CallWaits
    <2>3. lost = {} BY <2>1, <2>2, NoneLost
    <2>. QED BY ONLY <2>1, <2>3 DEF LostInv, LostStep
<1>3. ASSUME CallReturn PROVE LostInv' /\ LostStep
    <2>1. caller.pc = "return" /\ lost' = lost BY <1>3 DEF CallReturn, client
    <2>2. 0 \notin lost BY <2>1 DEF LostInv, CallWaits
    <2>3. lost = {} BY <2>1, <2>2, NoneLost
    <2>. QED BY ONLY <2>1, <2>3 DEF LostInv, LostStep
<1>. QED BY <1>1, <1>2, <1>3

(* onConnected gets the lock, asks for its subscriptions or returns: no    *)
(* call holds the lock, so none has lost its request, and this one waits   *)
(* for none.                                                               *)
LEMMA OnConnectedLost ==
    ASSUME IInv, LostInv, NEW c \in Conn,
           OnConnectedLock(c) \/ OnConnectedRequest(c) \/ OnConnectedReturn(c)
    PROVE  LostInv' /\ LostStep
<1>1. onConn \in [Conn -> {"none", "lock", "call", "wait", "return", "done"}] BY DEF IInv, TypeOK
<1>2. onConn[c] \in {"lock", "call", "return"} /\ c # 0 /\ UNCHANGED <<lost, gateways>>
    BY MQTTAssumption DEF OnConnectedLock, OnConnectedRequest, OnConnectedReturn, client, Conn
<1>3. c \notin lost /\ \A d \in lost \ {0} : d \in Conn
    BY <1>2, MQTTAssumption DEF LostInv, IInv, TypeOK, Conn
<1>4. ~CallWaits
    <2>1. CASE caller = Idle BY <2>1 DEF CallWaits, Idle
    <2>2. CASE onConn[c] \in {"call", "return"} BY <2>2 DEF IInv, LockInv, Readers, CallWaits
    <2>. QED BY <2>1, <2>2 DEF OnConnectedLock, OnConnectedRequest, OnConnectedReturn
<1>5. 0 \notin lost BY <1>4 DEF LostInv
<1>6. \A d \in Conn : d # c => onConn'[d] = onConn[d]
    BY <1>1 DEF OnConnectedLock, OnConnectedRequest, OnConnectedReturn
<1>7. LostStep BY ONLY <1>2, <1>5 DEF LostStep
<1>8. Pending' \subseteq Pending \cup {c}
    <2>1. CASE OnConnectedLock(c) \/ OnConnectedReturn(c)
        <3>1. UNCHANGED <<outq, wire, back>> BY <2>1 DEF OnConnectedLock, OnConnectedReturn, client
        <3>. QED BY ONLY <3>1 DEF Pending, Acked, Acks
    <2>2. CASE OnConnectedRequest(c)
        <3>. DEFINE r == [op |-> "sub", topics |-> gateways, who |-> c]
        <3>1. r \in Request /\ r.who = c
            BY MQTTAssumption DEF Request, IInv, TypeOK, Conn
        <3>2. /\ outq \in Seq(Request) /\ outq' = Append(outq, r)
              /\ UNCHANGED <<wire, back>>
            BY <2>2 DEF OnConnectedRequest, IInv, TypeOK
        <3>. HIDE DEF r
        <3>3. Waiting(outq') = Waiting(outq) \cup {c} BY ONLY <3>1, <3>2, AppendQueue
        <3>4. Acked' = Acked BY ONLY <3>2 DEF Acked, Acks
        <3>. QED BY ONLY <3>2, <3>3, <3>4 DEF Pending
    <2>. QED BY <2>1, <2>2
<1>9. LostInv' BY ONLY LostInv, <1>2, <1>3, <1>5, <1>6, <1>8 DEF LostInv
<1>. QED BY <1>7, <1>9

(* A request is written, answered, or a message is sent: no call has lost  *)
(* its request.                                                            *)
LEMMA WireLost ==
    ASSUME IInv, LostInv,
           Write \/ (\E no \in SUBSET MAC : Answer(no)) \/ SendMessage
    PROVE  LostInv' /\ LostStep
<1>1. outq \in Seq(Request) /\ wire \in Seq(Request) /\ back \in Seq(Packet)
    BY DEF IInv, TypeOK
<1>2. 0 \notin lost /\ UNCHANGED <<lost, gateways, onConn>>
    BY DEF Write, Answer, SendMessage, LostInv
<1>3. ASSUME Write PROVE Pending' \subseteq Pending
    <2>1. outq # <<>> /\ outq' = Tail(outq) /\ wire' = Append(wire, Head(outq)) /\ back' = back
        BY <1>3 DEF Write
    <2>2. /\ Head(outq) \in Request /\ Head(outq).who \in Waiting(outq)
          /\ Waiting(outq') \subseteq Waiting(outq)
        BY ONLY <1>1, <2>1, TakeQueue
    <2>3. Waiting(wire') = Waiting(wire) \cup {Head(outq).who}
        BY ONLY <1>1, <2>1, <2>2, AppendQueue
    <2>4. Acked' = Acked BY ONLY <2>1 DEF Acked, Acks
    <2>. QED BY ONLY <2>2, <2>3, <2>4 DEF Pending
<1>4. ASSUME NEW no \in SUBSET MAC, Answer(no) PROVE Pending' \subseteq Pending
    <2>. DEFINE w == Head(wire).who
                x == [ack |-> w]
    <2>1. wire # <<>> /\ wire' = Tail(wire) /\ back' = Append(back, x) /\ outq' = outq
        BY <1>4 DEF Answer
    <2>2. w \in Waiting(wire) /\ Waiting(wire') \subseteq Waiting(wire)
        BY ONLY <1>1, <2>1, TakeQueue
    <2>3. w \in 0 .. MaxConn BY <2>2, Underway
    <2>. HIDE DEF w
    <2>4. x \in Packet /\ IsAck(x) /\ x.ack = w BY ONLY <2>3, Packets
    <2>. HIDE DEF x
    <2>5. Acked' = Acked \cup {w} BY ONLY <1>1, <2>1, <2>4, AppendBack
    <2>. QED BY ONLY <2>1, <2>2, <2>5 DEF Pending
<1>5. ASSUME SendMessage PROVE Pending' \subseteq Pending
    <2>. DEFINE x == Message
    <2>1. back' = Append(back, x) /\ UNCHANGED <<outq, wire>> BY <1>5 DEF SendMessage
    <2>2. x \in Packet /\ ~IsAck(x) BY Packets
    <2>. HIDE DEF x
    <2>3. Acked' = Acked BY ONLY <1>1, <2>1, <2>2, AppendBack
    <2>. QED BY ONLY <2>1, <2>3 DEF Pending
<1>6. Pending' \subseteq Pending BY <1>3, <1>4, <1>5
<1>. QED BY ONLY LostInv, <1>2, <1>6, StillLost DEF LostStep

(* An answer or a message is taken: who gets an answer has not lost its    *)
(* request.                                                                *)
LEMMA HandleLost ==
    ASSUME IInv, LostInv, HandleAck \/ HandleMessage
    PROVE  LostInv' /\ LostStep
<1>1. /\ back \in Seq(Packet) /\ back # <<>> /\ back' = Tail(back)
      /\ UNCHANGED <<outq, wire, broker, routes, lost>>
    BY DEF IInv, TypeOK, HandleAck, HandleMessage
<1>2. Acked' \subseteq Acked BY ONLY <1>1, TakeBack
<1>3. Pending' \subseteq Pending BY ONLY <1>1, <1>2 DEF Pending
<1>4. CASE HandleAck /\ Head(back).ack = 0
    <2>4. IsAck(Head(back)) /\ gateways' = gateways BY <1>4 DEF HandleAck, IsAck
    <2>1. 0 \in Acked /\ CallWaits
        <3>1. 0 \in Acked BY <1>1, <1>4, <2>4, TakeBack
        <3>. QED BY <3>1, Underway
    <2>2. 0 \notin lost BY ONLY LostInv, <2>1 DEF LostInv, Pending
    <2>3. lost = {} BY <2>1, <2>2, NoneLost DEF CallWaits
    <2>. QED BY ONLY <1>1, <2>3, <2>4 DEF LostInv, LostStep
<1>5. CASE HandleAck /\ Head(back).ack # 0
    <2>. DEFINE c == Head(back).ack
    <2>1. /\ c # 0 /\ IsAck(Head(back)) /\ onConn' = [onConn EXCEPT ![c] = "return"]
          /\ UNCHANGED <<gateways, caller>>
        BY <1>5 DEF HandleAck, IsAck
    <2>2. c \in Acked BY ONLY <1>1, <2>1, TakeBack
    <2>. HIDE DEF c
    <2>3. c \notin lost BY ONLY LostInv, <2>2 DEF LostInv, Pending
    <2>4. c \in Conn /\ onConn[c] = "wait" BY <2>1, <2>2, Underway
    <2>5. /\ onConn \in [Conn -> {"none", "lock", "call", "wait", "return", "done"}]
          /\ \A d \in lost \ {0} : d \in Conn
        BY MQTTAssumption DEF IInv, TypeOK, Conn
    <2>6. \A d \in Conn : d # c => onConn'[d] = onConn[d] BY ONLY <2>1, <2>5
    <2>7. \A d \in lost \ {0} : onConn'[d] = onConn[d] BY ONLY <2>3, <2>5, <2>6
    <2>8. \A d \in Conn : onConn[d] = "lock" => onConn'[d] = "lock" BY ONLY <2>4, <2>6
    <2>. QED BY ONLY LostInv, <1>1, <1>3, <2>1, <2>7, <2>8, StillLost DEF LostStep
<1>6. CASE HandleMessage
    <2>1. UNCHANGED <<gateways, caller, onConn>> BY <1>6 DEF HandleMessage
    <2>. QED BY ONLY LostInv, <1>1, <1>3, <2>1, StillLost DEF LostStep
<1>. QED BY <1>4, <1>5, <1>6

(* The requests in front of a queue and those behind them are different. *)
LEMMA FrontAndBack ==
    ASSUME NEW q \in Seq(Request), NEW n \in 0 .. Len(q), Single(q)
    PROVE  Waiting(SubSeq(q, 1, n)) \cap Waiting(SubSeq(q, n + 1, Len(q))) = {}
<1>. DEFINE f == SubSeq(q, 1, n)
            b == SubSeq(q, n + 1, Len(q))
<1>1. Len(q) \in Nat /\ DOMAIN q = 1 .. Len(q) /\ n \in Nat OBVIOUS
<1>2. DOMAIN f = 1 .. n /\ \A i \in 1 .. n : f[i] = q[i] BY <1>1
<1>3. DOMAIN b = 1 .. Len(q) - n /\ \A i \in 1 .. Len(q) - n : b[i] = q[i + n] BY <1>1
<1>. HIDE DEF f, b
<1>4. /\ \A i \in 1 .. n : i \in DOMAIN q
      /\ \A j \in 1 .. Len(q) - n : j + n \in DOMAIN q
      /\ \A i \in 1 .. n, j \in 1 .. Len(q) - n : i # j + n
    BY ONLY <1>1, n \in 0 .. Len(q)
<1>5. ASSUME NEW i \in DOMAIN f, NEW j \in DOMAIN b PROVE f[i].who # b[j].who
    <2>1. i \in 1 .. n /\ j \in 1 .. Len(q) - n BY ONLY <1>2, <1>3, i \in DOMAIN f, j \in DOMAIN b
    <2>2. f[i] = q[i] /\ b[j] = q[j + n] BY ONLY <1>2, <1>3, <2>1
    <2>3. i \in DOMAIN q /\ j + n \in DOMAIN q /\ i # j + n BY ONLY <1>4, <2>1
    <2>. QED BY ONLY Single(q), <2>2, <2>3 DEF Single
<1>6. Waiting(f) \cap Waiting(b) = {} BY ONLY <1>5 DEF Waiting
<1>. QED BY <1>6 DEF f, b

(* A queue that nobody waits for is empty. *)
LEMMA NobodyWaits ==
    ASSUME NEW q \in Seq(Request), Waiting(q) = {} PROVE q = <<>>
<1>1. Len(q) \in Nat /\ DOMAIN q = 1 .. Len(q) OBVIOUS
<1>2. DOMAIN q = {} BY ONLY Waiting(q) = {} DEF Waiting
<1>3. Len(q) = 0 BY ONLY <1>1, <1>2
<1>. QED BY <1>3

(* The connection is lost: the requests that it takes with it are not in   *)
(* the queue, and while a call waits its request is the only one there is. *)
LEMMA LoseLost ==
    ASSUME IInv, LostInv, NEW n \in {0, 1}, n <= Len(outq), Lose(n)
    PROVE  LostInv' /\ LostStep
<1>. DEFINE gone == Waiting(SubSeq(outq, 1, n))
<1>1. /\ outq \in Seq(Request) /\ Len(outq) \in Nat /\ n \in 0 .. Len(outq)
      /\ n + 1 \in Nat \ {0} /\ Len(outq) \in 0 .. Len(outq) /\ 1 \in Nat \ {0}
    BY DEF IInv, TypeOK
<1>2. /\ outq' = SubSeq(outq, n + 1, Len(outq)) /\ wire' = <<>>
      /\ broker' = {} /\ lost' = lost \cup Waiting(wire) \cup (Acked \ Acked') \cup gone
      /\ UNCHANGED <<routes, gateways, caller, onConn>>
    BY DEF Lose, Acked
<1>3. OnceInv BY DEF IInv
<1>4. /\ outq' \in Seq(Request) /\ Waiting(outq') \subseteq Waiting(outq)
      /\ gone \subseteq Waiting(outq)
    BY ONLY <1>1, <1>2, PartOfQueue
<1>5. gone \cap Waiting(outq') = {} BY ONLY <1>1, <1>2, <1>3, FrontAndBack DEF OnceInv
<1>. HIDE DEF gone
<1>6. Pending' = Waiting(outq') \cup Acked' /\ Acked' \subseteq Acked
    <2>1. Acked' \subseteq Acked BY LeftBack DEF Lose, IInv, TypeOK
    <2>2. Waiting(wire') = {} BY ONLY <1>2, EmptyQueue
    <2>. QED BY ONLY <2>1, <2>2 DEF Pending
<1>7. lost' \cap Pending' = {}
    BY ONLY LostInv, <1>2, <1>3, <1>4, <1>5, <1>6 DEF LostInv, OnceInv, Pending
<1>8. \A w \in lost' : (w = 0 => CallWaits) /\ (w # 0 => onConn[w] = "wait")
    <2>1. \A w \in Pending : (w = 0 => CallWaits) /\ (w # 0 => onConn[w] = "wait")
        BY Underway DEF Pending
    <2>2. \A w \in lost' : w \in lost \/ w \in Pending BY ONLY <1>2, <1>4 DEF Pending
    <2>. QED BY ONLY LostInv, <2>1, <2>2 DEF LostInv
<1>9. ASSUME 0 \in lost' PROVE outq' = <<>>
    <2>1. CallWaits BY <1>8, <1>9
    <2>2. \A w \in Waiting(outq) : w = 0 BY <2>1, Underway DEF CallWaits
    <2>3. Waiting(outq') = {} BY ONLY <1>4, <1>6, <1>7, <1>9, <2>2
    <2>. QED BY ONLY <1>4, <2>3, NobodyWaits
<1>10. LostInv' BY ONLY <1>2, <1>7, <1>8, <1>9 DEF LostInv, CallWaits
<1>11. LostStep BY ONLY <1>2 DEF LostStep
<1>. QED BY <1>10, <1>11

(* Nothing that concerns the requests changes. *)
LEMMA SameLost ==
    ASSUME LostInv, UNCHANGED <<outq, wire, back, broker, routes, lost, gateways, caller, onConn>>
    PROVE  LostInv' /\ LostStep
<1>1. Pending' = Pending BY DEF Pending, Acked, Acks
<1>. QED BY <1>1, StillLost DEF LostStep

(* The client has waited for its workers, is connected again or closed. *)
LEMMA ReconnectLost ==
    ASSUME IInv, LostInv, Lost \/ Reconnect \/ Close
    PROVE  LostInv' /\ LostStep
<1>1. ASSUME Reconnect PROVE LostInv' /\ LostStep
    <2>. DEFINE c == nconn + 1
    <2>1. /\ UNCHANGED <<outq, wire, back, broker, routes, lost, gateways, caller>>
          /\ onConn' = [onConn EXCEPT ![c] = "lock"]
        BY <1>1 DEF Reconnect, client
    <2>2. c \in Conn /\ c > nconn BY <1>1, MQTTAssumption DEF Reconnect, IInv, ConnInv, TypeOK, Conn
    <2>. HIDE DEF c
    <2>3. onConn[c] = "none" BY <2>2 DEF IInv, ConnInv
    <2>4. /\ onConn \in [Conn -> {"none", "lock", "call", "wait", "return", "done"}]
          /\ \A d \in lost \ {0} : d \in Conn
        BY MQTTAssumption DEF IInv, TypeOK, Conn
    <2>5. \A d \in Conn : onConn[d] # "none" => onConn'[d] = onConn[d]
        BY ONLY <2>1, <2>2, <2>3, <2>4
    <2>6. \A d \in lost \ {0} : onConn'[d] = onConn[d]
        BY ONLY LostInv, <2>4, <2>5 DEF LostInv
    <2>7. Pending' = Pending BY ONLY <2>1 DEF Pending, Acked, Acks
    <2>. QED BY ONLY LostInv, <2>1, <2>5, <2>6, <2>7, StillLost DEF LostStep
<1>2. ASSUME Close PROVE LostInv' /\ LostStep
    <2>1. /\ UNCHANGED <<outq, routes, lost, gateways, caller, onConn>>
          /\ wire' = <<>> /\ broker' = {}
        BY <1>2 DEF Close
    <2>2. Acked' \subseteq Acked /\ Waiting(wire') = {}
        BY <1>2, <2>1, LeftBack, SameBack, EmptyQueue DEF Close, IInv, TypeOK
    <2>3. Pending' \subseteq Pending BY ONLY <2>1, <2>2 DEF Pending
    <2>4. 0 \in lost => broker = {} /\ wire = <<>> BY DEF LostInv
    <2>. QED BY ONLY LostInv, <2>1, <2>3, <2>4, StillLost DEF LostStep
<1>3. ASSUME Lost PROVE LostInv' /\ LostStep BY <1>3, SameLost DEF Lost, client
<1>. QED BY <1>1, <1>2, <1>3

(* Every step keeps the invariant, and what is lost stays lost. *)
LEMMA NextLostInv ==
    ASSUME IInv, LostInv, [Next]_vars PROVE LostInv' /\ LostStep
<1>1. ASSUME Queue \/ LoopStops \/ Dispatch \/ HandOver \/ Send PROVE LostInv' /\ LostStep
    <2>1. UNCHANGED <<client, gateways, caller, onConn>>
        BY <1>1 DEF Queue, LoopStops, Dispatch, HandOver, Send
    <2>. QED BY <2>1, SameLost DEF client
<1>2. ASSUME UNCHANGED vars PROVE LostInv' /\ LostStep BY <1>2, SameLost DEF vars, client
<1>3. ASSUME Loss PROVE LostInv' /\ LostStep BY <1>3, LoseLost DEF Loss
<1>4. ASSUME \E c \in Conn : OnConnectedLock(c) \/ OnConnectedRequest(c) \/ OnConnectedReturn(c)
      PROVE  LostInv' /\ LostStep
    BY <1>4, OnConnectedLost
<1>. QED BY <1>1, <1>2, <1>3, <1>4, CallLost, WireLost, HandleLost, ReconnectLost
         DEF Next, Inbound

(* The invariant holds in every reachable state. *)
THEOREM LostIsNowhere == Spec => []LostInv
<1>1. Init => LostInv BY DEF Init, LostInv
<1>2. IInv /\ LostInv /\ [Next]_vars => LostInv' BY NextLostInv
<1>. QED BY <1>1, <1>2, IInvHolds, PTL DEF Spec

(* A request that is lost stays lost. *)
LostForGood == [][LostStep]_vars

(* Nothing answers for a request that went down with its connection, and   *)
(* no reconnection brings it back: token.Wait never returns.  From then on *)
(* the map does not change any more, whoever lost the request; and when it *)
(* was the call of the registry, the call keeps its locks, the client gets *)
(* no new handler, and no onConnected that waits for the map gets it, so   *)
(* the subscriptions that the loss ended are never made again.             *)
THEOREM LostStaysLost == Spec => LostForGood
<1>1. IInv /\ LostInv /\ [Next]_vars => [LostStep]_vars BY NextLostInv
<1>. QED BY <1>1, IInvHolds, LostIsNowhere, PTL DEF Spec, LostForGood
==============================================================================
