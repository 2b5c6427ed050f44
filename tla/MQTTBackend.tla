----------------------------- MODULE MQTTBackend -----------------------------
(***************************************************************************)
(* The MQTT backend of backend/mqttpubsub/backend.go, with the part of its *)
(* MQTT client (paho, under vendor) it depends on, and the broker          *)
(* (external).  Requests are queued while the client reconnects, a session *)
(* is clean, so the broker forgets every subscription with the connection, *)
(* a request that was written to a lost connection is never answered, and  *)
(* onConnected runs in a goroutine of its own after every connection.      *)
(*                                                                         *)
(* The client's goroutines: outgoing writes requests and publications,     *)
(* incoming reads packets and hands them one by one to a loop (alllogic),  *)
(* which completes tokens and queues messages for the router, whose        *)
(* goroutine calls txPacketHandler.  After a loss the client waits for     *)
(* incoming and outgoing before it reconnects, but not for the loop: a     *)
(* loop that waits at the full queue lives on beside the next one.         *)
(*                                                                         *)
(* The registry calls SubscribeGatewayTX and UnSubscribeGatewayTX one at a *)
(* time with its lock held, and the reader of TXPacketChan waits for the   *)
(* same lock in Send.                                                      *)
(***************************************************************************)
EXTENDS Integers, Sequences

CONSTANTS
    MAC,        \* gateway identifiers
    Depth,      \* MessageChannelDepth of the queue of received messages
    MaxConn,    \* bound on the connections
    MaxCall,    \* bound on the calls of the registry
    MaxMsg      \* bound on the downlinks the broker sends

ASSUME MQTTAssumption ==
    /\ Depth \in Nat \ {0}
    /\ MaxConn \in Nat \ {0} /\ MaxCall \in Nat /\ MaxMsg \in Nat

VARIABLES
    conn,      \* up, losing (internalConnLost waits for the workers), hung (it
               \* waits for ever), down (reconnecting), closed, or closing
               \* (closed while it was losing)
    stopped,   \* Close was called
    nconn,     \* the number of the connection
    outq,      \* oboundP: requests that are not written yet
    wire,      \* requests written and not yet seen by the broker
    back,      \* answers and messages on their way to the client's loop
    broker,    \* the gateways whose topic the broker has a subscription for
    routes,    \* the gateways whose topic the client has a handler for
    gateways,  \* Backend.gateways
    caller,    \* the call of the registry
    calls,     \* calls so far
    onConn,    \* the onConnected goroutines, by connection
    free,      \* the loops that wait for a packet
    held,      \* the loops that have a message to queue
    inq,       \* the messages in incomingPubChan
    handler,   \* txPacketHandler: free or waiting at TXPacketChan
    reader,    \* the reader of TXPacketChan: free or in Send
    msgs,      \* downlinks sent by the broker so far
    lost,      \* history: the requests that got lost with a connection
    refused    \* history: topics the broker refused at the last request

client == <<outq, wire, back, broker, routes, lost, refused>>
inbound == <<free, held, inq, handler, reader, msgs>>
vars == <<conn, stopped, nconn, client, gateways, caller, calls, onConn, inbound>>

Conn == 1 .. MaxConn
Idle == [pc |-> "idle"]

(* A subscription or unsubscription of topics.  who waits for its answer:  *)
(* 0 is the call of the registry, c the onConnected of connection c.       *)
Request == [op : {"sub", "unsub"}, topics : SUBSET MAC, who : 0 .. MaxConn]

(* An answer, or a message, whose topic and payload are left out. *)
Message == [msg |-> TRUE]
Packet == [ack : 0 .. MaxConn] \cup {Message}

RegistryCall == [pc : {"lock", "call", "wait", "return"}, op : {"sub", "unsub"}, mac : MAC]

(* Every variable stays in its type. *)
TypeOK ==
    /\ conn \in {"up", "losing", "hung", "down", "closed", "closing"}
    /\ stopped \in BOOLEAN
    /\ nconn \in Conn
    /\ outq \in Seq(Request) /\ wire \in Seq(Request) /\ back \in Seq(Packet)
    /\ broker \subseteq MAC /\ routes \subseteq MAC /\ gateways \subseteq MAC
    /\ caller \in {Idle} \cup RegistryCall
    /\ calls \in 0 .. MaxCall
    /\ onConn \in [Conn -> {"none", "lock", "call", "wait", "return", "done"}]
    /\ free \in Nat /\ held \in Nat /\ free + held <= MaxConn
    /\ inq \in 0 .. Depth
    /\ handler \in {"free", "push"} /\ reader \in {"free", "send"}
    /\ msgs \in 0 .. MaxMsg
    /\ lost \subseteq 0 .. MaxConn
    /\ refused \subseteq MAC

(* NewBackend: the client is connected, onConnected has been started. *)
Init ==
    /\ conn = "up" /\ stopped = FALSE /\ nconn = 1
    /\ outq = <<>> /\ wire = <<>> /\ back = <<>>
    /\ broker = {} /\ routes = {} /\ gateways = {}
    /\ caller = Idle /\ calls = 0
    /\ onConn = [c \in Conn |-> IF c = 1 THEN "lock" ELSE "none"]
    /\ free = 1 /\ held = 0 /\ inq = 0 /\ handler = "free" /\ reader = "free" /\ msgs = 0
    /\ lost = {} /\ refused = {}

-----------------------------------------------------------------------------
(* SubscribeGatewayTX and UnSubscribeGatewayTX *)

(* ~IsConnected, with AutoReconnect *)
Disconnected == conn \in {"closed", "closing"}

Call(op, m) ==
    /\ caller = Idle
    /\ calls < MaxCall
    /\ op = IF m \in gateways THEN "unsub" ELSE "sub"
    /\ calls' = calls + 1
    /\ caller' = [pc |-> "lock", op |-> op, mac |-> m]
    /\ UNCHANGED <<conn, stopped, nconn, client, gateways, onConn, inbound>>

(* The onConnected goroutines that hold the read lock. *)
Readers == {c \in Conn : onConn[c] \in {"call", "wait", "return"}}

CallLock ==
    /\ caller.pc = "lock"
    /\ Readers = {}
    /\ caller' = [caller EXCEPT !.pc = "call"]
    /\ UNCHANGED <<conn, stopped, nconn, client, gateways, calls, onConn, inbound>>

(* The request is queued, and the handler of the topic is set or removed. *)
CallRequest ==
    /\ caller.pc = "call"
    /\ ~Disconnected
    /\ outq' = Append(outq, [op |-> caller.op, topics |-> {caller.mac}, who |-> 0])
    /\ routes' = IF caller.op = "sub" THEN routes \cup {caller.mac}
                                      ELSE routes \ {caller.mac}
    /\ caller' = [caller EXCEPT !.pc = "wait"]
    /\ UNCHANGED <<conn, stopped, nconn, wire, back, broker, lost, refused, gateways, calls, onConn, inbound>>

(* ErrNotConnected *)
CallFails ==
    /\ caller.pc = "call"
    /\ Disconnected
    /\ caller' = Idle
    /\ UNCHANGED <<conn, stopped, nconn, client, gateways, calls, onConn, inbound>>

(* The token is complete: the map is updated and the lock released. *)
CallReturn ==
    /\ caller.pc = "return"
    /\ gateways' = IF caller.op = "sub" THEN gateways \cup {caller.mac}
                                        ELSE gateways \ {caller.mac}
    /\ caller' = Idle
    /\ UNCHANGED <<conn, stopped, nconn, client, calls, onConn, inbound>>

-----------------------------------------------------------------------------
(* onConnected *)

(* Mutant: the lock is not taken. *)
OnConnectedNoLock(c) ==
    /\ onConn[c] = "lock"
    /\ onConn' = [onConn EXCEPT ![c] = IF gateways = {} THEN "done" ELSE "call"]
    /\ UNCHANGED <<conn, stopped, nconn, client, gateways, caller, calls, inbound>>

(* RLock, which waits for a writer that holds the lock or waits for it. *)
OnConnectedLock(c) ==
    /\ onConn[c] = "lock"
    /\ caller = Idle
    /\ onConn' = [onConn EXCEPT ![c] = IF gateways = {} THEN "done" ELSE "call"]
    /\ UNCHANGED <<conn, stopped, nconn, client, gateways, caller, calls, inbound>>

(* SubscribeMultiple.  On a closed client it fails again and again. *)
OnConnectedRequest(c) ==
    /\ onConn[c] = "call"
    /\ ~Disconnected
    /\ outq' = Append(outq, [op |-> "sub", topics |-> gateways, who |-> c])
    /\ routes' = routes \cup gateways
    /\ onConn' = [onConn EXCEPT ![c] = "wait"]
    /\ UNCHANGED <<conn, stopped, nconn, wire, back, broker, lost, refused, gateways, caller, calls, inbound>>

OnConnectedReturn(c) ==
    /\ onConn[c] = "return"
    /\ onConn' = [onConn EXCEPT ![c] = "done"]
    /\ UNCHANGED <<conn, stopped, nconn, client, gateways, caller, calls, inbound>>

-----------------------------------------------------------------------------
(* The client, and the broker (external) *)

(* outgoing *)
Write ==
    /\ conn = "up"
    /\ outq # <<>>
    /\ wire' = Append(wire, Head(outq))
    /\ outq' = Tail(outq)
    /\ UNCHANGED <<conn, stopped, nconn, back, broker, routes, lost, refused, gateways, caller, calls, onConn, inbound>>

(* The broker answers the next request; of a subscription it may refuse    *)
(* some of the topics, which leaves what it had for them.                  *)
Answer(no) ==
    LET r == Head(wire) IN
    /\ wire # <<>>
    /\ no \subseteq r.topics
    /\ r.op = "unsub" => no = {}
    /\ broker' = IF r.op = "unsub" THEN broker \ r.topics
                                   ELSE broker \cup (r.topics \ no)
    /\ refused' = (refused \ r.topics) \cup no
    /\ back' = Append(back, [ack |-> r.who])
    /\ wire' = Tail(wire)
    /\ UNCHANGED <<conn, stopped, nconn, outq, routes, lost, gateways, caller, calls, onConn, inbound>>

SendMessage ==
    /\ conn = "up"
    /\ broker # {}
    /\ msgs < MaxMsg
    /\ msgs' = msgs + 1
    /\ back' = Append(back, Message)
    /\ UNCHANGED <<conn, stopped, nconn, outq, wire, broker, routes, lost, refused, gateways, caller, calls, onConn, free, held, inq, handler, reader>>

(* alllogic: the token completes, without an error even for a refused      *)
(* subscription.                                                           *)
HandleAck ==
    /\ free > 0
    /\ back # <<>> /\ "ack" \in DOMAIN Head(back)
    /\ back' = Tail(back)
    /\ \/ /\ Head(back).ack = 0
          /\ caller' = [caller EXCEPT !.pc = "return"]
          /\ UNCHANGED onConn
       \/ /\ Head(back).ack # 0
          /\ onConn' = [onConn EXCEPT ![Head(back).ack] = "return"]
          /\ UNCHANGED caller
    /\ UNCHANGED <<conn, stopped, nconn, outq, wire, broker, routes, lost, refused, gateways, calls, inbound>>

(* alllogic: a message, and its way into incomingPubChan. *)
HandleMessage ==
    /\ free > 0
    /\ back # <<>> /\ Head(back) = Message
    /\ back' = Tail(back)
    /\ free' = free - 1
    /\ held' = held + 1
    /\ UNCHANGED <<conn, stopped, nconn, outq, wire, broker, routes, lost, refused, gateways, caller, calls, onConn, inq, handler, reader, msgs>>

Queue ==
    /\ held > 0
    /\ inq < Depth
    /\ inq' = inq + 1
    /\ held' = held - 1
    /\ free' = free + 1
    /\ UNCHANGED <<conn, stopped, nconn, client, gateways, caller, calls, onConn, handler, reader, msgs>>

(* A loop ends once the connection it was started for is given up. *)
LoopStops ==
    /\ conn # "up"
    /\ free > 0
    /\ free' = free - 1
    /\ UNCHANGED <<conn, stopped, nconn, client, gateways, caller, calls, onConn, held, inq, handler, reader, msgs>>

(* A message without a handler is dropped, and txPacketHandler drops one   *)
(* that does not decode.                                                   *)
Dispatch ==
    /\ handler = "free"
    /\ inq > 0
    /\ inq' = inq - 1
    /\ \/ routes # {} /\ handler' = "push"
       \/ UNCHANGED handler
    /\ UNCHANGED <<conn, stopped, nconn, client, gateways, caller, calls, onConn, free, held, reader, msgs>>

(* b.txPacketChan <- txPacket *)
HandOver ==
    /\ handler = "push"
    /\ reader = "free"
    /\ handler' = "free"
    /\ reader' = "send"
    /\ UNCHANGED <<conn, stopped, nconn, client, gateways, caller, calls, onConn, free, held, inq, msgs>>

(* Send returns, when the registry is not locked by a call. *)
Send ==
    /\ reader = "send"
    /\ caller = Idle
    /\ reader' = "free"
    /\ UNCHANGED <<conn, stopped, nconn, client, gateways, caller, calls, onConn, free, held, inq, handler, msgs>>

-----------------------------------------------------------------------------
(* Loss of the connection, reconnection and Close *)

Waiting(q) == {q[i].who : i \in DOMAIN q}
Acks(q) == {q[i].ack : i \in {j \in DOMAIN q : "ack" \in DOMAIN q[j]}}

(* What incoming has read of a connection that is given up. *)
Left == {SubSeq(back, 1, n) : n \in {0, 1} \cap 0 .. Len(back)}

(* outgoing, incoming or keepalive notices, and internalConnLost closes    *)
(* the connection.  What was written is lost, with its answers, except one *)
(* that incoming has read already, and so are the first n requests, which  *)
(* are being written.  outgoing may go on to wait at pingResp, which       *)
(* nobody reads any more, after it has written a request or a publication. *)
Lose(n) ==
    /\ conn = "up"
    /\ nconn < MaxConn
    /\ conn' \in {"losing", "hung"}
    /\ broker' = {} /\ refused' = {} /\ wire' = <<>>
    /\ back' \in Left
    /\ outq' = SubSeq(outq, n + 1, Len(outq))
    /\ lost' = lost \cup Waiting(wire) \cup (Acks(back) \ Acks(back'))
                    \cup Waiting(SubSeq(outq, 1, n))
    /\ UNCHANGED <<stopped, nconn, routes, gateways, caller, calls, onConn, inbound>>

(* workers.Wait returns, once the loop has taken what incoming has read;   *)
(* a Close that came meanwhile is forgotten.                               *)
Lost ==
    /\ conn \in {"losing", "closing"}
    /\ back = <<>>
    /\ conn' = "down"
    /\ UNCHANGED <<stopped, nconn, client, gateways, caller, calls, onConn, inbound>>

(* Mutant: the queue of requests is a new one after a reconnection. *)
ReconnectFresh ==
    /\ conn = "down"
    /\ conn' = "up"
    /\ nconn' = nconn + 1
    /\ outq' = <<>>
    /\ onConn' = [onConn EXCEPT ![nconn + 1] = "lock"]
    /\ free' = free + 1
    /\ UNCHANGED <<stopped, wire, back, broker, routes, lost, refused, gateways, caller, calls, held, inq, handler, reader, msgs>>

Reconnect ==
    /\ conn = "down"
    /\ conn' = "up"
    /\ nconn' = nconn + 1
    /\ onConn' = [onConn EXCEPT ![nconn + 1] = "lock"]
    /\ free' = free + 1
    /\ UNCHANGED <<stopped, client, gateways, caller, calls, held, inq, handler, reader, msgs>>

(* Disconnect.  A reconnection may be past its last look at the status. *)
Close ==
    /\ ~stopped
    /\ stopped' = TRUE
    /\ conn' \in CASE conn = "losing" -> {"closing"}
                   [] conn = "down" -> {"closed", "down"}
                   [] OTHER -> {"closed"}
    /\ broker' = {} /\ refused' = {} /\ wire' = <<>>
    /\ IF conn = "up" THEN back' \in Left ELSE UNCHANGED back
    /\ UNCHANGED <<nconn, outq, routes, lost, gateways, caller, calls, onConn, inbound>>

-----------------------------------------------------------------------------
Loss == \E n \in {0, 1} : n <= Len(outq) /\ Lose(n)

Inbound == HandleAck \/ HandleMessage \/ Queue \/ Dispatch \/ HandOver

Next ==
    \/ \E op \in {"sub", "unsub"}, m \in MAC : Call(op, m)
    \/ CallLock \/ CallRequest \/ CallFails \/ CallReturn
    \/ \E c \in Conn : OnConnectedLock(c) \/ OnConnectedRequest(c) \/ OnConnectedReturn(c)
    \/ Write \/ \E no \in SUBSET MAC : Answer(no)
    \/ Inbound \/ LoopStops \/ Send \/ SendMessage
    \/ Loss \/ Lost \/ Reconnect \/ Close

Spec == Init /\ [][Next]_vars

(* Fairness: each goroutine runs, the network and the broker do their      *)
(* work, and the broker can be reached again after a loss.  Whether a loop *)
(* that may stop takes one more packet before is open.                     *)
FairSpec ==
    /\ Spec
    /\ WF_vars(CallLock \/ CallRequest \/ CallFails \/ CallReturn)
    /\ \A c \in Conn :
          WF_vars(OnConnectedLock(c) \/ OnConnectedRequest(c) \/ OnConnectedReturn(c))
    /\ WF_vars(Write) /\ WF_vars(\E no \in SUBSET MAC : Answer(no))
    /\ WF_vars(HandleAck \/ HandleMessage \/ Queue)
    /\ WF_vars(Dispatch \/ HandOver) /\ WF_vars(Send)
    /\ WF_vars(Lost \/ Reconnect)

-----------------------------------------------------------------------------
(* Nothing is under way: no call, no request without an answer, and the    *)
(* onConnected of this connection has ended.                               *)
Settled ==
    /\ conn = "up"
    /\ caller = Idle
    /\ outq = <<>> /\ wire = <<>>
    /\ onConn[nconn] = "done"

(* However losses, reconnections, subscriptions and unsubscriptions fall   *)
(* together, once everything has settled the client's handlers are those   *)
(* of the map, and the broker has the same gateways, up to the ones it     *)
(* refused, which the backend takes for subscribed.                        *)
SubscriptionsRestored ==
    Settled => /\ routes = gateways
               /\ broker \subseteq gateways
               /\ gateways \subseteq broker \cup refused

(* The type of the variables, and the subscriptions. *)
MQTTInv == TypeOK /\ SubscriptionsRestored

(* The downlinks fill reader, handler, queue and loops while a call holds  *)
(* the registry's lock, for which the reader waits.                        *)
Jammed ==
    /\ caller # Idle
    /\ reader = "send" /\ handler = "push" /\ inq = Depth /\ free = 0

(* The client waits for a worker that waits for nobody: outgoing, or       *)
(* incoming with a packet that no loop will take.                          *)
Hung == conn = "hung" \/ (conn = "losing" /\ back # <<>> /\ free = 0 /\ held = 0)

(***************************************************************************)
(* The ways SubscribeGatewayTX and UnSubscribeGatewayTX may never return   *)
(* are these and no other: a request lost with a connection, a client that *)
(* hangs after a loss, downlinks that jam it during the call, and Close.   *)
(* (All of them are real.)  The read lock of onConnected, the write lock   *)
(* of a call and the registry's lock never make each other wait for ever,  *)
(* nor is a request forgotten that was not written before a loss.          *)
(***************************************************************************)
CallReturnsUnlessStuck ==
    (caller # Idle) ~> (caller = Idle \/ lost # {} \/ stopped \/ Jammed \/ Hung)
=============================================================================
