----------------------------- MODULE TTNBackend -----------------------------
(***************************************************************************)
(* The TTN backend of backend/thethingsnetwork/backend.go between the two  *)
(* sides that use it: the registry of gateways, whose callbacks subscribe  *)
(* and unsubscribe a gateway while the registry is locked, and the loops   *)
(* of main.go, which publish every uplink and status in a goroutine of its *)
(* own, hand downlinks to Send, and close everything after a signal.       *)
(*                                                                         *)
(* The streams are the ones UplinkStream and DownlinkStream describe: the  *)
(* uplink and status streams of a gtw panic when they are used after       *)
(* Close; a downlink stream is a lossy buffer whose Close may have to wait *)
(* and whose channel is closed some time after it.  The registry calls are *)
(* the ones Registry allows: they alternate for every gateway, and Send    *)
(* cannot look up a route while one of them runs.                          *)
(***************************************************************************)
EXTENDS Integers, Sequences, FiniteSets

CONSTANTS
    MAC,         \* gateway identifiers
    Publisher,   \* goroutines of main.go, one per uplink or status
    BufferSize,  \* DefaultBufferSize of the downlink stream
    MaxSub,      \* bound on the subscriptions of a gateway
    MaxRecv      \* bound on the downlinks the router sends

ASSUME TTNAssumption ==
    /\ BufferSize \in Nat \ {0} /\ MaxSub \in Nat /\ MaxRecv \in Nat

VARIABLES
    proc,        \* the process: running, exited, or ended by one of two panics
    registered,  \* the gateways in the registry
    reg,         \* the callback that runs under the registry lock, if any
    gatewayConf, \* Backend.gatewayConf: the gateways AddGateway was called for
    gateways,    \* Backend.gateways: MAC -> the number of its gtw, 0 for none
    created,     \* how many gtws newGtw has made for a MAC
    conf,        \* gtw.conf: none, static (AddGateway) or account
    lookup,      \* the gateways whose FindGateway is under way
    open,        \* the uplink and status streams that are open
    pub,         \* the publishing goroutines
    downlink,    \* gtw.downlink: the number of the latest stream, 0 for nil
    stream,      \* the downlink streams by gateway and number
    consumer,    \* the goroutines of SubscribeGatewayTX, by the same
    received,    \* downlinks sent by the router so far
    tx,          \* the downlink loop of main.go
    closer       \* where the shutdown is

ttn == <<gatewayConf, gateways, created, conf, lookup, open>>
down == <<downlink, stream, consumer, received>>
vars == <<proc, registered, reg, ttn, pub, down, tx, closer>>

Subs == 1 .. MaxSub
(* The stream of a gtw that an uplink and a status go to. *)
Kind == {"uplink", "status"}
(* A downlink with a LoRaWAN configuration, without one, or with one that  *)
(* cannot be converted: it lacks the gateway configuration, or has a LoRa  *)
(* data rate that ParseDataRate refuses.                                   *)
Downlink == {"lora", "other", "bad"}

Idle == [pc |-> "idle"]
Done == [pc |-> "done"]
RegCall == [pc : {"subGet", "subNew", "subOpen", "unsubGet", "unsubClose"}, mac : MAC]
PubCall == [pc : {"get", "new", "send"}, mac : MAC, kind : Kind, gtw : Nat]
NoStream == [st |-> "none", buf |-> <<>>]
NoConsumer == [pc |-> "none", at |-> 0]

StreamState == {"none", "open", "closing", "ended"}
Stream == [st : StreamState, buf : Seq(Downlink)]
ConsumerState == {"none", "new", "range", "push", "done"}
Consumer == [pc : ConsumerState, at : 0 .. MaxSub]

(* Every variable stays in its type. *)
TypeOK ==
    /\ proc \in {"running", "sendPanic", "nilPanic", "exited"}
    /\ registered \subseteq MAC
    /\ reg \in {Idle} \cup RegCall
    /\ gatewayConf \subseteq MAC
    /\ gateways \in [MAC -> Nat]
    /\ created \in [MAC -> Nat]
    /\ conf \in [MAC -> {"none", "static", "account"}]
    /\ lookup \subseteq MAC
    /\ open \subseteq MAC \X Nat \X Kind
    /\ pub \in [Publisher -> {Idle, Done} \cup PubCall]
    /\ downlink \in [MAC -> 0 .. MaxSub]
    /\ stream \in [MAC -> [Subs -> Stream]]
    /\ \A m \in MAC, k \in Subs : Len(stream[m][k].buf) <= BufferSize
    /\ consumer \in [MAC -> [Subs -> Consumer]]
    /\ received \in 0 .. MaxRecv
    /\ tx \in {Idle} \cup [pc : {"get"}, mac : MAC]
    /\ closer \in [pc : {"no", "lock", "next", "uplink", "downlink", "status", "done"},
                   todo : SUBSET MAC, mac : SUBSET MAC]

(* NewBackend of both sides; AddGateway has been called for some gateways. *)
Init ==
    /\ proc = "running"
    /\ registered = {}
    /\ reg = Idle
    /\ gatewayConf \in SUBSET MAC
    /\ gateways = [m \in MAC |-> 0]
    /\ created = [m \in MAC |-> 0]
    /\ conf = [m \in MAC |-> "none"]
    /\ lookup = {}
    /\ open = {}
    /\ pub = [p \in Publisher |-> Idle]
    /\ downlink = [m \in MAC |-> 0]
    /\ stream = [m \in MAC |-> [k \in Subs |-> NoStream]]
    /\ consumer = [m \in MAC |-> [k \in Subs |-> NoConsumer]]
    /\ received = 0
    /\ tx = Idle
    /\ closer = [pc |-> "no", todo |-> {}, mac |-> {}]

Running == proc = "running"

(* Backend.mutex is held for long by Close only: every other holder, the   *)
(* rate ticker included, releases it without waiting for anything.         *)
Unlocked == closer.pc \in {"no", "lock"}

-----------------------------------------------------------------------------
(* getGtw and newGtw *)

Streams(m, n) == {<<m, n, k>> : k \in Kind}

(* Mutant: newGtw does not look again after it got the lock. *)
NewGtwBlind(m) ==
    /\ created' = [created EXCEPT ![m] = @ + 1]
    /\ gateways' = [gateways EXCEPT ![m] = created[m] + 1]
    /\ open' = open \cup Streams(m, created[m] + 1)
    /\ conf' = [conf EXCEPT ![m] = IF m \in gatewayConf THEN "static" ELSE "none"]
    /\ lookup' = IF m \in gatewayConf THEN lookup ELSE lookup \cup {m}
    /\ UNCHANGED gatewayConf

(* newGtw under the lock: the streams are opened, and the account server   *)
(* is asked for a gateway without configuration.                           *)
NewGtw(m) ==
    \/ /\ gateways[m] # 0
       /\ UNCHANGED ttn
    \/ /\ gateways[m] = 0
       /\ created' = [created EXCEPT ![m] = @ + 1]
       /\ gateways' = [gateways EXCEPT ![m] = created[m] + 1]
       /\ open' = open \cup Streams(m, created[m] + 1)
       /\ conf' = [conf EXCEPT ![m] = IF m \in gatewayConf THEN "static" ELSE "none"]
       /\ lookup' = IF m \in gatewayConf THEN lookup ELSE lookup \cup {m}
       /\ UNCHANGED gatewayConf

(* FindGateway returns: with an error, or with settings and a token that   *)
(* replace gtw.conf.                                                       *)
Found(m) ==
    /\ Running
    /\ m \in lookup
    /\ lookup' = lookup \ {m}
    /\ \/ conf' = [conf EXCEPT ![m] = "account"]
       \/ UNCHANGED conf
    /\ UNCHANGED <<proc, registered, reg, gatewayConf, gateways, created, open, pub, down, tx, closer>>

-----------------------------------------------------------------------------
(* PublishGatewayRX and PublishGatewayStats *)

(* main.go starts a goroutine for an uplink or a status; datagrams that    *)
(* were received before the shutdown still arrive after it began.          *)
Publish(p, m, k) ==
    /\ Running
    /\ pub[p] = Idle
    /\ pub' = [pub EXCEPT ![p] = [pc |-> "get", mac |-> m, kind |-> k, gtw |-> 0]]
    /\ UNCHANGED <<proc, registered, reg, ttn, down, tx, closer>>

PublishGet(p) ==
    /\ Running
    /\ pub[p].pc = "get"
    /\ Unlocked
    /\ LET n == gateways[pub[p].mac] IN
       pub' = [pub EXCEPT ![p].pc = IF n = 0 THEN "new" ELSE "send", ![p].gtw = n]
    /\ UNCHANGED <<proc, registered, reg, ttn, down, tx, closer>>

PublishNew(p) ==
    /\ Running
    /\ pub[p].pc = "new"
    /\ Unlocked
    /\ NewGtw(pub[p].mac)
    /\ pub' = [pub EXCEPT ![p].pc = "send", ![p].gtw = gateways'[pub[p].mac]]
    /\ UNCHANGED <<proc, registered, reg, down, tx, closer>>

Target(p) == <<pub[p].mac, pub[p].gtw, pub[p].kind>>

(* The stream takes the message or drops it, or the rate limit dropped it. *)
PublishSend(p) ==
    /\ Running
    /\ pub[p].pc = "send"
    /\ Target(p) \in open
    /\ pub' = [pub EXCEPT ![p] = Done]
    /\ UNCHANGED <<proc, registered, reg, ttn, down, tx, closer>>

(* Send on the closed channel of the stream. *)
PublishPanics(p) ==
    /\ Running
    /\ pub[p].pc = "send"
    /\ Target(p) \notin open
    /\ proc' = "sendPanic"
    /\ UNCHANGED <<registered, reg, ttn, pub, down, tx, closer>>

-----------------------------------------------------------------------------
(* SubscribeGatewayTX and UnSubscribeGatewayTX, called by the registry     *)
(* with its lock held: for a gateway that is new, and for one it removes.  *)

Subscribe(m) ==
    /\ Running
    /\ reg = Idle
    /\ m \notin registered
    /\ downlink[m] < MaxSub
    /\ reg' = [pc |-> "subGet", mac |-> m]
    /\ UNCHANGED <<proc, registered, ttn, pub, down, tx, closer>>

SubscribeGet ==
    /\ Running
    /\ reg.pc = "subGet"
    /\ Unlocked
    /\ reg' = [reg EXCEPT !.pc = IF gateways[reg.mac] = 0 THEN "subNew" ELSE "subOpen"]
    /\ UNCHANGED <<proc, registered, ttn, pub, down, tx, closer>>

SubscribeNew ==
    /\ Running
    /\ reg.pc = "subNew"
    /\ Unlocked
    /\ NewGtw(reg.mac)
    /\ reg' = [reg EXCEPT !.pc = "subOpen"]
    /\ UNCHANGED <<proc, registered, pub, down, tx, closer>>

(* Mutant: the goroutine is given the stream of the field before the new   *)
(* one is assigned.                                                        *)
SubscribeOpenOld ==
    /\ Running
    /\ reg.pc = "subOpen"
    /\ LET m == reg.mac
           k == downlink[m] + 1 IN
       /\ stream' = [stream EXCEPT ![m][k].st = "open"]
       /\ downlink' = [downlink EXCEPT ![m] = k]
       /\ consumer' = [consumer EXCEPT ![m][k] =
                         IF k = 1 THEN [NoConsumer EXCEPT !.pc = "new"]
                                  ELSE [pc |-> "range", at |-> k - 1]]
       /\ registered' = registered \cup {m}
    /\ reg' = Idle
    /\ UNCHANGED <<proc, ttn, pub, received, tx, closer>>

(* gtw.downlink is assigned a new stream and a goroutine is started; the   *)
(* registry inserts the gateway after the callback.                        *)
SubscribeOpen ==
    /\ Running
    /\ reg.pc = "subOpen"
    /\ LET m == reg.mac
           k == downlink[m] + 1 IN
       /\ stream' = [stream EXCEPT ![m][k].st = "open"]
       /\ downlink' = [downlink EXCEPT ![m] = k]
       /\ consumer' = [consumer EXCEPT ![m][k].pc = "new"]
       /\ registered' = registered \cup {m}
    /\ reg' = Idle
    /\ UNCHANGED <<proc, ttn, pub, received, tx, closer>>

Unsubscribe(m) ==
    /\ Running
    /\ reg = Idle
    /\ m \in registered
    /\ reg' = [pc |-> "unsubGet", mac |-> m]
    /\ UNCHANGED <<proc, registered, ttn, pub, down, tx, closer>>

UnsubscribeGet ==
    /\ Running
    /\ reg.pc = "unsubGet"
    /\ Unlocked
    /\ reg' = [reg EXCEPT !.pc = "unsubClose"]
    /\ UNCHANGED <<proc, registered, ttn, pub, down, tx, closer>>

(* Close of the downlink stream m has: a stream that has ended stays so. *)
CloseDownlink(m) ==
    LET k == downlink[m] IN
    stream' = IF k # 0 /\ stream[m][k].st = "open"
              THEN [stream EXCEPT ![m][k].st = "closing"] ELSE stream

(* Mutant: the stream is left open. *)
UnsubscribeCloseNot ==
    /\ Running
    /\ reg.pc = "unsubClose"
    /\ registered' = registered \ {reg.mac}
    /\ reg' = Idle
    /\ UNCHANGED <<proc, ttn, pub, down, tx, closer>>

(* Mutant: the whole gtw is closed, not only its downlink stream. *)
UnsubscribeCloseAll ==
    /\ Running
    /\ reg.pc = "unsubClose"
    /\ CloseDownlink(reg.mac)
    /\ open' = open \ Streams(reg.mac, gateways[reg.mac])
    /\ registered' = registered \ {reg.mac}
    /\ reg' = Idle
    /\ UNCHANGED <<proc, gatewayConf, gateways, created, conf, lookup, pub, downlink,
                   consumer, received, tx, closer>>

(* Mutant: the callback also waits for the goroutine of the subscription. *)
UnsubscribeCloseWaits ==
    /\ Running
    /\ reg.pc = "unsubClose"
    /\ \/ /\ stream[reg.mac][downlink[reg.mac]].st = "open"
          /\ CloseDownlink(reg.mac)
          /\ UNCHANGED <<registered, reg>>
       \/ /\ consumer[reg.mac][downlink[reg.mac]].pc = "done"
          /\ registered' = registered \ {reg.mac}
          /\ reg' = Idle
          /\ UNCHANGED stream
    /\ UNCHANGED <<proc, ttn, pub, downlink, consumer, received, tx, closer>>

(* The registry deletes the gateway after the callback. *)
UnsubscribeClose ==
    /\ Running
    /\ reg.pc = "unsubClose"
    /\ CloseDownlink(reg.mac)
    /\ registered' = registered \ {reg.mac}
    /\ reg' = Idle
    /\ UNCHANGED <<proc, ttn, pub, downlink, consumer, received, tx, closer>>

-----------------------------------------------------------------------------
(* The downlink streams, their goroutines and the downlink loop of main.go *)

(* The router sends a downlink: it is buffered, or dropped. *)
Recv(m, k, d) ==
    /\ Running
    /\ stream[m][k].st \in {"open", "closing"}
    /\ received < MaxRecv
    /\ received' = received + 1
    /\ stream' = IF Len(stream[m][k].buf) < BufferSize
                 THEN [stream EXCEPT ![m][k].buf = Append(@, d)] ELSE stream
    /\ UNCHANGED <<proc, registered, reg, ttn, pub, downlink, consumer, tx, closer>>

(* The goroutine of a closed stream closes the channel. *)
StreamEnds(m, k) ==
    /\ Running
    /\ stream[m][k].st = "closing"
    /\ stream' = [stream EXCEPT ![m][k].st = "ended"]
    /\ UNCHANGED <<proc, registered, reg, ttn, pub, downlink, consumer, received, tx, closer>>

(* gtw.downlink.Channel(): the goroutine reads the field when it starts. *)
ConsumerStart(m, k) ==
    /\ Running
    /\ consumer[m][k].pc = "new"
    /\ consumer' = [consumer EXCEPT ![m][k] = [pc |-> "range", at |-> downlink[m]]]
    /\ UNCHANGED <<proc, registered, reg, ttn, pub, downlink, stream, received, tx, closer>>

(* A downlink is taken: a LoRaWAN one is converted, any other is logged;   *)
(* the nil of a failed ParseDataRate, and that of a missing gateway        *)
(* configuration, is dereferenced.                                         *)
ConsumerTake(m, k) ==
    LET a == consumer[m][k].at
        buf == stream[m][a].buf IN
    /\ Running
    /\ consumer[m][k].pc = "range"
    /\ buf # <<>>
    /\ stream' = [stream EXCEPT ![m][a].buf = Tail(@)]
    /\ consumer' = IF Head(buf) = "lora" THEN [consumer EXCEPT ![m][k].pc = "push"]
                                         ELSE consumer
    /\ proc' = IF Head(buf) = "bad" THEN "nilPanic" ELSE proc
    /\ UNCHANGED <<registered, reg, ttn, pub, downlink, received, tx, closer>>

ConsumerEnds(m, k) ==
    /\ Running
    /\ consumer[m][k].pc = "range"
    /\ stream[m][consumer[m][k].at] = [st |-> "ended", buf |-> <<>>]
    /\ consumer' = [consumer EXCEPT ![m][k].pc = "done"]
    /\ UNCHANGED <<proc, registered, reg, ttn, pub, downlink, stream, received, tx, closer>>

(* b.txPacketChan <- txPacket meets the loop of main.go. *)
ConsumerPush(m, k) ==
    /\ Running
    /\ consumer[m][k].pc = "push"
    /\ tx = Idle
    /\ tx' = [pc |-> "get", mac |-> m]
    /\ consumer' = [consumer EXCEPT ![m][k].pc = "range"]
    /\ UNCHANGED <<proc, registered, reg, ttn, pub, downlink, stream, received, closer>>

(* Send looks the gateway up in the registry, which no callback may have   *)
(* locked, and sends or returns an error that is logged.                   *)
TxSend ==
    /\ Running
    /\ tx # Idle
    /\ reg = Idle
    /\ tx' = Idle
    /\ UNCHANGED <<proc, registered, reg, ttn, pub, down, closer>>

-----------------------------------------------------------------------------
(* The end of run: gwBackend.Close, then Close of this backend *)

Signal ==
    /\ Running
    /\ closer.pc = "no"
    /\ closer' = [closer EXCEPT !.pc = "lock"]
    /\ UNCHANGED <<proc, registered, reg, ttn, pub, down, tx>>

CloseLock ==
    /\ Running
    /\ closer.pc = "lock"
    /\ closer' = [pc |-> "next", todo |-> {m \in MAC : gateways[m] # 0}, mac |-> {}]
    /\ UNCHANGED <<proc, registered, reg, ttn, pub, down, tx>>

CloseNext(m) ==
    /\ Running
    /\ closer.pc = "next"
    /\ m \in closer.todo
    /\ closer' = [pc |-> "uplink", todo |-> closer.todo \ {m}, mac |-> {m}]
    /\ UNCHANGED <<proc, registered, reg, ttn, pub, down, tx>>

(* gtw.Close: uplink, downlink, status, client; the client's Close stops   *)
(* what is left of the three goroutines.                                   *)
CloseUplink(m) ==
    /\ Running
    /\ closer.pc = "uplink" /\ m \in closer.mac
    /\ open' = open \ {<<m, gateways[m], "uplink">>}
    /\ closer' = [closer EXCEPT !.pc = "downlink"]
    /\ UNCHANGED <<proc, registered, reg, gatewayConf, gateways, created, conf, lookup, pub, down, tx>>

CloseDown(m) ==
    /\ Running
    /\ closer.pc = "downlink" /\ m \in closer.mac
    /\ CloseDownlink(m)
    /\ closer' = [closer EXCEPT !.pc = "status"]
    /\ UNCHANGED <<proc, registered, reg, ttn, pub, downlink, consumer, received, tx>>

CloseStatus(m) ==
    /\ Running
    /\ closer.pc = "status" /\ m \in closer.mac
    /\ open' = open \ {<<m, gateways[m], "status">>}
    /\ closer' = [closer EXCEPT !.pc = "next"]
    /\ UNCHANGED <<proc, registered, reg, gatewayConf, gateways, created, conf, lookup, pub, down, tx>>

(* routerConn.Close and the return of main. *)
Exit ==
    /\ Running
    /\ closer.pc = "next" /\ closer.todo = {}
    /\ closer' = [closer EXCEPT !.pc = "done"]
    /\ proc' = "exited"
    /\ UNCHANGED <<registered, reg, ttn, pub, down, tx>>

(* The process has ended. *)
Ended == ~Running /\ UNCHANGED vars

-----------------------------------------------------------------------------
Publishing(p) == PublishGet(p) \/ PublishNew(p) \/ PublishSend(p) \/ PublishPanics(p)
Callback == SubscribeGet \/ SubscribeNew \/ SubscribeOpen
              \/ UnsubscribeGet \/ UnsubscribeClose
Consuming(m, k) == ConsumerStart(m, k) \/ ConsumerTake(m, k) \/ ConsumerEnds(m, k)
                     \/ ConsumerPush(m, k)
Closing == CloseLock \/ Exit
             \/ \E m \in MAC : CloseNext(m) \/ CloseUplink(m) \/ CloseDown(m) \/ CloseStatus(m)

Next ==
    \/ \E p \in Publisher :
         Publishing(p) \/ \E m \in MAC, k \in Kind : Publish(p, m, k)
    \/ \E m \in MAC : Subscribe(m) \/ Unsubscribe(m) \/ Found(m)
    \/ \E m \in MAC, k \in Subs :
         Consuming(m, k) \/ StreamEnds(m, k) \/ \E d \in Downlink : Recv(m, k, d)
    \/ Callback \/ TxSend \/ Signal \/ Closing \/ Ended

Spec == Init /\ [][Next]_vars

(* Fairness: goroutines run, a stream that is being closed ends, and the   *)
(* downlink loop is served; nothing forces a datagram, a downlink, an      *)
(* answer of the account server or a signal to come.  Strong fairness for  *)
(* a goroutine at the channel and for Send at the registry's lock: both    *)
(* queue their waiters.                                                    *)
FairSpec ==
    /\ Spec
    /\ WF_vars(Callback) /\ WF_vars(Closing) /\ SF_vars(TxSend)
    /\ \A p \in Publisher : WF_vars(Publishing(p))
    /\ \A m \in MAC, k \in Subs :
         WF_vars(StreamEnds(m, k)) /\ SF_vars(Consuming(m, k))

-----------------------------------------------------------------------------
(* However uplinks, statuses and subscriptions of a gateway race through   *)
(* getGtw and newGtw, it gets one gtw, everyone uses that one, and every   *)
(* open stream belongs to it, so Close reaches them all.                   *)
OneGtwPerGateway ==
    /\ \A m \in MAC : created[m] <= 1
    /\ \A s \in open : s[2] = gateways[s[1]]
    /\ \A p \in Publisher : pub[p].pc = "send" => pub[p].gtw = gateways[pub[p].mac]

(* The answer of the account server never replaces what AddGateway was     *)
(* told: its key and token stay in use for the life of the gtw.            *)
StaticConfStays == \A m \in gatewayConf : conf[m] # "account"

(* The type of the variables, one gtw per gateway, and its configuration. *)
TTNInv == TypeOK /\ OneGtwPerGateway /\ StaticConfStays

(* As long as the backend is in service, however often gateways expire and *)
(* come back, no uplink or status meets a closed stream: only Close makes  *)
(* a publishing goroutine panic.                                           *)
PublishSafeInService == proc = "sendPanic" => ~Unlocked

(* Between two callbacks, and until the shutdown, exactly the gateways of  *)
(* the registry have an open downlink stream, and it is the latest one.    *)
SubscriptionFollowsRegistry ==
    Unlocked /\ reg = Idle =>
        \A m \in MAC, k \in Subs :
            stream[m][k].st = "open" <=> m \in registered /\ k = downlink[m]

(* The latest stream of a gateway always has a reader: the goroutine of    *)
(* its subscription has not started or reads this stream, even when the    *)
(* gateway came and went before the goroutines of older ones started.      *)
CurrentStreamServed ==
    \A m \in MAC : downlink[m] # 0 =>
        \/ consumer[m][downlink[m]].pc = "new"
        \/ consumer[m][downlink[m]].at = downlink[m]

(* The registry's lock is never held for ever: not by a subscription that  *)
(* waits for the lock of the backend, and not by an unsubscription while   *)
(* the goroutine it stops is waiting for Send, which waits for that lock.  *)
CallbackReturns == (reg # Idle) ~> (reg = Idle \/ ~Running)

(* A downlink that was taken from a stream reaches Send. *)
DownlinkReachesSend ==
    \A m \in MAC, k \in Subs :
        (consumer[m][k].pc = "push") ~> (consumer[m][k].pc # "push" \/ ~Running)

(* Nobody waits for ever: neither the callback of the registry nor the     *)
(* goroutine that has a downlink for Send.                                 *)
CallbacksAndDownlinksProceed == CallbackReturns /\ DownlinkReachesSend
=============================================================================
