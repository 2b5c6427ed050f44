# A TLA+ model of the packet-forwarder bridge

The bridge connects LoRa gateways that run Semtech's UDP packet forwarder to a
network server.  It receives PUSH_DATA and PULL_DATA datagrams, acknowledges
them, forwards uplinks and status to the server and sends downlinks back to the
gateways as PULL_RESP datagrams.  This directory holds TLA+ specifications of
the bridge, the TLC configurations that check them on small instances, and
TLAPS proofs of the safety properties and refinements for all instances.

## 1. Inventory

| component | state | operations | interacts with |
|---|---|---|---|
| registry, `gateway/backend.go` type `gateways` | map MAC → (address, version, last seen), RWMutex | `get`, `set` (calls `onNew` for a new MAC), `cleanup` every minute (calls `onDelete` for an expired MAC) | handlers and `Send` call it from many goroutines; the callbacks subscribe and unsubscribe the gateway at the network server while the lock is held |
| UDP backend, `gateway/backend.go` type `Backend` | socket, `closed` flag, three unbuffered channels, WaitGroup | reader loop, sender loop, one handler goroutine per datagram, `Send`, `Close` | registry; wire codec; the bridge's loops drain `rxChan` and `statsChan` and feed `Send` |
| wire codec, `gateway/structs.go` | none | `MarshalBinary`, `UnmarshalBinary` of six packet types, `GetPacketType` | used by every handler and by `Send` |
| conversions, rest of `gateway/backend.go`, `structs.go`, `ip.go` | none | RXPK, TXPK, Stat, DatR and time formats | used by handlers and `Send` |
| TTN backend, `backend/thethingsnetwork` | map of gateways with client, configuration, streams and a moving-average rate; RWMutex | `SubscribeGatewayTX`, `UnSubscribeGatewayTX`, `PublishGatewayRX`, `PublishGatewayStats`, look-up at the account server, rate ticker, `Close` | the registry's callbacks, the bridge's loops, the vendored router streams |
| router streams, vendored `ttn/api/router/client_streams.go` | buffered channel, WaitGroup, `closing` flag, session | goroutine that opens sessions again and again, `Send`, `Channel`, `Close` | opened and closed by the TTN backend; gRPC |
| MQTT backend, `backend/mqttpubsub` | set of subscribed MACs, RWMutex | subscribe, unsubscribe, publish, `onConnected`, message handler, `Close` | registry callbacks, vendored MQTT client; not wired into `main` in this commit |
| bridge, `cmd/lora-gateway-bridge/main.go` | none of its own | wires the two sides with three loops; `Close` on a signal | everything |

What is hard: callbacks under a lock; a goroutine per datagram, so that nothing
orders two datagrams of one gateway; unbuffered channels with a single reader;
early returns in the middle of a cleanup pass or of a PUSH_DATA; a shutdown
that closes channels and a socket under running goroutines; sessions that break
and are opened again while the stream is being closed; locks held while waiting
for a server; byte-level limits in the codec.  `PROJECT.json` lists these
hazards by source line, with the properties that would catch each of them going
wrong.

What makes the components correct:

* registry: the subscriptions follow the map whatever callbacks fail; only
  expired gateways are deleted, and all of them eventually; a `get` never sees
  half an update; every call returns;
* backend: downlinks go only to announced routes; each datagram is answered at
  most once and correctly; exactly the good prefix of an uplink list is
  forwarded; nobody blocks for ever; shutting down is orderly;
* router streams: never a message twice or out of order, over any number of
  sessions; a closed stream ends its session, its goroutine and its channel;
  `Close` returns;
* TTN backend: one set of streams per gateway; exactly the registered gateways
  have an open downlink stream, and somebody reads it; every uplink counts once
  for the limit, and a gateway that was limited is let in again; nobody waits
  for ever;
* MQTT backend: after any losses of the connection the broker has exactly the
  subscriptions of the map; calls return, or it is known why not;
* conversions: an answer is transmitted with the data rate and at the time of
  the receive window of its uplink;
* codec: what is marshalled is read back as the same packet, up to the
  documented token exception, however the JSON of its payload is written;
  dispatch and decoding agree; cut datagrams are refused.

## 2. Modules

| module | what it is |
|---|---|
| `GatewayTypes` | data of the registry: entries with an age, expiry, the clock's effect |
| `Registry` | abstract specification: route and subscription of a gateway change in one step |
| `Gateways` | the registry at the level of lock operations, callbacks and map updates; implements `Registry` |
| `GatewayBackend` | the UDP backend, composed with `Registry` in place of the registry it calls |
| `Wire` | the binary codec, and a network that damages a datagram |
| `LossyQueue` | abstract specification of a router stream: a bounded queue that may lose its oldest message or refuse a new one |
| `GatewayStream` | what the three router streams share: sessions, back-off, WaitGroup, `Close` |
| `UplinkStream`, `DownlinkStream` | the streams (the status stream is the code of the uplink stream); each EXTENDS `GatewayStream` and implements `LossyQueue` |
| `RateLimit` | the moving average of one gateway, its ticker and the limit |
| `TTNBackend` | the TTN backend between the registry's callbacks and the bridge's loops, with the shutdown |
| `MQTTBackend` | the MQTT backend with the goroutines of its vendored MQTT client, and the broker |
| `Conversions` | data rate and timestamp from a gateway to the router and back; EXTENDS `Wire`, which carries the uplink |
| `MCGateways`, `MCGatewayBackend`, `MCWire` | instances for TLC; the other modules take plain values in their `.cfg` |
| `Gateways_proofs`, `GatewayBackend_proofs`, `UplinkStream_proofs`, `DownlinkStream_proofs`, `RateLimit_proofs`, `TTNBackend_proofs`, `MQTTBackend_proofs` | theorems about the module of that name and their TLAPS proofs |
| `Wire_proofs` | the same for `Wire` and `Conversions` |

Composition: `GatewayBackend` EXTENDS `Registry`, so its handlers call the
abstract `Put` and `Forget`; that this is sound for the code is the refinement
`ImplementsRegistry` of `Gateways`.  In the same way `TTNBackend` calls what
`Registry` promises (the callbacks alternate for each gateway and run one at a
time, with `Send` shut out) and uses the streams as `UplinkStream` and
`DownlinkStream` describe them: a buffer that drops, a `Close` that returns, a
channel that is closed some time later, a panic on `Send` after `Close`.

### Gateways

The variable `gateways` is the map, `writer` and `readers` are the RWMutex,
`setting[s]` and `getting[r]` are the calls in progress, `cpc`, `todo` and
`visiting` are the program counter and the range loop of `cleanup`.
`subscribed` is the effect of the callbacks outside the registry: what `onNew`
did and `onDelete` has not undone.  `overdue` is a history variable used by one
property.  `set` is SetCall, SetLock, then OnNewOk or OnNewFail for a new MAC,
then SetStore.  `get` is GetCall, GetRLock, GetRead (the deferred RUnlock
included), GetReturn.  `cleanup` is CleanupLock, Visit for each key in any
order, OnDeleteOk and Delete or OnDeleteFail, and CleanupReturn; the loop in
NewBackend adds the sleep and WakeUp.

Time: the code stores the instant of the last PULL_DATA and compares the
difference with one minute.  The model stores the age of an entry in ticks and
stops counting above `CleanupAge`, because older entries are treated alike.
`SetCall` reads the clock before the lock is taken, as `handlePullData` does,
so an entry may be old, even expired, when it is stored.

### GatewayBackend

`reader`, `sender`, `hnd[h]`, `tx` and `closer` are the program counters of the
reader loop, the sender loop, the handler goroutines, the bridge's downlink
loop and `Close`.  A send on the unbuffered `udpSendChan` is one step of both
parties (HandOver); a send on the closed channel is a panic (AckPanics,
SendPanics).  `acks`, `resps`, `stats`, `uplinks` and `announced` record what
left the process; `uplinks[h]` also is the loop index of `handlePushData`.
Receive gives any goroutine any datagram from any address, which covers loss,
duplication and reordering.  A datagram is the record of what the handlers look
at: type byte, version, token, MAC, whether it decodes, whether it has a stat,
and per rxpk whether it converts and its CRC status.  `log.Fatal` and a panic
end the process, and so does the return of `run` after `Close` (Exit); no
action is enabled afterwards.

A loop that ends has an error of its own (`"err"`) or was ended by `Close`,
which closed the channel or the socket under it (`"ended"`).  The test of
`b.closed` (ReaderEnd, SenderEnd) and the `log.Fatal` it decides on (Fatal) are
two steps, so `Close` may finish between them.  `Backend.closed` is a plain
Boolean read by the loops while `Close` writes it.  The write is followed by
`close(udpSendChan)` and by the close of the socket, which synchronise: a loop
that ends on one of these sees the flag.  A loop with an error of its own does
not synchronise with `Close` and may read FALSE at any time (`ClosedAsRead`).

### Wire

Datagrams are sequences of bytes, payloads are values.  encoding/json is
external and given by three constants: `JSON`, the texts `json.Unmarshal`
accepts, `jsonUnmarshal`, the value of each (several texts may have one value,
as white space and unknown fields are dropped), and `jsonMarshal`, the one text
`json.Marshal` writes for a value, which is read as that value again.  A packet
is sent with any text of its payload, as a gateway may write it; the bridge's
own `MarshalBinary` writes the text of `jsonMarshal`.  `Unmarshals` is the
conjunction of the checks of `UnmarshalBinary`, `LengthOK` has one disjunct per
packet type.  The state machine sends one packet of the protocol; the network
cuts it at any length or overwrites a byte of its header.

### GatewayStream, UplinkStream, DownlinkStream

`loop` is the program counter of the stream's goroutine, `sess` the session at
the router, `setup` the counter of the WaitGroup, `closer` the call of `Close`.
Opening a session may succeed, fail or be answered with Canceled (Open,
Refused, Stopped).  Only a closed client gets Canceled, but it need not: the
vendored gRPC looks at the state of the connection before the context and
answers Unavailable while the connection is failing (clientconn.go:841,
stream.go:176), FailedPrecondition once it is closed (rpc_util.go:436), and may
even open a session on a transport that is ready, which the context then ends
at once.  All three steps are therefore possible after ClientClose, and the
goroutine tries again after a refusal.  BackOff is the `setup.Add(1)` before
the pause, a separate step from the `setup.Done` before it, because `Close` can
get in between.  A `Wait` that is woken looks at the counter again (CloseWakes)
and panics when it was raised: that is what `sync.WaitGroup` does.  In
`UplinkStream`, `hand` is the message of the blocking `ch <- msg`, `wire` the
one inside `client.Send`, `errg` the goroutine behind errCh.  Messages are
numbered, so that order and repetition show.  The length of the back-off and
the retry counter decide nothing and are left out.  `closing` and `s.cancel`
are plain fields that two goroutines use; their interleavings are those of the
steps that read and write them.

### RateLimit

`Tick` is four steps: wake up, atomic load, atomic add, the move of the average
under its mutex.  The average is a float in the code.  `rate` is an integer in
units of 1/`Scale` events per second that is less than one unit away from it: a
tick moves it with a weight between 0.079 and 0.08 (the code has
1 - exp(-1/12) = 0.07995...) and may round either way (`Moved`), and within a
unit of the limit the comparison may go either way (`MayPass`, `MayDrop`).  So
nothing that is shown depends on how the average is rounded.  The limit is
taken as the code takes it, per second (section 5).  `credit` and `burst` are
history variables.

### TTNBackend

`pub[p]` are the goroutines main.go starts for each uplink and status, `reg` is
the callback that runs under the registry's lock, `stream` and `consumer` are
the downlink streams of a gateway and the goroutines of its subscriptions by
number, `tx` is the downlink loop of main.go, `closer` the shutdown.  The mutex
of the backend is held over a wait by `Close` only (`Unlocked`), so every other
critical section is one step.  A downlink is a LoRaWAN one, another one, which
is logged, or one whose conversion dereferences a nil: that of a failed
`ParseDataRate` or of a missing gateway configuration.  `consumer[m][k].at` is
the stream the goroutine of subscription k has read from the field: it may be a
later one.  The panics are steps: `Send` on a closed channel, and the nil of
such a downlink.

### MQTTBackend

`outq`, `wire` and `back` are the client's queue of requests, the requests on
their way to the broker, and answers and messages on their way back.  The
goroutines of the client follow its vendored source: outgoing (Write), incoming
with the packet it has read (`Left`), and the loop `alllogic`, which completes
tokens (HandleAck) and queues messages (HandleMessage, Queue) for the router
(Dispatch), whose goroutine waits in `txPacketHandler` for the reader of
TXPacketChan (HandOver), and that one in `Send` for the registry's lock.  The
completion of a token and the return of the call that waits for it (CallReturn,
OnConnectedReturn) are two steps: the connection may be lost in between.

A connection that is lost (Lose) takes `wire`, the broker's subscriptions
(clean sessions), the answers that incoming has not read and the request that
is being written with it; `outq` survives.  `internalConnLost` then waits for
incoming and outgoing (`conn` is losing), and for ever (hung) if outgoing waits
at `pingResp`, which nobody reads any more; incoming waits for a loop to take
the packet it has read.  It does not wait for the loop: one that waits at the
full queue lives on beside that of the next connection, so `free` and `held`
count loops.  `Disconnect` during the wait is forgotten when it ends (closing),
and a reconnection may be past its last look at the status.

`caller` is the one call the registry makes at a time, `onConn[c]` the
onConnected goroutine of connection c.  The RWMutex needs no variable: the
caller is its only writer, and a waiting writer keeps new readers out.
`refused` and `lost` are history variables.  Publishing is left out: it holds
no lock and changes nothing that is modelled.

### Conversions

A text is what the bridge's expressions find in it.  Neither is anchored: `Rate`
has the numbers of SFxBWy and whether that is all there is to the text
(`exact`), or whether other text or leading zeros surround them.
`newDataRateFromDatR` takes the whole numbers; `ParseDataRate`, which gets what
the TTN backend has formatted, matches a spreading factor of LoRaWAN as a whole
and the first digits of a bandwidth, so that SF7BW1250 is read as SF7BW125.
`DatR`, `TXPK` and their JSON forms, `newDataRateFromDatR`,
`newDatRfromDataRate`, `convertRXPacket`, `ParseDataRate` and
`newTXPKFromTXPacket` are operators; the state machine applies them in the
order in which an uplink and its answer meet them, once `Wire` has brought a
PUSH_DATA that is accepted, damaged on the way or not.  `Wrap` stands for 2^32.

Definitions whose comment starts with "Mutant" are plausible faults of the
definition they precede.  No specification uses them; each shows that one
property would notice the fault.

## 3. Runs

| run | config | instance | result |
|---|---|---|---|
| `gateways` | `Gateways.cfg` | 2 MACs, 2 addresses, 2 setters, 1 getter, cleanup age 1; symmetry in MACs and setters | 571,005 states, passes |
| `gateways_live` | `GatewaysLive.cfg` | 1 setter, no symmetry | 13,655 states, passes |
| `backend` | `GatewayBackend.cfg` | 1 MAC, 2 addresses, 2 versions, 2 handlers, 12 kinds of datagram, 1 downlink | about 5.3 million states, passes |
| `backend_live` | `GatewayBackendLive.cfg` | 2 handlers, 2 kinds of datagram, no symmetry | 265,592 states, passes |
| `backend_panic` | `GatewayBackendPanic.cfg` | as `backend_live` | violation: see section 5 |
| `wire` | `Wire.cfg` | tokens around the byte boundary, 2 MACs, 3 JSON texts of 2 payloads, every cut; spreading factors and bandwidths in, near and beyond LoRaWAN, exact or not, 3 bit rates, junk, clock values around the wrap | 1,502,940 states, passes |
| `uplink` | `UplinkStream.cfg` | buffer of 2, 4 calls of Send, any number of sessions | 19,154 states, passes |
| `downlink` | `DownlinkStream.cfg` | buffer of 2, 4 messages, any number of sessions and calls of Close | 2,957 states, passes |
| `rate` | `RateLimit.cfg` | 2 publishers, limit 1, up to 6 uplinks per tick | 60,014 states, passes |
| `ttn` | `TTNBackend.cfg` | 1 gateway, configured or not, 1 publisher, 2 subscriptions, 2 downlinks | about 1.3 million states, passes |
| `ttn_live` | `TTNLive.cfg` | the same without the publisher | 155,532 states, passes |
| `mqtt` | `MQTTBackend.cfg` | 2 gateways, 2 connections, 2 calls, 4 downlinks, queue of 1, a broker that may refuse | 964,078 states, passes |

What they show (`UplinkInv`, `DownlinkInv`, `RateInv`, `TTNInv` and `MQTTInv`
are the type invariant of their module together with the safety properties that
relate its variables, as the bullets name them):

* `gateways`: `SubscribedIffRegistered`, `CallbacksAlternate` and
  `ImplementsRegistry` say that holding the lock across the callbacks is enough
  to keep map and subscriptions together.  `CompletePassForgetsOverdue` covers
  deletion during the range loop, `GetSeesWholeUpdates` the read lock.
* `gateways_live`: every `set` and `get` returns (`CallsReturn`), and an
  aborted pass only delays the deletion of an expired gateway
  (`SilentGatewayForgotten`).
* `backend`: `PullRespToAnnounced`, `AcksAnswerRequests` and
  `UplinksAreGoodPrefix` are the data path; `ShutdownIsNotFatal` and
  `CloseWaitsForLoops` the shutdown.  `ShutdownIsNotFatal` is about loops that
  `Close` has ended; one with an error of its own may call `log.Fatal` while
  `Close` runs.  `CloseWaitsForLoops` allows for a loop
  that has not started: `wg.Add(1)` is its own first step, so Close can
  overtake it.  `UplinksAreGoodPrefix` states what the code does with a bad
  rxpk: the rest of the datagram, already acknowledged, is dropped.
* `backend_live`: handlers, Send and Close do not wait for each other for ever.
* `wire`: `RoundTrip`, `OneReading`, `CutIsNoticed`, `AckRepeatsHeader`;
  `EchoKeepsDataRate` and `SaysWhenUnlessZero` over the four conversions
  between an uplink in an accepted datagram and its answer.  The first states
  exactly what the unanchored expressions make of a data rate, the second what
  a gateway is told at the counter value zero, too.
* `uplink`, `downlink`: `ImplementsQueue` is the refinement of `LossyQueue`.
  `UplinkInv` and `DownlinkInv` share `SetupCountsPending`, the WaitGroup, which
  would panic below zero; `AtMostOneLateSession` and `LateSessionIsLast`, which
  with `CloseEndsSession` say how much of a closed stream may survive (one
  session, opened after a back-off that `Close` did not see, and the last one);
  `FlagBeforeEnd`, the order of `Close`; and `InOrder`, messages delivered and
  under way in the order in which they were sent.  `ErrorsCollected` and
  `OpenSessionIsServed` (uplink) and `OpenSessionIsRead` (downlink) say that
  sessions leave no goroutine behind, nor goroutines a session.  `Close` of a
  downlink stream, which runs under the registry's lock, waits for one attempt
  at most (`CloseReturns`); goroutine and channel of a closed stream end
  (`ClosedStreamEnds`, `CanceledStreamEnds`) if gRPC does not refuse the
  attempts of its goroutine for ever, and, for an uplink stream, if it is not
  stuck in the hand-over of section 5.
* `rate`: `EveryEventCountedOnce` and `CounterIsBurst`, in `RateInv`, cover an
  Update between the two atomic operations of a Tick; `QuietGatewayReadmitted`
  says that the average comes down below the limit for good once a gateway is
  silent, although uplinks that were dropped have raised it.
* `ttn`: in `TTNInv`, `OneGtwPerGateway` covers the race from `getGtw` to
  `newGtw`, `StaticConfStays` the late answer of the account server;
  `PublishSafeInService` gateways that expire and come back while their uplinks
  are published; `SubscriptionFollowsRegistry` and `CurrentStreamServed` cover
  subscriptions that follow each other faster than their goroutines start.
* `ttn_live`: the two parts of `CallbacksAndDownlinksProceed` cover the circle
  of registry lock, downlink channel and `Send`.  It does not close because a
  stream drops downlinks instead of waiting for its reader.
* `mqtt`: `SubscriptionsRestored`, in `MQTTInv`, says what the read lock of
  onConnected is for.  `CallReturnsUnlessStuck` lists the ways a call may wait
  for ever (a request lost with its connection, a client that hangs after a
  loss, a client jammed by downlinks, and `Close`), all of which the run
  reaches, and says that there is no other: neither do the locks close a
  circle, nor is a request forgotten that was not yet written before a loss.

Bounds.  Two setters are needed for two PULL_DATA packets of one new gateway,
two MACs for an aborted pass that leaves another gateway behind, two addresses
for a route that changes; an age of 1 separates fresh, old and expired entries.
Two handlers meet in the sender loop and in the registry, and a third only
repeats a role; two versions and two addresses let a PULL_RESP go wrong.
`MaxSend` bounds the downlinks, and each model goroutine handles one datagram.
A buffer of 2 has an empty, a partly full and a full state, and 4 messages fill
it and overflow it; sessions are not bounded.  Six uplinks per tick are one more
than a limit of 1 per second allows.  Two subscriptions let a goroutine miss its
stream; a publisher and a callback race in `newGtw`.  The publisher shares only
the mutex and the gtw with the downlink side, so `ttn_live` leaves it out.  Two
connections let the onConnected of a lost one and the next overlap, and two
loops be at work; `Depth`, 100 in the code, is 1, and four downlinks fill
reader, handler, queue and loop.
The bandwidths 1250 and 5000000 start with one of LoRaWAN, 25 is none, and 17
ends with the digit of a spreading factor; `StartsWith` bounds the digits that
follow at six.
The cut and overwritten datagrams of `wire` are exhaustive for the packets of
the instance.  Deadlock is not checked in `backend` (the process may end, and
the finite supply of goroutines runs out) nor in `wire` (a datagram is damaged
once), the streams (a closed stream ends) and `mqtt` (a closed client ends); it
is checked in the `gateways`, `rate` and `ttn` runs.

Fairness.  A goroutine that can run is run (weak fairness per goroutine).
`sync.RWMutex` starves neither readers nor writers, so lock acquisition is
strongly fair.  The clock advances.  A callback returns, and `onDelete` does
not fail for ever: the bridge's own `onDelete` never fails.  In the streams an
attempt to open a session ends one way or the other, the router answers a
stream whose end was sent, and a canceled context ends a session (that
attempts are refused only for a while is a premise of the two properties that
need it, not an assumption of the specification); in `ttn_live`
goroutines waiting at a channel are served in turn, as the Go runtime queues
them (strong fairness); in `MQTTBackend` the broker answers and can be reached
again (a client that hangs is not helped by it: no step is possible).  Not
fair: sessions that break, connections that are lost, arrival
of datagrams, calls of `Send` and `set`, errors on an open socket, the signal
that calls Close.

## 4. Proofs

All theorems hold for every value of the constants, under the ASSUMEs of the
modules: a positive cleanup age, names of goroutines and special values that
differ, datagrams of the declared shape, 8-byte MACs, non-empty payload texts
of which `json.Marshal` writes one that is read as the same value,
buffers of at least one message, a positive limit and clock width.  The bounds
of the runs (`MaxSend`, `MaxSub`, `MaxConn` and the like) are constants, so the
theorems hold for any number of messages, subscriptions, connections and calls.

*Gateways_proofs.*  None of the safety properties is inductive: which goroutine
holds the lock, and how `subscribed` differs from the map while it does, is
missing.  The invariant `IInv` adds `LockInv` (program counters and lock agree),
`SubscriptionInv` (subscribed = map, plus the gateway between onNew and the
store, minus the one between onDelete and the delete) and `PassInv` (what is
overdue and still in the map is still to be visited).  From it follow
`TypeCorrect`, `SubscriptionsAgree`, `CallbacksAreAlternating`,
`PassesAreComplete`, `GetIsConsistent`, and, step by step, the refinement
`RegistryImplemented`.  Two action properties go further than the runs:
`LockGuardsMap` (map keys and subscriptions change under the write lock only,
on every path) and `SilentAreForgotten` (a gateway is removed only while it is
overdue, however long onDelete takes); both rest on `OnlyChanges`, which names
the four steps that change either.

*GatewayBackend_proofs.*  `IInv` adds `CloseInv` (the order of Close's steps,
and that a loop is `"ended"` only after the channel or the socket is closed),
`WgInv` (whom the WaitGroup counts), `RouteInv` (every registered route was
announced), `PacketInv` (every packet in flight is an announced PULL_RESP or
the first acknowledgement of a decoded datagram), `HandlerInv` and `ForwardInv`
(how far a handler has come and what it has forwarded).  From it follow
`TypeCorrect`, `DownlinksGoHome`, `AcksAreAnswers`, `UplinksAreForwarded`,
`CloseIsClean` (an action property: a loop ended by `Close` goes on to wg.Done
and nowhere else) and `CloseWaits`.  `BackendUsesRegistry` shows that the
backend's steps on the registry are steps of `Registry`; with
`RegistryImplemented` on the other side of the interface, whatever `Registry`
promises holds of the backend, and `RoutesAreSubscribed` takes its promise over
by composition, without looking at the backend again.  `PanicOnlyInShutdown`
bounds the finding of section 5: it takes a `Close` that has begun and a
goroutine with something left to hand over.

*Wire_proofs.*  `Layout` takes the binary form of a packet apart, by
`ConcatBytes` and the arithmetic of `Uint16RoundTrip` and `BytesRoundTrip`;
`WireInv` says that every datagram is a byte sequence and an intact one is the
form of the packet sent.  From these follow `RoundTrips`, `ReadingsAgree`,
`CutsAreNoticed` and `AcksRepeatHeaders`, for every token, MAC and payload.
`NothingIsIgnored` is the other direction: of any bytes that are accepted, the
packet is marshalled with the same header and MAC, byte by byte, and what is
marshalled is read as the same packet (`DecodedIsProper`, `DatagramReads`), but
for the two unused bytes of a PULL_RESP of version 1.  The text of the payload
need not come back, since `json.Marshal` writes its own.

The same module has the conversions.  `ConversionsUseWire` shows that they
leave the datagrams to `Wire`, so that its theorems hold of the composed
specification.  `CInv` says at every step which data rate the bridge has and
which timestamp goes with it: the one reported (`Heard`), and after the router
one that agrees with it as far as the property says (`Echoed`); the lemmas
`ReportIsHeard`, `RouterRoundTrip` and `GatewayRoundTrip` are the round trips
of the operators.  From these follow `DataRateIsKept` and `WindowIsTold`, for
any bit rates, clock values, windows and width of the clock.

*UplinkStream_proofs, DownlinkStream_proofs.*  `UplinkInv`, and `DownlinkInv`
with `CloseEndsSession`, are inductive as the runs check them:
`AtMostOneLateSession` needs `LateSessionIsLast`, `CloseEndsSession` needs
`FlagBeforeEnd` and `OpenSessionIsRead`, `ErrorsCollected` needs to know that
the channel is closed by `Close` only.  `InOrder` is kept because a message
that is lost is the oldest one under way (`LostIsOldest`, `LostIsInOrder`) and a
new one is appended (`RisingAppend`).  From it follow `UplinkCorrect`,
`DownlinkCorrect`, `ClosedSessionsEnd`, and step by step the refinements
`UplinkIsLossyQueue` and `DownlinkIsLossyQueue`: moving a message from the
buffer to the goroutine and to `client.Send` is a stuttering step
(`UnderwayMoves`).  `ChannelClosedForGood`, that a downlink channel is never
sent on nor closed again once it is closed, needs `ClosedInv`: closing the
channel is the last thing its goroutine does.

*RateLimit_proofs.*  `RateInv` is inductive (`EventsCounted`), whatever a tick
makes of the average.

*TTNBackend_proofs.*  `IInv` adds `GtwInv` (the gtw of a gateway is number one,
whoever sends has it), `ConfInv` (nobody asks the account server about a
configured gateway), `OpenInv` (until `Close` has the lock both streams of every
gtw are open), `RegInv` (a callback subscribes what is not registered and
unsubscribes what is), `StreamInv` (the open streams, also while a callback
runs) and `ServeInv` (a goroutine reads the stream of its own or of a later
subscription).  `NewGtwInv` is what the second look of `newGtw` under the lock
is good for.  From it follow `OneGtw`, `PublishingIsSafe`,
`SubscriptionsAreRegistered` and `LatestStreamHasReader`.

Four action properties say what stays for the life of the process: `GtwStays`
and `ConfStays` (a gtw and its configuration are never replaced; the second
needs `LookupInv`, that the account server is asked only about a gtw without
configuration), `StreamsOpenOnce` (a downlink stream is opened once, and ends;
it needs `FreshInv`, that the streams after the latest are unused) and
`ReadersReadOneStream` (a goroutine never moves to the stream of another
subscription).  `StreamMoves` lists what a step may do to one stream.

*MQTTBackend_proofs.*  What makes `SubscriptionsRestored` true is that a request
never outlives the lock under which it was made.  `IInv` says so: `LockInv` (a
call excludes every onConnected), `OwnedInv` (a request in a queue is the one
its goroutine waits for, and the map has not changed since), `OnceInv` (each
goroutine has one request, in one place), `AckInv` (what the broker answered
still holds when the answer arrives, if the connection is still up),
`GivenUpInv` (a connection that is given up has no subscriptions, and what
incoming has read of it is handled before the next one), and `RouteInv`,
`BrokerInv`, `RestoredInv` and `ReturnInv`, which relate handlers, broker and map
at every moment, with the gateway a call is about to add or remove.  `ReturnInv`
is needed because a token completes before its call returns: if the connection
is lost in between, the broker has forgotten what the call asked for, but the
onConnected of the next connection waits for the map and subscribes it then.
From it follows `SubscriptionsComeBack`.

What becomes of a lost request is `LostInv`: it is in no queue, its goroutine
waits, and while the call of the registry is the one that waits, nothing is
queued and the broker has no subscription.  `LostIsNowhere` and `LostStaysLost`
are therefore the exact price of the first exception in
`CallReturnsUnlessStuck`: a call whose request is lost keeps the map locked for
ever, and no reconnection restores a subscription.

Only model-checked: the liveness properties of all runs (liveness under
fairness is out of the prover's reach) and the violation of `backend_panic`.
The inductive invariants of the proofs modules were checked by TLC on the
instances of the runs before they were proved.

## 5. Findings

* `backend_panic`: `Close` closes `udpSendChan` (backend.go:150) while handlers
  and `Send` may still send on it; the process panics instead of "handling last
  packets" (backend.go:154).
  `Close` waits for the two loops only, so it may also return while datagrams
  are still being handled.

Behaviour of the code that the models have and the properties above make room
for; a reader should not take the properties for more than they say:

* an uplink or status stream can wait for ever for a sender that has ended
  (client_streams.go:233 and 110); it then notices neither the broken session
  nor `Close`, and later messages are dropped (`Stuck` in `ClosedStreamEnds`);
* after `client.Close` the goroutine of a stream goes on trying for ever when
  gRPC answers Unavailable or FailedPrecondition instead of Canceled, with a
  router that stays unreachable or a connection that is closed
  (client_streams.go:190-194, 306-315); the channel of a downlink stream then
  stays open (the premise of `ClosedStreamEnds` and `CanceledStreamEnds`);
* a stream closed during its back-off opens another session, for a gateway that
  was unsubscribed; it ends only with the client (`AtMostOneLateSession`);
* `Close` can panic in `sync.WaitGroup`, when an attempt fails and the next one
  is announced before the woken `Wait` has returned (`CloseWakes`);
* the rate limit is documented per minute (`SetRxRateLimit`, backend.go:182 of
  the TTN backend: "sets the rate limit (per minute)") and compared with an
  average per second (line 372), so sixty times as many uplinks pass as
  documented.  No property states a limit in either unit: a property in the
  unit of the code would hide the disagreement;
* a loop of the UDP backend with a real socket error may end the process with
  `log.Fatal` after `Close` has closed channel and socket (`ShutdownIsNotFatal`
  is about the other loops only);
* two goroutines may read one downlink stream, when subscriptions follow each
  other faster than goroutines start (`CurrentStreamServed`);
* a downlink without gateway configuration, or with a data rate that
  `ParseDataRate` refuses, ends the process (TTN backend.go:287-301);
* a data rate with more digits than any of LoRaWAN's is answered with its first
  ones, SF7BW1250 with SF7BW125 (`EchoKeepsDataRate`);
* a publication during the shutdown panics on a closed channel
  (`PublishSafeInService` ends where `Close` begins);
* an MQTT subscription whose connection is lost before the answer waits for
  ever, with the mutex that onConnected needs to restore all of them; the same
  happens when more downlinks arrive while a call waits than
  `MessageChannelDepth` and the client's goroutines hold, because the client
  handles answers and messages in one loop and their reader waits for the
  registry's lock (`Jammed`), and when the client hangs after a loss in
  `workers.Wait` (`Hung`): all are exceptions that `CallReturnsUnlessStuck`
  lists;
* an MQTT client that is closed while it waits for its workers reconnects;
* a refused MQTT subscription is recorded as a success (`SubscriptionsRestored`);
* a downlink due at counter value zero carries no time (`SaysWhenUnlessZero`).

Read in the code but not stated as a property: the registered address is never
added to a status, because the condition at backend.go:333 asks for an error
and an address at once.

## 6. Not modelled, and the plan

Modelled: the registry, the UDP backend, the wire codec, the TTN backend, the
router streams, the MQTT backend, data rates and timestamps of the conversions,
and the parts of `main.go` that connect them.

Left out: flag parsing, logging and start-up (`NewBackend` before its
goroutines, `AddGateway`, the setters, `getID`), which run once and
sequentially; conversions that copy a field, and the merge of account settings
into a status, which selects fields; the two time formats and base64;
encoding/json; gRPC beyond its answers to an attempt and the end of a session;
of the MQTT client the publications, the stores and the levels of service above
0, which the backend does not use; the network server; the narrowing of power,
size and frequency deviation of a downlink, and its polarisation; generated
code (`packettype_string.go`).  The conversion of a frequency from MHz to Hz
truncates a float; it is exact for the bands of LoRaWAN and is not modelled.
The program is written in Go; the JavaScript under `docs/` belongs to the theme
of the documentation and has no part in it.

Theorems for later: that the registry calls of `TTNBackend` and `MQTTBackend`
are steps of `Registry`.  Their callers are modelled with the calls in the
order in which the registry makes them, so the mapping needs a history of the
routes, which these modules do not have.
