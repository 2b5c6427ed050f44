--------------------------- MODULE GatewayBackend ---------------------------
(***************************************************************************)
(* The UDP backend of gateway/backend.go: type Backend.  A reader loop     *)
(* starts one goroutine per datagram; the goroutine registers the gateway, *)
(* hands an acknowledgement to the unbuffered udpSendChan, and forwards    *)
(* status and uplinks to the bridge.  A sender loop takes packets from     *)
(* udpSendChan and writes them to the socket.  The downlink loop of        *)
(* cmd/lora-gateway-bridge/main.go calls Send, and a signal calls Close.   *)
(*                                                                         *)
(* The registry is Registry, the specification that Gateways implements:   *)
(* set, get and the deletions of cleanup are single steps here.            *)
(*                                                                         *)
(* The network may lose, duplicate and reorder datagrams: each goroutine   *)
(* is given any datagram from any address.                                 *)
(***************************************************************************)
EXTENDS Registry, Sequences

CONSTANTS
    Goroutine,   \* handler goroutines, one per datagram received
    Datagram,    \* the datagrams gateways may send
    BadVersion,  \* a protocol version protocolSupported refuses
    Tx,          \* the downlink loop, as the source of a packet
    MaxSend      \* bound on the downlinks handed to Send

(***************************************************************************)
(* A datagram, as far as the handlers tell datagrams apart: the type byte, *)
(* version and token of its header, its MAC, whether UnmarshalBinary of    *)
(* that type accepts it, whether it carries a stat, and its rxpk list.  An *)
(* rxpk either cannot be converted or has a CRC status (1 OK, -1 bad, 0    *)
(* none).                                                                  *)
(***************************************************************************)
RXPK == [converts : BOOLEAN, stat : {-1, 0, 1}]
DatagramType ==
    [type : {"PUSH_DATA", "PULL_DATA", "TX_ACK", "other"},
     version : Version \cup {BadVersion}, token : Nat, mac : MAC,
     unmarshals : BOOLEAN, stat : BOOLEAN, rxpk : Seq(RXPK)]

ASSUME DatagramAssumption == Datagram \subseteq DatagramType
ASSUME NameAssumption == BadVersion \notin Version /\ Tx \notin Goroutine
ASSUME BoundAssumption == MaxSend \in Nat

(* A packet on its way to a gateway; src is the goroutine that sent it. *)
UDPPacket == [type : {"PUSH_ACK", "PULL_ACK", "PULL_RESP"}, version : Version,
              token : Nat, mac : MAC, addr : Addr, src : Goroutine \cup {Tx}]

VARIABLES
    proc,        \* the process: running, or ended by log.Fatal, a panic or main
    closed,      \* Backend.closed
    chanClosed,  \* udpSendChan is closed
    connClosed,  \* the UDP socket is closed
    wg,          \* Backend.wg
    reader,      \* where the reader loop is
    sender,      \* where the sender loop is, and the packet it writes
    hnd,         \* the handler goroutines
    tx,          \* the downlink loop: idle, or blocked handing over a packet
    sends,       \* downlinks handed to Send so far
    closer,      \* where Close is
    announced,   \* history: the routes set has stored
    acks,        \* history: the acknowledgements written for each datagram
    resps,       \* history: the PULL_RESPs written
    stats,       \* history: the IPs in the status forwarded for each datagram
    uplinks      \* history: the rxpks forwarded for each datagram

loopvars == <<reader, sender, wg>>
closevars == <<closed, chanClosed, connClosed, closer>>
history == <<announced, acks, resps, stats, uplinks>>
vars == <<route, subscribed, proc, loopvars, hnd, tx, sends, closevars, history>>

NotStarted == [pc |-> "new"]
Handlers == [pc : {"start", "set", "ack", "stat", "rx", "done"},
             addr : Addr, data : Datagram]
Waiting == [pc |-> "recv"]

(***************************************************************************)
(* A loop ends with an error of a socket that was open ("err") or because  *)
(* the socket or the channel was closed under it ("ended"); "fatal" is the *)
(* loop that has read closed as FALSE and is about to call log.Fatal.      *)
(***************************************************************************)
LoopEnd == {"err", "ended", "fatal", "done"}

(* Every variable stays in its type. *)
TypeOK ==
    /\ RTypeOK
    /\ proc \in {"running", "fatal", "panic", "exited"}
    /\ closed \in BOOLEAN /\ chanClosed \in BOOLEAN /\ connClosed \in BOOLEAN
    /\ wg \in 0 .. 2
    /\ reader \in {"new", "read"} \cup LoopEnd
    /\ sender \in [pc : {"new", "recv"} \cup LoopEnd]
                  \cup [pc : {"write"}, pkt : UDPPacket]
    /\ hnd \in [Goroutine -> Handlers \cup {NotStarted}]
    /\ tx \in [pc : {"idle"}] \cup [pc : {"send"}, pkt : UDPPacket]
    /\ sends \in 0 .. MaxSend
    /\ closer \in {"no", "chan", "conn", "wait", "done", "failed"}
    /\ announced \in SUBSET (MAC \X Addr \X Version)
    /\ acks \in [Goroutine -> Seq(UDPPacket)]
    /\ resps \in SUBSET UDPPacket
    /\ stats \in [Goroutine -> Seq(Addr)]
    /\ uplinks \in [Goroutine -> Seq(RXPK)]

(* NewBackend: the socket is bound and the loops are about to start. *)
Init ==
    /\ RInit
    /\ proc = "running"
    /\ closed = FALSE /\ chanClosed = FALSE /\ connClosed = FALSE
    /\ wg = 0
    /\ reader = "new"
    /\ sender = [pc |-> "new"]
    /\ hnd = [h \in Goroutine |-> NotStarted]
    /\ tx = [pc |-> "idle"]
    /\ sends = 0
    /\ closer = "no"
    /\ announced = {}
    /\ acks = [h \in Goroutine |-> <<>>]
    /\ resps = {}
    /\ stats = [h \in Goroutine |-> <<>>]
    /\ uplinks = [h \in Goroutine |-> <<>>]

(* Nothing happens any more once the process has ended. *)
Running == proc = "running"

-----------------------------------------------------------------------------
(* The loops started by NewBackend.  wg.Add(1) is their own first step.    *)

ReaderStart ==
    /\ Running
    /\ reader = "new"
    /\ reader' = "read"
    /\ wg' = wg + 1
    /\ UNCHANGED <<rvars, proc, sender, hnd, tx, sends, closevars, history>>

(* readPackets: ReadFromUDP returns a datagram, a goroutine gets it. *)
Receive(h, a, d) ==
    /\ Running
    /\ reader = "read"
    /\ ~connClosed
    /\ hnd[h] = NotStarted
    /\ hnd' = [hnd EXCEPT ![h] = [pc |-> "start", addr |-> a, data |-> d]]
    /\ UNCHANGED <<rvars, proc, loopvars, tx, sends, closevars, history>>

(* The error of a system call: the socket's own, or that it is closed. *)
IOError == IF connClosed THEN "ended" ELSE "err"

(* Mutant: wg.Done is called on the error and again at the end. *)
ReadErrorDone ==
    /\ Running
    /\ reader = "read"
    /\ reader' = IOError
    /\ wg' = wg - 1
    /\ UNCHANGED <<rvars, proc, sender, hnd, tx, sends, closevars, history>>

(* ReadFromUDP fails: always on a closed socket, now and then on an open one. *)
ReadError ==
    /\ Running
    /\ reader = "read"
    /\ reader' = IOError
    /\ UNCHANGED <<rvars, proc, sender, wg, hnd, tx, sends, closevars, history>>

(***************************************************************************)
(* if !b.closed { log.Fatal(err) }; b.wg.Done(): the values the test may   *)
(* read.  Close sets the flag before it closes channel and socket, so a    *)
(* loop that ends on either sees it; one with an error of its own reads    *)
(* the flag in a race with Close and may miss it.                          *)
(***************************************************************************)
ClosedAsRead(pc) == IF pc = "ended" THEN {closed} ELSE {closed, FALSE}

(* Mutant: the reader ends without wg.Done. *)
ReaderEndNotDone ==
    /\ Running
    /\ reader \in {"err", "ended"}
    /\ \E c \in ClosedAsRead(reader) : reader' = IF c THEN "done" ELSE "fatal"
    /\ UNCHANGED <<rvars, proc, sender, wg, hnd, tx, sends, closevars, history>>

ReaderEnd ==
    /\ Running
    /\ reader \in {"err", "ended"}
    /\ \E c \in ClosedAsRead(reader) :
          /\ reader' = IF c THEN "done" ELSE "fatal"
          /\ wg' = IF c THEN wg - 1 ELSE wg
    /\ UNCHANGED <<rvars, proc, sender, hnd, tx, sends, closevars, history>>

SenderStart ==
    /\ Running
    /\ sender.pc = "new"
    /\ sender' = Waiting
    /\ wg' = wg + 1
    /\ UNCHANGED <<rvars, proc, reader, hnd, tx, sends, closevars, history>>

(* sendPackets: WriteToUDP succeeds, and the loop goes back to the channel. *)
SenderWrite ==
    /\ Running
    /\ sender.pc = "write"
    /\ ~connClosed
    /\ sender' = Waiting
    /\ LET p == sender.pkt IN
       \/ /\ p.type = "PULL_RESP"
          /\ resps' = resps \cup {p}
          /\ UNCHANGED acks
       \/ /\ p.type # "PULL_RESP"
          /\ acks' = [acks EXCEPT ![p.src] = Append(@, p)]
          /\ UNCHANGED resps
    /\ UNCHANGED <<rvars, proc, reader, wg, hnd, tx, sends, closevars,
                   announced, stats, uplinks>>

(* WriteToUDP fails: the loop returns the error. *)
WriteError ==
    /\ Running
    /\ sender.pc = "write"
    /\ sender' = [pc |-> IOError]
    /\ UNCHANGED <<rvars, proc, reader, wg, hnd, tx, sends, closevars, history>>

(* The range over udpSendChan ends because the channel is closed. *)
SenderDrained ==
    /\ Running
    /\ sender = Waiting
    /\ chanClosed
    /\ sender' = [pc |-> "ended"]
    /\ UNCHANGED <<rvars, proc, reader, wg, hnd, tx, sends, closevars, history>>

SenderEnd ==
    /\ Running
    /\ sender.pc \in {"err", "ended"}
    /\ \E c \in ClosedAsRead(sender.pc) :
          /\ sender' = [pc |-> IF c THEN "done" ELSE "fatal"]
          /\ wg' = IF c THEN wg - 1 ELSE wg
    /\ UNCHANGED <<rvars, proc, reader, hnd, tx, sends, closevars, history>>

(* log.Fatal ends the process, whatever Close has done since the test. *)
Fatal ==
    /\ Running
    /\ reader = "fatal" \/ sender.pc = "fatal"
    /\ proc' = "fatal"
    /\ UNCHANGED <<rvars, loopvars, hnd, tx, sends, closevars, history>>

-----------------------------------------------------------------------------
(* b.udpSendChan <- p: the channel is unbuffered, so the packet is taken   *)
(* by the sender loop in the same step.                                    *)
HandOver(p) ==
    /\ ~chanClosed
    /\ sender = Waiting
    /\ sender' = [pc |-> "write", pkt |-> p]

(* A send on a closed channel panics, also one that was blocked before.    *)
SendOnClosed ==
    /\ chanClosed
    /\ proc' = "panic"
    /\ UNCHANGED <<rvars, loopvars, hnd, tx, sends, closevars, history>>

-----------------------------------------------------------------------------
(* The handler goroutines.                                                 *)

Goto(h, pc) == hnd' = [hnd EXCEPT ![h].pc = pc]

Unmarshalled(d) == d.version \in Version /\ d.unmarshals

(* handlePacket: GetPacketType, the dispatch on the type and the           *)
(* UnmarshalBinary of the type.  A TX_ACK is only logged; every error is   *)
(* logged and ends the goroutine.                                          *)
HandlePacket(h) ==
    /\ Running
    /\ hnd[h].pc = "start"
    /\ LET d == hnd[h].data IN
       \/ Unmarshalled(d) /\ d.type = "PUSH_DATA" /\ Goto(h, "ack")
       \/ Unmarshalled(d) /\ d.type = "PULL_DATA" /\ Goto(h, "set")
       \/ /\ ~(Unmarshalled(d) /\ d.type \in {"PUSH_DATA", "PULL_DATA"})
          /\ Goto(h, "done")
    /\ UNCHANGED <<rvars, proc, loopvars, tx, sends, closevars, history>>

(* handlePullData: gateways.set with the source address of the datagram.   *)
(* The entry's age is any, the lock may have been waited for.              *)
PullDataSet(h) ==
    /\ Running
    /\ hnd[h].pc = "set"
    /\ LET d == hnd[h].data
           a == hnd[h].addr
       IN  /\ \E age \in Ages :
                Put(d.mac, [addr |-> a, version |-> d.version, age |-> age])
           /\ announced' = announced \cup {<<d.mac, a, d.version>>}
    /\ Goto(h, "ack")
    /\ UNCHANGED <<proc, loopvars, tx, sends, closevars, acks, resps, stats, uplinks>>

(* Mutant: the error of set is ignored. *)
PullDataRefusedAcked(h) ==
    /\ Running
    /\ hnd[h].pc = "set"
    /\ hnd[h].data.mac \notin Keys(route)
    /\ Goto(h, "ack")
    /\ UNCHANGED <<rvars, proc, loopvars, tx, sends, closevars, history>>

(* gateways.set returns the error of onNew: no acknowledgement. *)
PullDataRefused(h) ==
    /\ Running
    /\ hnd[h].pc = "set"
    /\ hnd[h].data.mac \notin Keys(route)
    /\ Goto(h, "done")
    /\ UNCHANGED <<rvars, proc, loopvars, tx, sends, closevars, history>>

(* The PUSH_ACK or PULL_ACK that answers a datagram. *)
Ack(h) ==
    LET d == hnd[h].data IN
    [type |-> IF d.type = "PULL_DATA" THEN "PULL_ACK" ELSE "PUSH_ACK",
     version |-> d.version, token |-> d.token, mac |-> d.mac,
     addr |-> hnd[h].addr, src |-> h]

SendAck(h) ==
    /\ Running
    /\ hnd[h].pc = "ack"
    /\ HandOver(Ack(h))
    /\ LET d == hnd[h].data IN
       Goto(h, IF d.type = "PULL_DATA" THEN "done"
               ELSE IF d.stat THEN "stat" ELSE "rx")
    /\ UNCHANGED <<rvars, proc, reader, wg, tx, sends, closevars, history>>

AckPanics(h) ==
    /\ Running
    /\ hnd[h].pc = "ack"
    /\ SendOnClosed

(* handleStat: the status names the datagram's source.  The registered     *)
(* address is only added if get fails and still returns an address, which  *)
(* never happens, so the call of get leaves no trace.  The bridge's status *)
(* loop always takes the packet.                                           *)
HandleStat(h) ==
    /\ Running
    /\ hnd[h].pc = "stat"
    /\ stats' = [stats EXCEPT ![h] = Append(@, hnd[h].addr)]
    /\ Goto(h, "rx")
    /\ UNCHANGED <<rvars, proc, loopvars, tx, sends, closevars,
                   announced, acks, resps, uplinks>>

(* handlePushData's loop and handleRXPacket.  The loop index is the number *)
(* of rxpks forwarded; an rxpk that cannot be converted or whose CRC is    *)
(* not OK ends the handler.                                                *)
Forwardable(p) == p.converts /\ p.stat = 1

(* Mutants: the CRC is not checked; a bad rxpk is tried again and again. *)
HandleRXPacketNoCRC(h) ==
    LET rxpk == hnd[h].data.rxpk
        i == Len(uplinks[h]) + 1
    IN  /\ Running
        /\ hnd[h].pc = "rx"
        /\ i \in DOMAIN rxpk
        /\ \/ /\ rxpk[i].converts
              /\ uplinks' = [uplinks EXCEPT ![h] = Append(@, rxpk[i])]
              /\ UNCHANGED hnd
           \/ /\ ~rxpk[i].converts
              /\ Goto(h, "done")
              /\ UNCHANGED uplinks
        /\ UNCHANGED <<rvars, proc, loopvars, tx, sends, closevars,
                       announced, acks, resps, stats>>

HandleRXPacketRetry(h) ==
    LET rxpk == hnd[h].data.rxpk
        i == Len(uplinks[h]) + 1
    IN  /\ Running
        /\ hnd[h].pc = "rx"
        /\ i \in DOMAIN rxpk
        /\ Forwardable(rxpk[i])
        /\ uplinks' = [uplinks EXCEPT ![h] = Append(@, rxpk[i])]
        /\ UNCHANGED <<rvars, proc, loopvars, hnd, tx, sends, closevars,
                       announced, acks, resps, stats>>

HandleRXPacket(h) ==
    LET rxpk == hnd[h].data.rxpk
        i == Len(uplinks[h]) + 1
    IN  /\ Running
        /\ hnd[h].pc = "rx"
        /\ i \in DOMAIN rxpk
        /\ \/ /\ Forwardable(rxpk[i])
              /\ uplinks' = [uplinks EXCEPT ![h] = Append(@, rxpk[i])]
              /\ UNCHANGED hnd
           \/ /\ ~Forwardable(rxpk[i])
              /\ Goto(h, "done")
              /\ UNCHANGED uplinks
        /\ UNCHANGED <<rvars, proc, loopvars, tx, sends, closevars,
                       announced, acks, resps, stats>>

PushDataEnd(h) ==
    /\ Running
    /\ hnd[h].pc = "rx"
    /\ Len(uplinks[h]) = Len(hnd[h].data.rxpk)
    /\ Goto(h, "done")
    /\ UNCHANGED <<rvars, proc, loopvars, tx, sends, closevars, history>>

-----------------------------------------------------------------------------
(* Mutant: every PULL_RESP speaks the same version. *)
PullRespFixedVersion(m) ==
    [type |-> "PULL_RESP", version |-> CHOOSE v \in Version : TRUE, token |-> 0,
     mac |-> m, addr |-> route[m].addr, src |-> Tx]

(* Send, called by the bridge's downlink loop for one packet at a time: an *)
(* unknown gateway is an error, a known one gets a PULL_RESP at the        *)
(* address and in the version of its last PULL_DATA, with token zero.      *)
(* newTXPKFromTXPacket and the JSON of its result never fail.              *)
PullResp(m) ==
    [type |-> "PULL_RESP", version |-> route[m].version, token |-> 0,
     mac |-> m, addr |-> route[m].addr, src |-> Tx]

Send(m) ==
    /\ Running
    /\ tx.pc = "idle"
    /\ sends < MaxSend
    /\ sends' = sends + 1
    /\ \/ m \notin Keys(route) /\ UNCHANGED tx
       \/ m \in Keys(route) /\ tx' = [pc |-> "send", pkt |-> PullResp(m)]
    /\ UNCHANGED <<rvars, proc, loopvars, hnd, closevars, history>>

SendPullResp ==
    /\ Running
    /\ tx.pc = "send"
    /\ HandOver(tx.pkt)
    /\ tx' = [pc |-> "idle"]
    /\ UNCHANGED <<rvars, proc, reader, wg, hnd, sends, closevars, history>>

SendPanics ==
    /\ Running
    /\ tx.pc = "send"
    /\ SendOnClosed

-----------------------------------------------------------------------------
(* Close, after SIGINT or SIGTERM. *)

(* Mutant: Close does not set closed. *)
CloseFlagMissing ==
    /\ Running
    /\ closer = "no"
    /\ closer' = "chan"
    /\ UNCHANGED <<rvars, proc, loopvars, hnd, tx, sends, closed, chanClosed, connClosed, history>>

CloseFlag ==
    /\ Running
    /\ closer = "no"
    /\ closed' = TRUE
    /\ closer' = "chan"
    /\ UNCHANGED <<rvars, proc, loopvars, hnd, tx, sends, chanClosed, connClosed, history>>

CloseChan ==
    /\ Running
    /\ closer = "chan"
    /\ chanClosed' = TRUE
    /\ closer' = "conn"
    /\ UNCHANGED <<rvars, proc, loopvars, hnd, tx, sends, closed, connClosed, history>>

(* An error of conn.Close makes Close return at once. *)
CloseConn ==
    /\ Running
    /\ closer = "conn"
    /\ connClosed' = TRUE
    /\ closer' \in {"wait", "failed"}
    /\ UNCHANGED <<rvars, proc, loopvars, hnd, tx, sends, closed, chanClosed, history>>

(* Mutant: Close does not wait for wg. *)
CloseWaitNot ==
    /\ Running
    /\ closer = "wait"
    /\ closer' = "done"
    /\ UNCHANGED <<rvars, proc, loopvars, hnd, tx, sends, closed, chanClosed, connClosed, history>>

CloseWait ==
    /\ Running
    /\ closer = "wait"
    /\ wg = 0
    /\ closer' = "done"
    /\ UNCHANGED <<rvars, proc, loopvars, hnd, tx, sends, closed, chanClosed, connClosed, history>>

(* run returns once its deferred Close has, with or without an error, and  *)
(* the process ends with whatever its goroutines still had to do.          *)
Exit ==
    /\ Running
    /\ closer \in {"done", "failed"}
    /\ proc' = "exited"
    /\ UNCHANGED <<rvars, loopvars, hnd, tx, sends, closevars, history>>

-----------------------------------------------------------------------------
(* The clock and the cleanup goroutine, which runs on after Close. *)
Cleanup ==
    /\ Running
    /\ Tick \/ \E m \in MAC : Forget(m)
    /\ UNCHANGED <<proc, loopvars, hnd, tx, sends, closevars, history>>

Handle(h) ==
    \/ HandlePacket(h) \/ PullDataSet(h) \/ PullDataRefused(h)
    \/ SendAck(h) \/ AckPanics(h)
    \/ HandleStat(h) \/ HandleRXPacket(h) \/ PushDataEnd(h)

Next ==
    \/ ReaderStart \/ ReadError \/ ReaderEnd
    \/ \E h \in Goroutine, a \in Addr, d \in Datagram : Receive(h, a, d)
    \/ SenderStart \/ SenderWrite \/ WriteError \/ SenderDrained \/ SenderEnd
    \/ Fatal
    \/ \E h \in Goroutine : Handle(h)
    \/ \E m \in MAC : Send(m)
    \/ SendPullResp \/ SendPanics
    \/ CloseFlag \/ CloseChan \/ CloseConn \/ CloseWait \/ Exit
    \/ Cleanup

Spec == Init /\ [][Next]_vars

(***************************************************************************)
(* Fairness: a goroutine that can run is run.  A read of an open socket    *)
(* may block for ever and a signal may never come, so Receive, an error on *)
(* an open socket and CloseFlag are not fair.                              *)
(***************************************************************************)
Fairness ==
    /\ WF_vars(ReaderStart)
    /\ WF_vars(connClosed /\ ReadError)
    /\ WF_vars(ReaderEnd)
    /\ WF_vars(SenderStart)
    /\ WF_vars(SenderWrite \/ WriteError)
    /\ WF_vars(SenderDrained)
    /\ WF_vars(SenderEnd)
    /\ WF_vars(Fatal)
    /\ \A h \in Goroutine : WF_vars(Handle(h))
    /\ WF_vars(SendPullResp \/ SendPanics)
    /\ WF_vars(CloseChan \/ CloseConn \/ CloseWait)

FairSpec == Spec /\ Fairness

-----------------------------------------------------------------------------
(***************************************************************************)
(* Every PULL_RESP written goes to an address and speaks a version that    *)
(* the gateway itself announced with a PULL_DATA that set accepted, even   *)
(* if the gateway moved, expired or came back since Send looked it up.     *)
(***************************************************************************)
PullRespToAnnounced ==
    \A p \in resps : <<p.mac, p.addr, p.version>> \in announced

(***************************************************************************)
(* A datagram is acknowledged at most once, with the acknowledgement that  *)
(* belongs to it (type, version and token, to its source), and a PULL_ACK  *)
(* is only written once the route it confirms has been stored: the comment *)
(* on PullACKPacket has it confirm that the network route is open.         *)
(***************************************************************************)
AcksAnswerRequests ==
    \A h \in Goroutine : acks[h] # <<>> =>
        LET d == hnd[h].data IN
        /\ acks[h] = <<Ack(h)>>
        /\ Unmarshalled(d)
        /\ d.type = "PULL_DATA" => <<d.mac, hnd[h].addr, d.version>> \in announced

(***************************************************************************)
(* The uplinks forwarded from a datagram are its rxpks in order up to the  *)
(* first one that does not convert or has no good CRC, and all of those    *)
(* (and its status, once) by the time the handler is done; nothing is      *)
(* forwarded before the PUSH_ACK has been handed over, and nothing at all  *)
(* from a datagram of another kind.                                        *)
(***************************************************************************)
AckLeft(h) ==
    \/ acks[h] # <<>>
    \/ sender = [pc |-> "write", pkt |-> Ack(h)]
    \/ sender.pc \in LoopEnd

GoodPrefix(h) ==
    LET n == Len(uplinks[h])
        d == hnd[h].data
    IN  /\ n > 0 \/ stats[h] # <<>> => d.type = "PUSH_DATA" /\ AckLeft(h)
        /\ n > 0 => n <= Len(d.rxpk)
        /\ \A i \in 1 .. n : uplinks[h][i] = d.rxpk[i] /\ Forwardable(d.rxpk[i])
        /\ hnd[h].pc = "done" /\ d.type = "PUSH_DATA" /\ Unmarshalled(d) =>
             /\ n < Len(d.rxpk) => ~Forwardable(d.rxpk[n + 1])
             /\ stats[h] = IF d.stat THEN <<hnd[h].addr>> ELSE <<>>

UplinksAreGoodPrefix == \A h \in Goroutine : GoodPrefix(h)

(***************************************************************************)
(* Close returns without error only when neither loop is running: each has *)
(* ended, or has not come to its wg.Add(1) yet.                            *)
(***************************************************************************)
CloseWaitsForLoops ==
    [][closer' = "done" /\ closer # "done"
         => reader \in {"new", "done"} /\ sender.pc \in {"new", "done"}]_vars

(***************************************************************************)
(* Shutting down never ends in log.Fatal: a loop that ends because Close   *)
(* closed its socket or its channel finds the flag set.  (A loop with an   *)
(* error of its own may still call log.Fatal while Close is running, even  *)
(* after Close has closed both.)                                           *)
(***************************************************************************)
ShutdownIsNotFatal ==
    [][/\ reader = "ended" => reader' \in {"ended", "done"}
       /\ sender.pc = "ended" => sender'.pc \in {"ended", "done"}]_vars

(***************************************************************************)
(* The inductive invariant behind the safety properties: what the flags of *)
(* Close say about each other, whom wg counts, where the packets on their  *)
(* way to the socket come from, and how far each handler has come.         *)
(***************************************************************************)
CloseInv ==
    /\ closed <=> closer # "no"
    /\ chanClosed <=> closer \notin {"no", "chan"}
    /\ connClosed <=> closer \notin {"no", "chan", "conn"}
    /\ reader = "ended" => connClosed
    /\ sender.pc = "ended" => chanClosed

Busy(isBusy) == IF isBusy THEN 1 ELSE 0

WgInv ==
    Running => wg = Busy(reader \notin {"new", "done"})
                    + Busy(sender.pc \notin {"new", "done"})

Announced(p) == <<p.mac, p.addr, p.version>> \in announced

RouteInv ==
    \A m \in Keys(route) : <<m, route[m].addr, route[m].version>> \in announced

Answerable(h) ==
    /\ Unmarshalled(hnd[h].data)
    /\ hnd[h].data.type \in {"PUSH_DATA", "PULL_DATA"}
    /\ hnd[h].data.type = "PULL_DATA" => Announced(Ack(h))

PacketInv ==
    /\ tx.pc = "send" => tx.pkt.type = "PULL_RESP" /\ Announced(tx.pkt)
    /\ sender.pc = "write" =>
          LET p == sender.pkt IN
          \/ p.type = "PULL_RESP" /\ Announced(p)
          \/ /\ p.src \in Goroutine
             /\ hnd[p.src].pc \in {"stat", "rx", "done"}
             /\ Answerable(p.src)
             /\ p = Ack(p.src)
             /\ acks[p.src] = <<>>
    /\ PullRespToAnnounced

HandlerOK(h) ==
    /\ hnd[h].pc = "set" => /\ Unmarshalled(hnd[h].data)
                            /\ hnd[h].data.type = "PULL_DATA"
    /\ hnd[h].pc = "ack" => Answerable(h)
    /\ hnd[h].pc \in {"stat", "rx"} => /\ Answerable(h)
                                       /\ hnd[h].data.type = "PUSH_DATA"
    /\ hnd[h].pc = "stat" => hnd[h].data.stat
    /\ acks[h] # <<>> => /\ hnd[h].pc \in {"stat", "rx", "done"}
                         /\ Answerable(h)
                         /\ acks[h] = <<Ack(h)>>

HandlerInv == \A h \in Goroutine : HandlerOK(h)

ForwardOK(h) ==
    /\ hnd[h].pc \notin {"rx", "done"} => uplinks[h] = <<>> /\ stats[h] = <<>>
    /\ hnd[h].pc \in {"stat", "rx"} => AckLeft(h)
    /\ hnd[h].pc = "rx" => stats[h] = IF hnd[h].data.stat THEN <<hnd[h].addr>> ELSE <<>>
    /\ GoodPrefix(h)

ForwardInv == \A h \in Goroutine : ForwardOK(h)

IInv == TypeOK /\ CloseInv /\ WgInv /\ RouteInv /\ PacketInv /\ HandlerInv /\ ForwardInv

(***************************************************************************)
(* Every datagram is handled to the end and every PUSH_DATA that could be  *)
(* decoded is acknowledged (structs.go: "to acknowledge immediately all    *)
(* the PUSH_DATA packets received"), unless the process dies or the        *)
(* backend is closed first.                                                *)
(***************************************************************************)
DatagramsHandled ==
    \A h \in Goroutine :
        /\ hnd[h].pc # "new" ~> (hnd[h].pc = "done" \/ proc # "running")
        /\ (hnd[h].pc # "new" /\ hnd[h].data.type = "PUSH_DATA" /\ Unmarshalled(hnd[h].data))
             ~> (acks[h] # <<>> \/ closed \/ proc # "running")

(***************************************************************************)
(* Send and Close return, unless the process dies: neither waits for ever  *)
(* for the sender loop.                                                    *)
(***************************************************************************)
SendAndCloseReturn ==
    /\ tx.pc = "send" ~> (tx.pc = "idle" \/ proc # "running")
    /\ closer # "no" ~> (closer \in {"done", "failed"} \/ proc # "running")

(***************************************************************************)
(* Close lets the last packets be handled, as its log line has it          *)
(* ("gateway: handling last packets"): closing does not end the process in *)
(* a panic of a goroutine that still has a packet for udpSendChan.         *)
(***************************************************************************)
NoSendOnClosedChannel == proc # "panic"
=============================================================================
