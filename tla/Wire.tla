-------------------------------- MODULE Wire --------------------------------
(***************************************************************************)
(* The binary form of the packet-forwarder protocol, gateway/structs.go:   *)
(* MarshalBinary and UnmarshalBinary of the six packet types, and          *)
(* GetPacketType.  A datagram is a sequence of bytes, a payload a value.   *)
(* encoding/json is external: json.Unmarshal accepts exactly the byte      *)
(* strings in JSON, of which several may have one value (white space and   *)
(* unknown fields are dropped), and of what json.Marshal writes it makes   *)
(* the same value again.                                                   *)
(*                                                                         *)
(* The state machine sends one packet over a network that may damage it    *)
(* and decodes what arrives, the way handlePacket does.                    *)
(***************************************************************************)
EXTENDS Integers, Sequences

CONSTANTS
    JSON,      \* the byte strings that are JSON of the payload's type
    Payload,   \* the payloads, as Go values
    NoPayload, \* the absent payload of a packet without one
    jsonUnmarshal, jsonMarshal,   \* the value of a text, the text of a value
    EUI64,     \* the gateway MACs that occur, as sequences of 8 bytes
    Token,     \* the tokens that occur
    DamageTo   \* the byte values a damaged byte may take

Byte == 0 .. 255
UInt16 == 0 .. 65535

ASSUME JSONAssumption == \A j \in JSON : j \in Seq(Byte) /\ Len(j) >= 1
ASSUME CodecAssumption ==
    /\ NoPayload \notin Payload
    /\ jsonUnmarshal \in [JSON -> Payload]
    /\ jsonMarshal \in [Payload -> JSON]
    /\ \A v \in Payload : jsonUnmarshal[jsonMarshal[v]] = v
ASSUME EUI64Assumption == \A e \in EUI64 : e \in Seq(Byte) /\ Len(e) = 8
ASSUME TokenAssumption == Token \subseteq UInt16 /\ DamageTo \subseteq Byte

PushData == 0
PushACK == 1
PullData == 2
PullResp == 3
PullACK == 4
TXACK == 5
PacketType == 0 .. 5

ProtocolVersion1 == 1
ProtocolVersion2 == 2
protocolSupported(v) == v \in {ProtocolVersion1, ProtocolVersion2}

(* Which types carry a MAC and which a payload. *)
HasMAC(type) == type \in {PushData, PullData, TXACK}
HasPayload(type) == type \in {PushData, PullResp, TXACK}

(* binary.LittleEndian.PutUint16 and Uint16 *)
PutUint16(n) == <<n % 256, n \div 256>>
Uint16(lo, hi) == lo + 256 * hi

-----------------------------------------------------------------------------
(* A packet; an absent MAC is the empty sequence. *)
Packet(type, version, token, mac, payload) ==
    [type |-> type, version |-> version, token |-> token, mac |-> mac,
     payload |-> payload]

(* MarshalBinary.  A PULL_RESP of version 1 leaves the token bytes at zero. *)
MarshalledToken(p) ==
    IF p.type = PullResp /\ p.version = ProtocolVersion1 THEN 0 ELSE p.token

Header(p) ==
    LET token == PutUint16(MarshalledToken(p))
    IN  <<p.version, token[1], token[2], p.type>>

Datagram(p, text) == Header(p) \o p.mac \o text

MarshalBinary(p) ==
    Datagram(p, IF p.payload = NoPayload THEN <<>> ELSE jsonMarshal[p.payload])

-----------------------------------------------------------------------------
(* Mutant: a TXACK may lack a byte of its MAC. *)
LengthOKShort(type, n) ==
    \/ type = PushData /\ n >= 13
    \/ type = PullResp /\ n >= 5
    \/ type = TXACK /\ n >= 11
    \/ type = PullData /\ n = 12
    \/ type \in {PushACK, PullACK} /\ n = 4

(* The length UnmarshalBinary of each type asks for. *)
LengthOK(type, n) ==
    \/ type = PushData /\ n >= 13
    \/ type = PullResp /\ n >= 5
    \/ type = TXACK /\ n >= 12
    \/ type = PullData /\ n = 12
    \/ type \in {PushACK, PullACK} /\ n = 4

(* Mutant: the payload starts at the last byte of the MAC. *)
RestOffByOne(type, data) == SubSeq(data, IF HasMAC(type) THEN 12 ELSE 5, Len(data))

(* The bytes after the header and the MAC. *)
Rest(type, data) == SubSeq(data, IF HasMAC(type) THEN 13 ELSE 5, Len(data))

(* The payload of a TXACK is optional; the other payloads must parse. *)
PayloadOK(type, data) ==
    \/ ~HasPayload(type)
    \/ type = TXACK /\ Rest(type, data) = <<>>
    \/ Rest(type, data) \in JSON

(* Mutant: the type byte is not compared. *)
UnmarshalsAnyType(type, data) ==
    /\ LengthOK(type, Len(data))
    /\ protocolSupported(data[1])
    /\ PayloadOK(type, data)

(* UnmarshalBinary of the type accepts the datagram. *)
Unmarshals(type, data) ==
    /\ LengthOK(type, Len(data))
    /\ data[4] = type
    /\ protocolSupported(data[1])
    /\ PayloadOK(type, data)

(* What it decodes the datagram to. *)
UnmarshalBinary(type, data) ==
    Packet(type, data[1], Uint16(data[2], data[3]),
           IF HasMAC(type) THEN SubSeq(data, 5, 12) ELSE <<>>,
           IF HasPayload(type) /\ Rest(type, data) # <<>>
           THEN jsonUnmarshal[Rest(type, data)] ELSE NoPayload)

(* GetPacketType: the type byte, whatever it is, or -1 for an error. *)
GetPacketType(data) ==
    IF Len(data) >= 4 /\ protocolSupported(data[1]) THEN data[4] ELSE -1

(* Mutant: the acknowledgements are swapped. *)
AckForSwapped(data) ==
    LET type == GetPacketType(data)
        p == UnmarshalBinary(type, data)
    IN  MarshalBinary(Packet(IF type = PushData THEN PullACK ELSE PushACK,
                             p.version, p.token, <<>>, NoPayload))

(* The bytes handlePushData and handlePullData answer a datagram with. *)
AckFor(data) ==
    LET type == GetPacketType(data)
        p == UnmarshalBinary(type, data)
    IN  MarshalBinary(Packet(IF type = PushData THEN PushACK ELSE PullACK,
                             p.version, p.token, <<>>, NoPayload))

-----------------------------------------------------------------------------
VARIABLES
    sent,    \* the packet
    whole,   \* the datagram it was sent as
    data     \* the datagram as the network left it

vars == <<sent, whole, data>>

Packets ==
    {Packet(type, v, t, m, j) :
        type \in PacketType, v \in {ProtocolVersion1, ProtocolVersion2}, t \in Token,
        m \in EUI64 \cup {<<>>}, j \in Payload \cup {NoPayload}}

(* The packets the protocol has: see the fields of the packet structs. *)
Proper(p) ==
    /\ HasMAC(p.type) <=> p.mac # <<>>
    /\ HasPayload(p.type) \/ p.payload = NoPayload
    /\ p.type \in {PushData, PullResp} => p.payload # NoPayload

(* A gateway may write a payload as any of its texts, the bridge writes    *)
(* the text of json.Marshal.                                               *)
Written(payload) ==
    IF payload = NoPayload THEN {<<>>} ELSE {j \in JSON : jsonUnmarshal[j] = payload}

Init ==
    /\ sent \in {p \in Packets : Proper(p)}
    /\ whole \in {Datagram(sent, text) : text \in Written(sent.payload)}
    /\ data = whole

(* The datagram is cut short, or a byte of its header is overwritten. *)
Truncate(n) ==
    /\ data = whole
    /\ data' = SubSeq(data, 1, n)
    /\ UNCHANGED <<sent, whole>>

Overwrite(i, b) ==
    /\ data = whole
    /\ data' = [data EXCEPT ![i] = b]
    /\ UNCHANGED <<sent, whole>>

Next ==
    \/ \E n \in 0 .. Len(data) - 1 : Truncate(n)
    \/ \E i \in 1 .. 4, b \in DamageTo : Overwrite(i, b)

Spec == Init /\ [][Next]_vars

-----------------------------------------------------------------------------
(***************************************************************************)
(* Unmarshalling a datagram that arrives as it was sent, whichever text    *)
(* of the payload is in it, gives the packet back, except                  *)
(* that a PULL_RESP of version 1 loses its token (structs_test.go, and the *)
(* comment in PullRespPacket.MarshalBinary: these two bytes are unused).   *)
(***************************************************************************)
RoundTrip ==
    data = whole =>
        /\ Unmarshals(sent.type, data)
        /\ UnmarshalBinary(sent.type, data) = [sent EXCEPT !.token = MarshalledToken(sent)]

(***************************************************************************)
(* No datagram, damaged or not, is accepted by the UnmarshalBinary of any  *)
(* type but the one GetPacketType dispatches on, and none that is accepted *)
(* is refused by GetPacketType.                                            *)
(***************************************************************************)
OneReading ==
    \A type \in PacketType : Unmarshals(type, data) => GetPacketType(data) = type

(***************************************************************************)
(* A datagram cut anywhere is refused, with two exceptions: the payload of *)
(* a TXACK is optional, and a payload may be cut down to a shorter text    *)
(* that is JSON by itself (trailing white space is lost).                  *)
(***************************************************************************)
CutIsNoticed ==
    (Len(data) < Len(whole) /\ Unmarshals(sent.type, data)) =>
        \/ sent.type = TXACK /\ Len(data) = 12
        \/ HasPayload(sent.type) /\ Rest(sent.type, data) \in JSON

(***************************************************************************)
(* The acknowledgement of an accepted PUSH_DATA or PULL_DATA is accepted   *)
(* by the gateway as an acknowledgement of that kind and repeats the       *)
(* version and the token bytes that arrived.                               *)
(***************************************************************************)
AckRepeatsHeader ==
    \A type \in {PushData, PullData} :
        Unmarshals(type, data) =>
            LET ack == AckFor(data)
                kind == IF type = PushData THEN PushACK ELSE PullACK
            IN  /\ Unmarshals(kind, ack)
                /\ \A other \in PacketType \ {kind} : ~Unmarshals(other, ack)
                /\ \A i \in 1 .. 3 : ack[i] = data[i]
=============================================================================
