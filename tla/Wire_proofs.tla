---------------------------- MODULE Wire_proofs -----------------------------
(* Proofs about Wire, for any payloads, MACs and tokens, and about the     *)
(* conversions of what it carries, for any clock values, receive windows   *)
(* and bit rates.                                                          *)
EXTENDS Conversions, SequenceTheorems, TLAPS

USE DEF PushData, PushACK, PullData, PullResp, PullACK, TXACK, PacketType,
        ProtocolVersion1, ProtocolVersion2, protocolSupported, HasMAC, HasPayload

(* The numbers of sixteen bits. *)
LEMMA SixteenBits ==
    ASSUME NEW n
    PROVE  n \in UInt16 <=> n \in Int /\ 0 <= n /\ n <= 65535
<1>. DEFINE max == 65535
<1>1. UInt16 = 0 .. max BY DEF UInt16
<1>2. max \in Int OBVIOUS
<1>. HIDE DEF max
<1>3. n \in UInt16 <=> n \in Int /\ 0 <= n /\ n <= max BY ONLY <1>1, <1>2
<1>. QED BY <1>3 DEF max

(* Sixteen bits survive little-endian encoding. *)
LEMMA Uint16RoundTrip ==
    ASSUME NEW n \in UInt16
    PROVE  /\ n % 256 \in Byte
           /\ n \div 256 \in Byte
           /\ Uint16(n % 256, n \div 256) = n
<1>1. n \in Int /\ 0 <= n /\ n <= 65535 BY SixteenBits
<1>2. /\ n = 256 * (n \div 256) + (n % 256)
      /\ n % 256 \in 0 .. 255 /\ n \div 256 \in Int
    BY ONLY <1>1
<1>3. PICK q \in Int, r \in 0 .. 255 : q = n \div 256 /\ r = n % 256 BY ONLY <1>2
<1>4. n = 256 * q + r BY ONLY <1>2, <1>3
<1>5. 0 <= q /\ q <= 255 /\ r + 256 * q = n BY ONLY <1>1, <1>4
<1>6. q \in Byte /\ r \in Byte BY ONLY <1>5 DEF Byte
<1>. QED BY ONLY <1>3, <1>5, <1>6 DEF Uint16

(* Two bytes survive little-endian decoding. *)
LEMMA BytesRoundTrip ==
    ASSUME NEW lo \in Byte, NEW hi \in Byte
    PROVE  /\ Uint16(lo, hi) \in UInt16
           /\ PutUint16(Uint16(lo, hi)) = <<lo, hi>>
<1>1. (lo + 256 * hi) % 256 = lo /\ (lo + 256 * hi) \div 256 = hi
    <2>. DEFINE n == lo + 256 * hi
    <2>1. n \in Nat /\ n = lo + 256 * hi BY DEF Byte
    <2>. HIDE DEF n
    <2>2. /\ n = 256 * (n \div 256) + (n % 256)
          /\ n % 256 \in 0 .. 255 /\ n \div 256 \in Int
        BY <2>1
    <2>3. PICK q \in Int, r \in 0 .. 255 : q = n \div 256 /\ r = n % 256 BY <2>2
    <2>4. lo + 256 * hi = 256 * q + r BY <2>1, <2>2, <2>3
    <2>5. q = hi /\ r = lo BY <2>4 DEF Byte
    <2>. QED BY <2>3, <2>5 DEF n
<1>2. PutUint16(Uint16(lo, hi)) = <<lo, hi>>
    BY <1>1 DEF Uint16, PutUint16
<1>3. Uint16(lo, hi) \in UInt16
    <2>1. lo \in Int /\ hi \in Int /\ 0 <= lo /\ lo <= 255 /\ 0 <= hi /\ hi <= 255
        BY ONLY lo \in Byte, hi \in Byte DEF Byte
    <2>2. lo + 256 * hi \in Int /\ 0 <= lo + 256 * hi /\ lo + 256 * hi <= 65535
        BY ONLY <2>1
    <2>. QED BY ONLY <2>2, SixteenBits DEF Uint16
<1>. QED BY <1>2, <1>3

(* The four bytes of a header. *)
LEMMA HeaderBytes ==
    ASSUME NEW p
    PROVE  Header(p) = <<p.version, MarshalledToken(p) % 256,
                         MarshalledToken(p) \div 256, p.type>>
BY DEF Header, PutUint16

(* Four bytes x, then s, then t. *)
Parts(u, x, s, t) ==
    /\ u \in Seq(Byte)
    /\ Len(u) = 4 + Len(s) + Len(t)
    /\ u[1] = x[1] /\ u[2] = x[2] /\ u[3] = x[3] /\ u[4] = x[4]
    /\ SubSeq(u, 5, 4 + Len(s)) = s
    /\ SubSeq(u, 5 + Len(s), Len(u)) = t

(* Three sequences in a row can be taken apart again. *)
LEMMA ConcatBytes ==
    ASSUME NEW x \in Seq(Byte), NEW s \in Seq(Byte), NEW t \in Seq(Byte), Len(x) = 4
    PROVE  Parts(x \o s \o t, x, s, t)
<1>. SUFFICES ASSUME NEW u, u = x \o s \o t
              PROVE  Parts(u, x, s, t)
    OBVIOUS
<1>. DEFINE y == x \o s
<1>1. /\ y \in Seq(Byte) /\ Len(y) = 4 + Len(s)
      /\ \A i \in 1 .. 4 + Len(s) : y[i] = IF i <= 4 THEN x[i] ELSE s[i - 4]
    <2>1. /\ x \o s \in Seq(Byte)
          /\ Len(x \o s) = Len(x) + Len(s)
          /\ \A i \in 1 .. Len(x) + Len(s) :
                (x \o s)[i] = IF i <= Len(x) THEN x[i] ELSE s[i - Len(x)]
        BY ConcatProperties, Zenon
    <2>. HIDE DEF y
    <2>2. y = x \o s BY DEF y
    <2>. QED BY <2>1, <2>2
<1>. HIDE DEF y
<1>2. /\ u = y \o t
      /\ u \in Seq(Byte) /\ Len(u) = 4 + Len(s) + Len(t)
      /\ \A i \in 1 .. Len(y) + Len(t) : u[i] = IF i <= Len(y) THEN y[i] ELSE t[i - Len(y)]
    <2>1. u = y \o t BY DEF y
    <2>2. /\ y \o t \in Seq(Byte)
          /\ Len(y \o t) = Len(y) + Len(t)
          /\ \A i \in 1 .. Len(y) + Len(t) :
                (y \o t)[i] = IF i <= Len(y) THEN y[i] ELSE t[i - Len(y)]
        BY <1>1, ConcatProperties, Zenon
    <2>. QED BY <1>1, <2>1, <2>2
<1>3. Len(s) \in Nat /\ Len(t) \in Nat BY LenProperties
<1>4. u[1] = x[1] /\ u[2] = x[2] /\ u[3] = x[3] /\ u[4] = x[4] BY <1>1, <1>2, <1>3
<1>5. SubSeq(u, 5, 4 + Len(s)) = s
    <2>1. /\ SubSeq(u, 5, 4 + Len(s)) \in Seq(Byte)
          /\ Len(SubSeq(u, 5, 4 + Len(s))) = Len(s)
          /\ \A i \in 1 .. Len(s) : SubSeq(u, 5, 4 + Len(s))[i] = u[i + 4]
        BY <1>2, <1>3
    <2>2. \A i \in 1 .. Len(s) : u[i + 4] = s[i]
        BY <1>1, <1>2, <1>3
    <2>3. PICK w \in Seq(Byte) : w = SubSeq(u, 5, 4 + Len(s)) BY <2>1
    <2>4. Len(w) = Len(s) /\ \A i \in 1 .. Len(w) : w[i] = s[i] BY <2>1, <2>2, <2>3
    <2>. QED BY <2>3, <2>4, SeqEqual
<1>6. SubSeq(u, 5 + Len(s), Len(u)) = t
    <2>1. /\ SubSeq(u, 5 + Len(s), Len(u)) \in Seq(Byte)
          /\ Len(SubSeq(u, 5 + Len(s), Len(u))) = Len(t)
          /\ \A i \in 1 .. Len(t) : SubSeq(u, 5 + Len(s), Len(u))[i] = u[i + Len(y)]
        BY <1>1, <1>2, <1>3
    <2>2. \A i \in 1 .. Len(t) : u[i + Len(y)] = t[i]
        BY <1>1, <1>2, <1>3
    <2>. QED BY <2>1, <2>2, SeqEqual
<1>. QED BY <1>2, <1>4, <1>5, <1>6 DEF Parts

-----------------------------------------------------------------------------
(* The invariant: the packet is one of the protocol's, the datagram sent   *)
(* is a binary form of it, and what arrives is still made of bytes.        *)
WireInv ==
    /\ sent \in {p \in Packets : Proper(p)}
    /\ data \in Seq(Byte)
    /\ whole \in {Datagram(sent, text) : text \in Written(sent.payload)}

(* What the fields of a packet hold. *)
Fields(p) ==
    /\ p = Packet(p.type, p.version, p.token, p.mac, p.payload)
    /\ p.type \in PacketType
    /\ p.version \in {1, 2}
    /\ p.token \in UInt16
    /\ p.mac \in Seq(Byte)
    /\ IF HasMAC(p.type) THEN Len(p.mac) = 8 ELSE p.mac = <<>>
    /\ p.payload \in Payload \cup {NoPayload}

(* The packets that occur are of that kind. *)
LEMMA PacketFields ==
    ASSUME NEW p \in Packets, Proper(p)
    PROVE  Fields(p)
<1>1. PICK type \in PacketType, v \in {1, 2}, t \in Token, m \in EUI64 \cup {<<>>},
           j \in Payload \cup {NoPayload} : p = Packet(type, v, t, m, j)
    BY DEF Packets
<1>2. /\ p.type = type /\ p.version = v /\ p.token = t /\ p.mac = m /\ p.payload = j
    BY <1>1 DEF Packet
<1>3. m \in Seq(Byte) /\ (m = <<>> \/ Len(m) = 8)
    <2>1. CASE m = <<>> BY <2>1
    <2>2. CASE m \in EUI64 BY <2>2, EUI64Assumption
    <2>. QED BY <2>1, <2>2
<1>5. t \in UInt16 BY TokenAssumption
<1>6. IF HasMAC(type) THEN Len(m) = 8 ELSE m = <<>>
    BY <1>2, <1>3 DEF Proper
<1>. QED BY <1>1, <1>2, <1>3, <1>5, <1>6 DEF Packet, Fields

(* The texts of a payload. *)
LEMMA Texts ==
    ASSUME NEW payload \in Payload \cup {NoPayload}, NEW text \in Written(payload)
    PROVE  /\ text \in Seq(Byte)
           /\ payload = NoPayload => text = <<>>
           /\ payload # NoPayload => text \in JSON /\ Len(text) >= 1
                                      /\ jsonUnmarshal[text] = payload
<1>1. CASE payload = NoPayload
    <2>1. text = <<>> BY <1>1 DEF Written
    <2>. QED BY <1>1, <2>1
<1>2. CASE payload # NoPayload
    <2>1. text \in JSON /\ jsonUnmarshal[text] = payload BY <1>2 DEF Written
    <2>. QED BY <1>2, <2>1, JSONAssumption
<1>. QED BY <1>1, <1>2

(* What json.Marshal writes is one of them. *)
LEMMA MarshalIsWritten ==
    ASSUME NEW p, p.payload \in Payload \cup {NoPayload}
    PROVE  \E text \in Written(p.payload) : MarshalBinary(p) = Datagram(p, text)
BY CodecAssumption DEF MarshalBinary, Written

(* A binary form of a packet, byte by byte. *)
LEMMA Layout ==
    ASSUME NEW p, Fields(p), NEW text \in Written(p.payload)
    PROVE  LET u == Datagram(p, text) IN
           /\ u \in Seq(Byte)
           /\ Len(u) = 4 + Len(p.mac) + Len(text)
           /\ u[1] = p.version /\ Uint16(u[2], u[3]) = MarshalledToken(p) /\ u[4] = p.type
           /\ SubSeq(u, 5, 4 + Len(p.mac)) = p.mac
           /\ SubSeq(u, 5 + Len(p.mac), Len(u)) = text
<1>. DEFINE t == MarshalledToken(p)
            u == <<p.version, t % 256, t \div 256, p.type>> \o p.mac \o text
<1>1. /\ p.type \in PacketType /\ p.version \in {1, 2} /\ p.token \in UInt16
      /\ p.mac \in Seq(Byte) /\ text \in Seq(Byte)
    BY Texts DEF Fields
<1>2. t \in UInt16
    <2>1. t = 0 \/ t = p.token BY DEF MarshalledToken
    <2>2. 0 \in UInt16 BY ONLY SixteenBits
    <2>. QED BY <1>1, <2>1, <2>2
<1>3. /\ t % 256 \in Byte /\ t \div 256 \in Byte /\ Uint16(t % 256, t \div 256) = t
    BY <1>2, Uint16RoundTrip
<1>4. Datagram(p, text) = u
    BY HeaderBytes DEF Datagram
<1>5. <<p.version, t % 256, t \div 256, p.type>> \in Seq(Byte)
    <2>1. p.version \in Byte /\ p.type \in Byte BY <1>1 DEF Byte
    <2>. QED BY <1>3, <2>1
<1>6. PICK x \in Seq(Byte) : x = <<p.version, t % 256, t \div 256, p.type>>
    BY <1>5
<1>7. /\ Len(x) = 4
      /\ x[1] = p.version /\ x[2] = t % 256 /\ x[3] = t \div 256 /\ x[4] = p.type
    BY <1>6
<1>8. u = x \o p.mac \o text BY <1>6
<1>. HIDE DEF t, u
<1>9. /\ u \in Seq(Byte)
      /\ Len(u) = 4 + Len(p.mac) + Len(text)
      /\ u[1] = x[1] /\ u[2] = x[2] /\ u[3] = x[3] /\ u[4] = x[4]
      /\ SubSeq(u, 5, 4 + Len(p.mac)) = p.mac
      /\ SubSeq(u, 5 + Len(p.mac), Len(u)) = text
    <2>1. Len(x) = 4 BY <1>7
    <2>2. Parts(x \o p.mac \o text, x, p.mac, text)
        BY <1>1, <2>1, ConcatBytes
    <2>. QED BY <1>8, <2>2 DEF Parts
<1>10. u[1] = p.version /\ u[4] = p.type /\ Uint16(u[2], u[3]) = t
    BY <1>3, <1>7, <1>9
<1>. QED BY <1>4, <1>9, <1>10 DEF t

-----------------------------------------------------------------------------
(* The datagram of a packet is made of bytes, at least four. *)
LEMMA WholeBytes ==
    ASSUME sent \in {p \in Packets : Proper(p)},
           whole \in {Datagram(sent, text) : text \in Written(sent.payload)}
    PROVE  whole \in Seq(Byte) /\ Len(whole) >= 4
<1>1. PICK text \in Written(sent.payload) : whole = Datagram(sent, text) OBVIOUS
<1>2. Fields(sent) BY PacketFields
<1>3. /\ whole \in Seq(Byte) /\ Len(whole) = 4 + Len(sent.mac) + Len(text)
      /\ sent.mac \in Seq(Byte) /\ text \in Seq(Byte)
    BY <1>1, <1>2, Layout, Texts DEF Fields
<1>4. PICK k \in Nat, l \in Nat : k = Len(sent.mac) /\ l = Len(text)
    BY <1>3, LenProperties
<1>5. Len(whole) = 4 + k + l BY <1>3, <1>4
<1>6. 4 + k + l >= 4 OBVIOUS
<1>. QED BY <1>3, <1>5, <1>6

(* A datagram starts out as a binary form of a packet. *)
LEMMA InitInv == Init => WireInv
BY WholeBytes DEF Init, WireInv

(* Damage leaves a sequence of bytes. *)
LEMMA NextInv == WireInv /\ [Next]_vars => WireInv'
<1>. SUFFICES ASSUME WireInv, [Next]_vars PROVE WireInv' OBVIOUS
<1>. USE DEF WireInv
<1>1. CASE UNCHANGED vars BY <1>1 DEF vars
<1>2. ASSUME NEW n \in 0 .. Len(data) - 1, Truncate(n) PROVE WireInv'
    <2>1. SubSeq(data, 1, n) \in Seq(Byte) BY <1>2
    <2>. QED BY <1>2, <2>1 DEF Truncate
<1>3. ASSUME NEW i \in 1 .. 4, NEW b \in DamageTo, Overwrite(i, b) PROVE WireInv'
    <2>1. data = whole BY <1>3 DEF Overwrite
    <2>2. Len(data) >= 4 /\ Len(data) \in Nat BY <2>1, WholeBytes, LenProperties
    <2>3. i \in 1 .. Len(data)
        <3>1. PICK k \in Nat : k = Len(data) /\ k >= 4 BY <2>2
        <3>2. i \in 1 .. k BY ONLY <3>1, i \in 1 .. 4
        <3>. QED BY <3>1, <3>2
    <2>4. b \in Byte BY TokenAssumption
    <2>5. [data EXCEPT ![i] = b] \in Seq(Byte) BY <2>3, <2>4, ExceptSeq
    <2>. QED BY <1>3, <2>5 DEF Overwrite
<1>. QED BY <1>1, <1>2, <1>3 DEF Next

(* The invariant holds of every reachable state. *)
LEMMA WireInvHolds == Spec => []WireInv
BY InitInv, NextInv, PTL DEF Spec

-----------------------------------------------------------------------------
(* Every binary form of a proper packet decodes to the packet, up to the   *)
(* token of a PULL_RESP of version 1.                                      *)
LEMMA DatagramReads ==
    ASSUME NEW p, Fields(p), Proper(p), NEW text \in Written(p.payload),
           NEW u, u = Datagram(p, text)
    PROVE  /\ Unmarshals(p.type, u)
           /\ UnmarshalBinary(p.type, u) = [p EXCEPT !.token = MarshalledToken(p)]
<1>1. /\ u \in Seq(Byte)
      /\ Len(u) = 4 + Len(p.mac) + Len(text)
      /\ u[1] = p.version /\ u[4] = p.type
      /\ Uint16(u[2], u[3]) = MarshalledToken(p)
      /\ SubSeq(u, 5, 4 + Len(p.mac)) = p.mac
      /\ SubSeq(u, 5 + Len(p.mac), Len(u)) = text
    BY Layout
<1>2. /\ p = Packet(p.type, p.version, p.token, p.mac, p.payload)
      /\ p.type \in 0 .. 5
      /\ p.version \in {1, 2}
      /\ p.mac \in Seq(Byte)
      /\ IF HasMAC(p.type) THEN Len(p.mac) = 8 ELSE p.mac = <<>>
      /\ p.payload \in Payload \cup {NoPayload}
    BY DEF Fields
<1>3. /\ text \in Seq(Byte)
      /\ p.payload = NoPayload => text = <<>>
      /\ p.payload # NoPayload => text \in JSON /\ Len(text) >= 1
                                   /\ jsonUnmarshal[text] = p.payload
    BY <1>2, Texts
<1>4. Len(p.mac) \in Nat /\ Len(text) \in Nat BY <1>2, <1>3, LenProperties
<1>5. /\ HasMAC(p.type) => Len(p.mac) = 8
      /\ ~HasMAC(p.type) => p.mac = <<>> /\ Len(p.mac) = 0
      /\ text = <<>> => Len(text) = 0
    BY <1>2, EmptySeq, Zenon
<1>6. Rest(p.type, u) = text
    <2>1. CASE HasMAC(p.type)
        <3>1. Len(p.mac) = 8 BY <1>5, <2>1
        <3>2. 5 + 8 = 13 OBVIOUS
        <3>3. 5 + Len(p.mac) = 13 BY <3>1, <3>2, Zenon
        <3>. QED BY <1>1, <2>1, <3>3 DEF Rest
    <2>2. CASE ~HasMAC(p.type)
        <3>1. 5 + Len(p.mac) = 5 BY <1>5, <2>2
        <3>. QED BY <1>1, <2>2, <3>1 DEF Rest
    <2>. QED BY <2>1, <2>2
<1>7. LengthOK(p.type, Len(u))
    <2>1. PICK k \in Nat, l \in Nat : k = Len(p.mac) /\ l = Len(text)
        BY <1>4
    <2>2. /\ Len(u) = 4 + k + l
          /\ k = IF HasMAC(p.type) THEN 8 ELSE 0
          /\ HasPayload(p.type) \/ l = 0
          /\ p.type \in {PushData, PullResp} => l >= 1
        BY <1>1, <1>2, <1>3, <1>5, <2>1 DEF Proper
    <2>. QED BY <1>2, <2>2 DEF LengthOK
<1>8. PayloadOK(p.type, u)
    BY <1>2, <1>3, <1>6 DEF PayloadOK, Proper
<1>9. Unmarshals(p.type, u)
    BY <1>1, <1>2, <1>7, <1>8 DEF Unmarshals
<1>10. IF HasMAC(p.type) THEN SubSeq(u, 5, 12) = p.mac ELSE p.mac = <<>>
    <2>1. 4 + 8 = 12 OBVIOUS
    <2>2. HasMAC(p.type) => 4 + Len(p.mac) = 12 BY <1>5, <2>1, Zenon
    <2>. QED BY <1>1, <1>5, <2>2
<1>11. p.payload = IF HasPayload(p.type) /\ text # <<>> THEN jsonUnmarshal[text]
                                                        ELSE NoPayload
    <2>1. Len(text) >= 1 => text # <<>> BY <1>5
    <2>2. HasPayload(p.type) \/ p.payload = NoPayload BY DEF Proper
    <2>. QED BY <1>3, <2>1, <2>2
<1>12. UnmarshalBinary(p.type, u) =
          Packet(p.type, p.version, MarshalledToken(p), p.mac, p.payload)
    BY <1>1, <1>6, <1>10, <1>11 DEF UnmarshalBinary
<1>13. [p EXCEPT !.token = MarshalledToken(p)] =
          Packet(p.type, p.version, MarshalledToken(p), p.mac, p.payload)
    BY ONLY <1>2 DEF Packet
<1>. QED BY <1>9, <1>12, <1>13

(* Every datagram that arrives as it was sent decodes to the packet that   *)
(* was sent, whatever the token, the MAC, the payload and its text.        *)
THEOREM RoundTrips == Spec => []RoundTrip
<1>. SUFFICES ASSUME WireInv, data = whole
              PROVE  /\ Unmarshals(sent.type, data)
                     /\ UnmarshalBinary(sent.type, data) =
                            [sent EXCEPT !.token = MarshalledToken(sent)]
    BY WireInvHolds, PTL DEF RoundTrip
<1>1. Fields(sent) /\ Proper(sent) BY PacketFields DEF WireInv
<1>2. PICK text \in Written(sent.payload) : data = Datagram(sent, text)
    BY DEF WireInv
<1>. QED BY <1>1, <1>2, DatagramReads

(* A decodable datagram is decodable as one type only, the one that        *)
(* GetPacketType finds.                                                    *)
LEMMA ReadAsItsType ==
    ASSUME NEW u \in Seq(Byte), NEW type \in PacketType, Unmarshals(type, u)
    PROVE  /\ Len(u) >= 4
           /\ GetPacketType(u) = type
           /\ u[1] \in {1, 2} /\ u[2] \in Byte /\ u[3] \in Byte
<1>1. Len(u) \in Nat BY LenProperties
<1>2. Len(u) >= 4 BY <1>1 DEF Unmarshals, LengthOK
<1>3. u[4] = type /\ u[1] \in {1, 2} BY DEF Unmarshals
<1>4. u[2] \in Byte /\ u[3] \in Byte BY <1>1, <1>2
<1>. QED BY <1>2, <1>3, <1>4 DEF GetPacketType

(* What UnmarshalBinary makes of a datagram is a packet of the protocol. *)
LEMMA DecodedIsProper ==
    ASSUME NEW u \in Seq(Byte), NEW type \in PacketType, Unmarshals(type, u),
           NEW p, p = UnmarshalBinary(type, u)
    PROVE  Fields(p) /\ Proper(p) /\ p.type = type
<1>1. /\ u[1] \in {1, 2} /\ u[2] \in Byte /\ u[3] \in Byte BY ReadAsItsType
<1>2. LengthOK(type, Len(u)) /\ PayloadOK(type, u) BY DEF Unmarshals
<1>3. /\ p = Packet(p.type, p.version, p.token, p.mac, p.payload)
      /\ p.type = type /\ p.version = u[1] /\ p.token = Uint16(u[2], u[3])
      /\ p.mac = (IF HasMAC(type) THEN SubSeq(u, 5, 12) ELSE <<>>)
      /\ p.payload = IF HasPayload(type) /\ Rest(type, u) # <<>>
                      THEN jsonUnmarshal[Rest(type, u)] ELSE NoPayload
    BY DEF UnmarshalBinary, Packet
<1>4. p.token \in UInt16 BY <1>1, <1>3, BytesRoundTrip
<1>5. /\ p.mac \in Seq(Byte)
      /\ IF HasMAC(type) THEN Len(p.mac) = 8 /\ p.mac # <<>> ELSE p.mac = <<>>
    <2>1. CASE HasMAC(type)
        <3>1. PICK n \in Nat : n = Len(u) BY LenProperties
        <3>2. LengthOK(type, n) BY ONLY <1>2, <3>1, Zenon
        <3>3. n >= 12 BY ONLY <2>1, <3>2 DEF LengthOK
        <3>4. SubSeq(u, 5, 12) \in Seq(Byte) /\ Len(SubSeq(u, 5, 12)) = 8
            BY ONLY <3>1, <3>3, u \in Seq(Byte)
        <3>5. p.mac \in Seq(Byte) /\ Len(p.mac) = 8 BY ONLY <1>3, <2>1, <3>4
        <3>6. p.mac # <<>>
            <4>1. Len(<<>>) = 0 /\ 8 # 0 OBVIOUS
            <4>. QED BY ONLY <3>5, <4>1, Zenon
        <3>. QED BY ONLY <2>1, <3>5, <3>6
    <2>2. CASE ~HasMAC(type)
        <3>1. p.mac = <<>> BY ONLY <1>3, <2>2
        <3>. QED BY ONLY <2>2, <3>1
    <2>. QED BY ONLY <2>1, <2>2
<1>6. /\ p.payload \in Payload \cup {NoPayload}
      /\ HasPayload(type) \/ p.payload = NoPayload
      /\ type \in {PushData, PullResp} => p.payload # NoPayload
    <2>1. HasPayload(type) /\ Rest(type, u) # <<>> => Rest(type, u) \in JSON
        BY ONLY <1>2 DEF PayloadOK
    <2>2. type \in {PushData, PullResp} => Rest(type, u) \in JSON
        BY ONLY <1>2 DEF PayloadOK
    <2>3. \A j \in JSON : j # <<>> /\ jsonUnmarshal[j] \in Payload
        <3>. SUFFICES ASSUME NEW j \in JSON PROVE j # <<>> /\ jsonUnmarshal[j] \in Payload
            OBVIOUS
        <3>1. j \in Seq(Byte) /\ Len(j) >= 1 BY JSONAssumption
        <3>2. j # <<>> BY ONLY <3>1
        <3>3. jsonUnmarshal[j] \in Payload BY CodecAssumption
        <3>. QED BY <3>2, <3>3
    <2>4. NoPayload \notin Payload BY CodecAssumption
    <2>. QED BY ONLY <1>3, <2>1, <2>2, <2>3, <2>4
<1>7. Fields(p) BY ONLY <1>1, <1>3, <1>4, <1>5, <1>6, type \in PacketType DEF Fields
<1>8. Proper(p) BY ONLY <1>3, <1>5, <1>6 DEF Proper
<1>. QED BY ONLY <1>3, <1>7, <1>8

(* UnmarshalBinary loses nothing but the writing of the payload: of any    *)
(* bytes whatsoever that it accepts, MarshalBinary makes a datagram with   *)
(* the same header and MAC, byte by byte, that is read as the same packet. *)
(* The one exception are the two unused bytes of a PULL_RESP of version 1. *)
THEOREM NothingIsIgnored ==
    ASSUME NEW u \in Seq(Byte), NEW type \in PacketType, Unmarshals(type, u),
           ~(type = PullResp /\ u[1] = ProtocolVersion1),
           NEW p, p = UnmarshalBinary(type, u),
           NEW w, w = MarshalBinary(p)
    PROVE  /\ \A i \in 1 .. IF HasMAC(type) THEN 12 ELSE 4 : w[i] = u[i]
           /\ Unmarshals(type, w) /\ UnmarshalBinary(type, w) = p
<1>1. Fields(p) /\ Proper(p) /\ p.type = type BY DecodedIsProper
<1>2. PICK text \in Written(p.payload) : w = Datagram(p, text)
    BY <1>1, MarshalIsWritten DEF Fields
<1>3. p.version = u[1] /\ p.token = Uint16(u[2], u[3]) /\ p.type = type
    BY <1>1 DEF UnmarshalBinary, Packet
<1>4. MarshalledToken(p) = p.token BY <1>3 DEF MarshalledToken
<1>5. Unmarshals(type, w) /\ UnmarshalBinary(type, w) = p
    <2>1. /\ Unmarshals(p.type, w)
          /\ UnmarshalBinary(p.type, w) = [p EXCEPT !.token = MarshalledToken(p)]
        BY ONLY <1>1, <1>2, DatagramReads
    <2>2. p = Packet(p.type, p.version, p.token, p.mac, p.payload) BY <1>1 DEF Fields
    <2>3. [p EXCEPT !.token = p.token] = p BY ONLY <2>2 DEF Packet
    <2>. QED BY ONLY <1>1, <1>4, <2>1, <2>3
<1>6. w \in Seq(Byte) /\ Len(w) >= 4
    <2>1. w \in Seq(Byte) BY ONLY <1>1, <1>2, Layout
    <2>2. LengthOK(type, Len(w)) BY ONLY <1>5 DEF Unmarshals
    <2>3. PICK n \in Nat : n = Len(w) BY ONLY <2>1, LenProperties
    <2>4. LengthOK(type, n) BY ONLY <2>2, <2>3, Zenon
    <2>5. n >= 4 BY ONLY <2>4 DEF LengthOK
    <2>. QED BY ONLY <2>1, <2>3, <2>5
<1>7. w[1] = u[1] /\ w[2] = u[2] /\ w[3] = u[3] /\ w[4] = u[4]
    <2>1. u[2] \in Byte /\ u[3] \in Byte BY ReadAsItsType
    <2>2. w[1] = p.version /\ w[4] = p.type /\ Uint16(w[2], w[3]) = p.token
        BY ONLY <1>1, <1>2, <1>4, Layout
    <2>3. w[2] \in Byte /\ w[3] \in Byte BY ONLY <1>6
    <2>4. <<w[2], w[3]>> = <<u[2], u[3]>>
        <3>1. PutUint16(Uint16(w[2], w[3])) = <<w[2], w[3]>> BY ONLY <2>3, BytesRoundTrip
        <3>2. PutUint16(Uint16(u[2], u[3])) = <<u[2], u[3]>> BY ONLY <2>1, BytesRoundTrip
        <3>. QED BY ONLY <1>3, <2>2, <3>1, <3>2
    <2>5. u[4] = type BY DEF Unmarshals
    <2>. QED BY ONLY <1>3, <2>2, <2>4, <2>5
<1>8. ASSUME HasMAC(type), NEW i \in 5 .. 12 PROVE w[i] = u[i]
    <2>1. SubSeq(w, 5, 12) = SubSeq(u, 5, 12)
        <3>1. UnmarshalBinary(type, w).mac = SubSeq(w, 5, 12)
            BY <1>8 DEF UnmarshalBinary, Packet
        <3>2. UnmarshalBinary(type, u).mac = SubSeq(u, 5, 12)
            BY <1>8 DEF UnmarshalBinary, Packet
        <3>. QED BY ONLY <1>5, <3>1, <3>2, p = UnmarshalBinary(type, u)
    <2>2. ASSUME NEW v \in Seq(Byte), LengthOK(type, Len(v))
          PROVE  SubSeq(v, 5, 12)[i - 4] = v[i]
        <3>1. PICK n \in Nat : n = Len(v) BY ONLY LenProperties, v \in Seq(Byte)
        <3>2. LengthOK(type, n) BY ONLY <2>2, <3>1, Zenon
        <3>3. n >= 12 BY ONLY <1>8, <3>2 DEF LengthOK
        <3>. QED BY ONLY <3>1, <3>3, v \in Seq(Byte), i \in 5 .. 12
    <2>3. LengthOK(type, Len(w)) /\ LengthOK(type, Len(u))
        BY ONLY <1>5, Unmarshals(type, u) DEF Unmarshals
    <2>4. SubSeq(w, 5, 12)[i - 4] = w[i] BY ONLY <1>6, <2>2, <2>3
    <2>5. SubSeq(u, 5, 12)[i - 4] = u[i] BY ONLY <2>2, <2>3, u \in Seq(Byte)
    <2>. QED BY ONLY <2>1, <2>4, <2>5
<1>9. ASSUME NEW i \in 1 .. IF HasMAC(type) THEN 12 ELSE 4 PROVE w[i] = u[i]
    <2>1. i \in {1, 2, 3, 4} \/ (HasMAC(type) /\ i \in 5 .. 12) BY ONLY <1>9
    <2>2. CASE i \in {1, 2, 3, 4} BY ONLY <1>7, <2>2
    <2>. QED BY ONLY <1>8, <2>1, <2>2
<1>. QED BY ONLY <1>5, <1>9

(* No datagram is accepted as two types, nor as one the dispatch refuses.  *)
THEOREM ReadingsAgree == Spec => []OneReading
<1>. SUFFICES ASSUME WireInv PROVE OneReading BY WireInvHolds, PTL
<1>. QED BY ReadAsItsType DEF OneReading, WireInv

(* Truncation is detected, except where a shorter payload is valid.        *)
THEOREM CutsAreNoticed == Spec => []CutIsNoticed
<1>. SUFFICES ASSUME WireInv, Len(data) < Len(whole),
                     Unmarshals(sent.type, data)
              PROVE  \/ sent.type = TXACK /\ Len(data) = 12
                     \/ HasPayload(sent.type) /\ Rest(sent.type, data) \in JSON
    BY WireInvHolds, PTL DEF CutIsNoticed
<1>1. Fields(sent) /\ Proper(sent) /\ data \in Seq(Byte) BY PacketFields DEF WireInv
<1>. DEFINE written == Written(sent.payload)
<1>2. PICK text \in written : Len(whole) = 4 + Len(sent.mac) + Len(text)
    <2>1. PICK text \in written : whole = Datagram(sent, text) BY DEF WireInv
    <2>. QED BY <1>1, <2>1, Layout
<1>3. /\ sent.type \in 0 .. 5
      /\ IF HasMAC(sent.type) THEN Len(sent.mac) = 8 ELSE sent.mac = <<>>
    BY <1>1 DEF Fields
<1>4. Len(data) \in Nat BY <1>1, LenProperties
<1>5. LengthOK(sent.type, Len(data)) /\ PayloadOK(sent.type, data) BY DEF Unmarshals
<1>6. HasPayload(sent.type)
    <2>. SUFFICES ASSUME ~HasPayload(sent.type) PROVE FALSE OBVIOUS
    <2>1. text = <<>> BY <1>1, <1>2, Texts DEF Proper, Fields
    <2>2. Len(sent.mac) = IF HasMAC(sent.type) THEN 8 ELSE 0
        BY <1>3, EmptySeq, Zenon
    <2>3. Len(text) = 0 BY <2>1
    <2>4. Len(data) < IF HasMAC(sent.type) THEN 12 ELSE 4 BY <1>2, <1>4, <2>2, <2>3
    <2>5. PICK n \in Nat : n = Len(data) BY <1>4
    <2>6. LengthOK(sent.type, n) /\ n < IF HasMAC(sent.type) THEN 12 ELSE 4
        BY <1>5, <2>4, <2>5
    <2>. QED BY <1>3, <2>6 DEF LengthOK
<1>7. ASSUME sent.type = TXACK, Rest(sent.type, data) = <<>>
      PROVE  Len(data) = 12
    <2>1. PICK n \in Nat : n = Len(data) BY <1>4
    <2>2. LengthOK(TXACK, n) BY <1>5, <1>7, <2>1
    <2>3. n <= 12
        <3>. SUFFICES ASSUME n >= 13 PROVE FALSE OBVIOUS
        <3>1. SubSeq(data, 13, n) = <<>> BY <1>7, <2>1 DEF Rest
        <3>2. Len(SubSeq(data, 13, n)) = n - 12 BY <1>1, <2>1
        <3>3. n - 12 = 0 BY <3>1, <3>2
        <3>. QED BY <3>3
    <2>4. n = 12 BY <2>2, <2>3 DEF LengthOK
    <2>5. Len(data) = 12 BY <2>1, <2>4
    <2>. QED BY <2>5
<1>. QED BY <1>5, <1>6, <1>7 DEF PayloadOK

(* An acknowledgement repeats the header it answers, byte for byte.        *)
THEOREM AcksRepeatHeaders == Spec => []AckRepeatsHeader
<1>. SUFFICES ASSUME WireInv PROVE AckRepeatsHeader BY WireInvHolds, PTL
<1>. SUFFICES ASSUME NEW type \in {PushData, PullData}, Unmarshals(type, data),
                     NEW kind, kind = IF type = PushData THEN PushACK ELSE PullACK
              PROVE  /\ Unmarshals(kind, AckFor(data))
                     /\ \A other \in PacketType \ {kind} : ~Unmarshals(other, AckFor(data))
                     /\ \A i \in 1 .. 3 : AckFor(data)[i] = data[i]
    BY DEF AckRepeatsHeader
<1>1. data \in Seq(Byte) BY DEF WireInv
<1>2. /\ GetPacketType(data) = type
      /\ data[1] \in {1, 2} /\ data[2] \in Byte /\ data[3] \in Byte
    BY <1>1, ReadAsItsType
<1>. DEFINE token == Uint16(data[2], data[3])
            p == Packet(kind, data[1], token, <<>>, NoPayload)
<1>3. AckFor(data) = MarshalBinary(p)
    BY <1>2 DEF AckFor, UnmarshalBinary, Packet
<1>4. token \in UInt16 /\ PutUint16(token) = <<data[2], data[3]>>
    BY <1>2, BytesRoundTrip
<1>5. Header(p) = <<data[1], data[2], data[3], kind>>
    <2>. HIDE DEF token
    <2>1. MarshalledToken(p) = token BY DEF MarshalledToken, Packet
    <2>. QED BY <1>4, <2>1 DEF Header, Packet
<1>6. AckFor(data) = <<data[1], data[2], data[3], kind>>
    <2>1. p.mac = <<>> /\ p.payload = NoPayload BY DEF Packet
    <2>. HIDE DEF p
    <2>2. MarshalBinary(p) = <<data[1], data[2], data[3], kind>> \o <<>> \o <<>>
        BY <1>5, <2>1 DEF MarshalBinary, Datagram
    <2>3. <<data[1], data[2], data[3], kind>> \in Seq(Byte)
        BY <1>2 DEF Byte
    <2>4. PICK q \in Seq(Byte) : q = <<data[1], data[2], data[3], kind>> BY <2>3
    <2>5. q \o <<>> = q BY ConcatEmptySeq
    <2>. QED BY <1>3, <2>2, <2>4, <2>5
<1>7. kind \in {1, 4} OBVIOUS
<1>8. PICK ack : ack = AckFor(data) OBVIOUS
<1>9. ack = <<data[1], data[2], data[3], kind>> BY <1>6, <1>8
<1>10. /\ Len(ack) = 4 /\ ack[4] = kind
       /\ ack[1] = data[1] /\ ack[2] = data[2] /\ ack[3] = data[3]
    BY <1>9
<1>11. Unmarshals(kind, ack)
    BY <1>2, <1>7, <1>10 DEF Unmarshals, LengthOK, PayloadOK
<1>12. \A other \in PacketType \ {kind} : ~Unmarshals(other, ack)
    BY <1>10 DEF Unmarshals
<1>13. \A i \in 1 .. 3 : ack[i] = data[i]
    BY <1>10
<1>. QED BY <1>8, <1>11, <1>12, <1>13

-----------------------------------------------------------------------------
(* The conversions work on the datagrams of Wire, and leave them alone. *)
THEOREM ConversionsUseWire == CSpec => Spec
<1>1. CInit => Init BY DEF CInit
<1>2. [Damage \/ Convert]_<<vars, cvars>> => [Next]_vars
    BY DEF Damage, Convert, Receive, Publish, Answer, Parse, ParsePanics, Send
<1>. QED BY <1>1, <1>2, PTL DEF CSpec, Spec

(* The data rate the bridge has is in what was reported, and after a       *)
(* round trip to the router it is still.                                   *)
Heard(datr, dr) ==
    \/ \E sf \in SpreadFactor, bw \in Bandwidth, e \in BOOLEAN :
          datr = String(Rate(sf, bw, e)) /\ dr = DataRate("LORA", sf, bw, 0)
    \/ \E n \in BitRate : datr = Number(n) /\ dr = DataRate("FSK", 0, 0, n)
Echoed(datr, dr) ==
    \/ /\ datr.text.sf \in LoRaSpread
       /\ \E b \in LoRaBandwidth :
             /\ b = datr.text.bw \/ Cut(datr.text.bw, b)
             /\ dr = DataRate("LORA", datr.text.sf, b, 0)
    \/ \E n \in BitRate : datr = Number(n) /\ dr = DataRate("FSK", 0, 0, n)

(* What was reported and is not refused is what the bridge has. *)
LEMMA ReportIsHeard ==
    ASSUME NEW datr \in Reported, NEW dr,
           dr = newDataRateFromDatR(DatRUnmarshalJSON(datr)), dr # NoRate
    PROVE  Heard(datr, dr)
<1>1. ASSUME NEW sf \in SpreadFactor, NEW bw \in Bandwidth, NEW e \in BOOLEAN,
             datr = String(Rate(sf, bw, e))
      PROVE  Heard(datr, dr)
    <2>1. DatRUnmarshalJSON(datr) = [LoRa |-> Rate(sf, bw, e), FSK |-> 0]
        BY <1>1 DEF DatRUnmarshalJSON, String
    <2>2. /\ Rate(sf, bw, e) # Empty /\ Rate(sf, bw, e).is = "rate"
          /\ Rate(sf, bw, e).sf = sf /\ Rate(sf, bw, e).bw = bw
        BY DEF Rate, Empty
    <2>3. dr = DataRate("LORA", sf, bw, 0)
        BY <2>1, <2>2 DEF newDataRateFromDatR
    <2>. QED BY <1>1, <2>3 DEF Heard
<1>2. ASSUME NEW n \in BitRate, datr = Number(n) PROVE Heard(datr, dr)
    <2>1. DatRUnmarshalJSON(datr) = [LoRa |-> Empty, FSK |-> n]
        BY <1>2 DEF DatRUnmarshalJSON, Number
    <2>2. n # 0 BY ConversionsAssumption
    <2>3. dr = DataRate("FSK", 0, 0, n) BY <2>1, <2>2 DEF newDataRateFromDatR
    <2>. QED BY <1>2, <2>3 DEF Heard
<1>3. ASSUME datr \in {String(Empty), Number(0)} PROVE FALSE
    <2>1. DatRUnmarshalJSON(datr) = [LoRa |-> Empty, FSK |-> 0]
        BY <1>3 DEF DatRUnmarshalJSON, String, Number
    <2>. QED BY <2>1 DEF newDataRateFromDatR
<1>4. ASSUME datr = String(Other) PROVE FALSE
    <2>1. DatRUnmarshalJSON(datr) = [LoRa |-> Other, FSK |-> 0]
        BY <1>4 DEF DatRUnmarshalJSON, String
    <2>2. Other # Empty /\ Other.is # "rate" BY DEF Other, Empty
    <2>. QED BY <2>1, <2>2 DEF newDataRateFromDatR
<1>. QED BY <1>1, <1>2, <1>3, <1>4 DEF Reported

(* A bandwidth of at most three digits starts with no bandwidth of LoRaWAN *)
(* but itself, which it starts with.                                       *)
LEMMA StartsWithItself ==
    ASSUME NEW bw \in Nat, NEW b \in LoRaBandwidth
    PROVE  /\ StartsWith(bw, b) => b = bw \/ Cut(bw, b)
           /\ bw = b => StartsWith(bw, b)
<1>1. ASSUME NEW k \in {10, 100, 1000, 10000, 100000, 1000000}, bw \div k = b, bw <= 999
      PROVE  FALSE
    <2>1. b >= 125 BY DEF LoRaBandwidth
    <2>2. bw = k * (bw \div k) + (bw % k) /\ bw % k >= 0 /\ bw \div k \in Int OBVIOUS
    <2>3. bw >= k * b BY <1>1, <2>2 DEF LoRaBandwidth
    <2>. QED BY <1>1, <2>1, <2>3 DEF LoRaBandwidth
<1>2. bw \div 1 = bw OBVIOUS
<1>. QED BY <1>1, <1>2 DEF StartsWith, Cut

(* What the router is told of a data rate parses to a data rate of LoRaWAN *)
(* that agrees with the report, and a data rate of LoRaWAN does parse.     *)
LEMMA RouterRoundTrip ==
    ASSUME NEW datr, NEW dr, Heard(datr, dr)
    PROVE  /\ Parses(UplinkMetadata(dr)) => Echoed(datr, DownlinkRate(UplinkMetadata(dr)))
           /\ ~Parses(UplinkMetadata(dr)) =>
                ~(datr.text.sf \in LoRaSpread /\ datr.text.bw \in LoRaBandwidth)
<1>1. ASSUME NEW sf \in SpreadFactor, NEW bw \in Bandwidth, NEW e \in BOOLEAN,
             datr = String(Rate(sf, bw, e)), dr = DataRate("LORA", sf, bw, 0)
      PROVE  /\ Parses(UplinkMetadata(dr)) => Echoed(datr, DownlinkRate(UplinkMetadata(dr)))
             /\ ~Parses(UplinkMetadata(dr)) =>
                  ~(datr.text.sf \in LoRaSpread /\ datr.text.bw \in LoRaBandwidth)
    <2>. DEFINE u == UplinkMetadata(dr)
                found == {b \in LoRaBandwidth : sf \in LoRaSpread /\ StartsWith(bw, b)}
    <2>1. bw \in Nat BY ConversionsAssumption
    <2>2. u.Modulation = "LORA" /\ u.DataRate = Sprintf(sf, bw)
        BY <1>1 DEF UplinkMetadata, DataRate
    <2>3. datr.text.sf = sf /\ datr.text.bw = bw BY <1>1 DEF String, Rate
    <2>4. /\ Sprintf(sf, bw).is = "rate" /\ Sprintf(sf, bw).sf = sf
          /\ Sprintf(sf, bw).bw = bw
        BY DEF Sprintf, Rate
    <2>. HIDE DEF u
    <2>5. ParseDataRate(u.DataRate) = {Sprintf(sf, b) : b \in found}
        BY <2>2, <2>4 DEF ParseDataRate
    <2>6. ASSUME Parses(u) PROVE Echoed(datr, DownlinkRate(u))
        <3>1. ParseDataRate(u.DataRate) # {} BY <2>2, <2>6 DEF Parses
        <3>2. PICK b \in found :
                  (CHOOSE r \in ParseDataRate(u.DataRate) : TRUE) = Sprintf(sf, b)
            BY <2>5, <3>1
        <3>3. Sprintf(sf, b).sf = sf /\ Sprintf(sf, b).bw = b BY DEF Sprintf, Rate
        <3>4. DownlinkRate(u) = DataRate("LORA", sf, b, 0)
            BY <2>2, <3>2, <3>3 DEF DownlinkRate
        <3>5. sf \in LoRaSpread /\ b \in LoRaBandwidth /\ (b = bw \/ Cut(bw, b))
            BY <2>1, StartsWithItself
        <3>. QED BY <2>3, <3>4, <3>5 DEF Echoed
    <2>7. ASSUME sf \in LoRaSpread, bw \in LoRaBandwidth PROVE Parses(u)
        <3>1. bw \in found BY <2>1, <2>7, StartsWithItself
        <3>2. ParseDataRate(u.DataRate) # {} BY <2>5, <3>1
        <3>. QED BY <3>2 DEF Parses
    <2>. QED BY <2>3, <2>6, <2>7 DEF u
<1>2. ASSUME NEW n \in BitRate, datr = Number(n), dr = DataRate("FSK", 0, 0, n)
      PROVE  Parses(UplinkMetadata(dr)) /\ Echoed(datr, DownlinkRate(UplinkMetadata(dr)))
    <2>1. Parses(UplinkMetadata(dr)) /\ DownlinkRate(UplinkMetadata(dr)) = dr
        BY <1>2 DEF UplinkMetadata, Parses, DownlinkRate, DataRate
    <2>. QED BY <1>2, <2>1 DEF Echoed
<1>. QED BY <1>1, <1>2 DEF Heard

(* What the gateway is told of a data rate that agrees with its report. *)
LEMMA GatewayRoundTrip ==
    ASSUME NEW datr, NEW dr, Echoed(datr, dr),
           NEW json, json = DatRMarshalJSON(newDatRfromDataRate(dr))
    PROVE  \/ datr.kind = "number" /\ json = datr
           \/ /\ datr.text.sf \in LoRaSpread
              /\ \E bw \in LoRaBandwidth :
                    /\ json = String(Sprintf(datr.text.sf, bw))
                    /\ bw = datr.text.bw \/ Cut(datr.text.bw, bw)
<1>1. ASSUME NEW b \in LoRaBandwidth, dr = DataRate("LORA", datr.text.sf, b, 0)
      PROVE  json = String(Sprintf(datr.text.sf, b))
    <2>1. newDatRfromDataRate(dr) = [LoRa |-> Sprintf(datr.text.sf, b), FSK |-> 0]
        BY <1>1 DEF newDatRfromDataRate, DataRate
    <2>2. Sprintf(datr.text.sf, b) # Empty BY DEF Sprintf, Rate, Empty
    <2>. QED BY <2>1, <2>2 DEF DatRMarshalJSON
<1>2. ASSUME NEW n \in BitRate, datr = Number(n), dr = DataRate("FSK", 0, 0, n)
      PROVE  datr.kind = "number" /\ json = datr
    <2>1. newDatRfromDataRate(dr) = [LoRa |-> Empty, FSK |-> n]
        BY <1>2 DEF newDatRfromDataRate, DataRate
    <2>2. datr.kind = "number" BY <1>2 DEF Number
    <2>. QED BY <1>2, <2>1, <2>2 DEF DatRMarshalJSON
<1>. QED BY <1>1, <1>2 DEF Echoed

(* The bridge has the data rate that was reported and tells the router     *)
(* that one, has one that agrees with it from the parse of the answer on,  *)
(* and carries the timestamp of the window.                                *)
CInv ==
    /\ at \in {"received", "published", "answered"} => Heard(rx.datr, rate)
    /\ at \in {"published", "answered"} => lora = UplinkMetadata(rate)
    /\ at \in {"parsed", "sent"} => Echoed(rx.datr, rate)
    /\ at \in {"received", "published"} => tmst = rx.tmst
    /\ at \in {"answered", "parsed", "sent"} => tmst = due
    /\ at = "sent" => txpk = TXPKMarshalJSON(TXPK(rate, tmst))
    /\ at = "panic" =>
          ~(rx.datr.text.sf \in LoRaSpread /\ rx.datr.text.bw \in LoRaBandwidth)

(* Every step keeps it. *)
LEMMA CInvKept == CInv /\ [Damage \/ Convert]_<<vars, cvars>> => CInv'
<1>. SUFFICES ASSUME CInv, [Damage \/ Convert]_<<vars, cvars>> PROVE CInv' OBVIOUS
<1>. USE DEF CInv
<1>1. ASSUME NEW t \in Tick, NEW datr \in Reported, Receive(t, datr) PROVE CInv'
    <2>1. rx' = [tmst |-> t, datr |-> datr] /\ tmst' = t /\ at' \in {"received", "refused"}
        BY <1>1 DEF Receive
    <2>2. rx'.datr = datr /\ rx'.tmst = t BY <2>1
    <2>3. at' = "received" => Heard(datr, rate') BY <1>1, ReportIsHeard DEF Receive
    <2>. QED BY <2>1, <2>2, <2>3
<1>2. ASSUME Publish PROVE CInv' BY <1>2 DEF Publish
<1>3. ASSUME NEW d \in Delay, Answer(d) PROVE CInv' BY <1>3 DEF Answer
<1>4. ASSUME Parse PROVE CInv'
    <2>1. Heard(rx.datr, rate) /\ lora = UplinkMetadata(rate) BY <1>4 DEF Parse
    <2>2. Echoed(rx.datr, rate') BY <1>4, <2>1, RouterRoundTrip DEF Parse
    <2>. QED BY <1>4, <2>2 DEF Parse
<1>5. ASSUME ParsePanics PROVE CInv'
    <2>1. Heard(rx.datr, rate) /\ lora = UplinkMetadata(rate) BY <1>5 DEF ParsePanics
    <2>2. ~(rx.datr.text.sf \in LoRaSpread /\ rx.datr.text.bw \in LoRaBandwidth)
        BY <1>5, <2>1, RouterRoundTrip DEF ParsePanics
    <2>. QED BY <1>5, <2>2 DEF ParsePanics
<1>6. ASSUME Send PROVE CInv' BY <1>6 DEF Send
<1>7. ASSUME UNCHANGED cvars PROVE CInv' BY <1>7 DEF cvars
<1>8. Damage => UNCHANGED cvars BY DEF Damage
<1>. QED BY <1>1, <1>2, <1>3, <1>4, <1>5, <1>6, <1>7, <1>8 DEF Convert

(* It holds in every reachable state. *)
LEMMA CInvHolds == CSpec => []CInv
<1>1. CInit => CInv BY DEF CInit, CInv
<1>. QED BY <1>1, CInvKept, PTL DEF CSpec

(* Whatever number of whatever digits is reported and however it is        *)
(* written, the gateway is told to transmit with the bit rate or the       *)
(* spreading factor it received with, with the bandwidth, too, unless that *)
(* has more digits than LoRaWAN's, and no data rate of LoRaWAN ends the    *)
(* process.                                                                *)
THEOREM DataRateIsKept == CSpec => []EchoKeepsDataRate
<1>. SUFFICES ASSUME CInv PROVE EchoKeepsDataRate BY CInvHolds, PTL
<1>1. ASSUME at = "sent"
      PROVE  \/ rx.datr.kind = "number" /\ txpk.datr = rx.datr
             \/ /\ rx.datr.text.sf \in LoRaSpread
                /\ \E bw \in LoRaBandwidth :
                      /\ txpk.datr = String(Sprintf(rx.datr.text.sf, bw))
                      /\ bw = rx.datr.text.bw \/ Cut(rx.datr.text.bw, bw)
    <2>1. Echoed(rx.datr, rate) /\ txpk = TXPKMarshalJSON(TXPK(rate, tmst))
        BY <1>1 DEF CInv
    <2>2. txpk.datr = DatRMarshalJSON(newDatRfromDataRate(rate))
        BY <2>1 DEF TXPKMarshalJSON, TXPK
    <2>. QED BY <2>1, <2>2, GatewayRoundTrip
<1>. QED BY <1>1 DEF CInv, EchoKeepsDataRate

(* For every width of the clock, every clock value and every receive       *)
(* window, the gateway is told when to transmit, except at the value zero. *)
THEOREM WindowIsTold == CSpec => []SaysWhenUnlessZero
<1>. SUFFICES ASSUME CInv, at = "sent" PROVE ~txpk.imme /\ txpk.tmst = {due} \ {0}
    BY CInvHolds, PTL DEF SaysWhenUnlessZero
<1>1. tmst = due /\ txpk = TXPKMarshalJSON(TXPK(rate, tmst)) BY DEF CInv
<1>2. ~txpk.imme /\ txpk.tmst = {t \in {tmst} : t # 0}
    BY <1>1 DEF TXPKMarshalJSON, TXPK
<1>. QED BY <1>1, <1>2
=============================================================================
