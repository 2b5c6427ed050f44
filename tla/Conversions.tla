----------------------------- MODULE Conversions -----------------------------
(***************************************************************************)
(* The way of a data rate and a timestamp through the conversions of the   *)
(* bridge: a gateway reports an uplink as JSON (RXPK) in the payload of a  *)
(* PUSH_DATA, which Wire carries; of a datagram that arrives well enough   *)
(* to be accepted the gateway backend parses the payload, and the TTN      *)
(* backend publishes the uplink; the router answers in the receive window  *)
(* of the uplink with the data rate it was told, the TTN backend parses    *)
(* the answer, the gateway backend formats it (TXPK), and the gateway      *)
(* reads the JSON.                                                         *)
(*                                                                         *)
(* A text is what the expressions of the parsers, which are not anchored,  *)
(* find in it: the numbers of SFxBWy, and whether that is all there is and *)
(* the numbers are written without leading zeros.                          *)
(***************************************************************************)
EXTENDS Wire

CONSTANTS
    Wrap,     \* the gateway's clock is a counter modulo Wrap (2^32)
    Tick,     \* the clock values that occur
    Delay,    \* the delays of the receive windows
    BitRate,  \* the FSK bit rates that occur
    SpreadFactor, Bandwidth   \* the numbers that occur in a data rate

ASSUME ConversionsAssumption ==
    /\ Wrap \in Nat \ {0}
    /\ Tick \subseteq 0 .. Wrap - 1
    /\ Delay \subseteq Nat
    /\ BitRate \subseteq Nat \ {0}
    /\ SpreadFactor \subseteq Nat
    /\ Bandwidth \subseteq Nat

(* A text with a data rate, the empty one, and one without a data rate (or *)
(* with a number that is no int), which a number of JSON that is no uint32 *)
(* is kept as, too.                                                        *)
Rate(sf, bw, exact) == [is |-> "rate", sf |-> sf, bw |-> bw, exact |-> exact]
Empty == [is |-> "empty", sf |-> 0, bw |-> 0, exact |-> TRUE]
Other == [is |-> "other", sf |-> 0, bw |-> 0, exact |-> TRUE]

(* fmt.Sprintf("SF%dBW%d") *)
Sprintf(sf, bw) == Rate(sf, bw, TRUE)

(* The LoRa data rates of LoRaWAN. *)
LoRaSpread == 7 .. 12
LoRaBandwidth == {125, 250, 500}

-----------------------------------------------------------------------------
(* DatR: a text or a number in JSON, two fields in Go *)

String(t) == [kind |-> "string", text |-> t, num |-> 0]
Number(n) == [kind |-> "number", text |-> Empty, num |-> n]

DatRMarshalJSON(d) == IF d.LoRa # Empty THEN String(d.LoRa) ELSE Number(d.FSK)
DatRUnmarshalJSON(j) ==
    IF j.kind = "number" THEN [LoRa |-> Empty, FSK |-> j.num]
                         ELSE [LoRa |-> j.text, FSK |-> 0]

(* band.DataRate *)
DataRate(modulation, sf, bw, bitRate) ==
    [Modulation |-> modulation, SpreadFactor |-> sf, Bandwidth |-> bw, BitRate |-> bitRate]
NoRate == DataRate("", 0, 0, 0)

(* The expression finds a data rate anywhere in the text, with leading     *)
(* zeros or not; NoRate stands for the error.                              *)
newDataRateFromDatR(d) ==
    IF d.LoRa # Empty
    THEN IF d.LoRa.is = "rate" THEN DataRate("LORA", d.LoRa.sf, d.LoRa.bw, 0) ELSE NoRate
    ELSE IF d.FSK # 0 THEN DataRate("FSK", 0, 0, d.FSK) ELSE NoRate

(* Mutant: the two numbers are swapped. *)
newDatRfromDataRateSwapped(dr) ==
    IF dr.Modulation = "LORA" THEN [LoRa |-> Sprintf(dr.Bandwidth, dr.SpreadFactor), FSK |-> 0]
                              ELSE [LoRa |-> Empty, FSK |-> dr.BitRate]

newDatRfromDataRate(dr) ==
    IF dr.Modulation = "LORA" THEN [LoRa |-> Sprintf(dr.SpreadFactor, dr.Bandwidth), FSK |-> 0]
                              ELSE [LoRa |-> Empty, FSK |-> dr.BitRate]

-----------------------------------------------------------------------------
(* The TTN side *)

(* convertRXPacket: modulation, data rate text and bit rate. *)
UplinkMetadata(dr) ==
    [Modulation |-> dr.Modulation,
     DataRate |-> IF dr.Modulation = "LORA" THEN Sprintf(dr.SpreadFactor, dr.Bandwidth) ELSE Empty,
     BitRate |-> IF dr.Modulation = "FSK" THEN dr.BitRate ELSE 0]

(* The digits of bw start with those of b.  Bound: at most six digits      *)
(* follow.                                                                 *)
StartsWith(bw, b) ==
    \E k \in {1, 10, 100, 1000, 10000, 100000, 1000000} : bw \div k = b

(* What ParseDataRate finds in a text of Sprintf, or nothing.  The         *)
(* spreading factor stands between SF and BW and is matched as a whole; of *)
(* the bandwidth the first digits are enough.                              *)
ParseDataRate(text) ==
    {Sprintf(text.sf, b) : b \in {b \in LoRaBandwidth :
        text.is = "rate" /\ text.sf \in LoRaSpread /\ StartsWith(text.bw, b)}}

(* The data rate SubscribeGatewayTX builds, whose use of ParseDataRate     *)
(* panics if that found nothing.                                           *)
Parses(lora) == lora.Modulation = "LORA" => ParseDataRate(lora.DataRate) # {}
DownlinkRate(lora) ==
    IF lora.Modulation = "LORA"
    THEN LET dr == CHOOSE dr \in ParseDataRate(lora.DataRate) : TRUE
         IN  DataRate("LORA", dr.sf, dr.bw, 0)
    ELSE DataRate("FSK", 0, 0, lora.BitRate)

(* Mutant: every downlink is sent at once. *)
TXPKImmediately(dr, timestamp) ==
    [Imme |-> TRUE, Tmst |-> timestamp, DatR |-> newDatRfromDataRate(dr)]

(* newTXPKFromTXPacket for a downlink of the TTN backend, which does not   *)
(* set Immediately.                                                        *)
TXPK(dr, timestamp) ==
    [Imme |-> FALSE, Tmst |-> timestamp, DatR |-> newDatRfromDataRate(dr)]

(* encoding/json: tmst is left out when it is zero. *)
TXPKMarshalJSON(txpk) ==
    [imme |-> txpk.Imme, datr |-> DatRMarshalJSON(txpk.DatR),
     tmst |-> {t \in {txpk.Tmst} : t # 0}]

-----------------------------------------------------------------------------
VARIABLES
    at,     \* wire, received, published, answered, parsed, sent, refused or panic
    rx,     \* the RXPK of the gateway: clock and data rate
    rate,   \* the data rate as band.DataRate
    lora,   \* the data rate as the router sees it
    tmst,   \* the timestamp that goes along with it
    due,    \* history: the clock value of the receive window
    txpk    \* the JSON the gateway gets

cvars == <<at, rx, rate, lora, tmst, due, txpk>>

Reported ==
    {String(Rate(sf, bw, e)) : sf \in SpreadFactor, bw \in Bandwidth, e \in BOOLEAN}
      \cup {Number(n) : n \in BitRate \cup {0}} \cup {String(Other), String(Empty)}

NoTXPK == TXPKMarshalJSON(TXPK(NoRate, 0))

(* A gateway has sent a datagram. *)
CInit ==
    /\ Init
    /\ at = "wire"
    /\ rx = [tmst |-> 0, datr |-> Number(0)]
    /\ rate = NoRate
    /\ lora = UplinkMetadata(NoRate)
    /\ tmst = 0
    /\ due = 0
    /\ txpk = NoTXPK

(* The network damages it. *)
Damage == at = "wire" /\ Next /\ UNCHANGED cvars

(* newRXPacketFromRXPK: the rxpk of a PUSH_DATA that is accepted. *)
Receive(t, datr) ==
    /\ at = "wire"
    /\ Unmarshals(PushData, data)
    /\ rx' = [tmst |-> t, datr |-> datr]
    /\ rate' = newDataRateFromDatR(DatRUnmarshalJSON(datr))
    /\ tmst' = t
    /\ at' = IF rate' = NoRate THEN "refused" ELSE "received"
    /\ UNCHANGED <<vars, lora, due, txpk>>

(* PublishGatewayRX *)
Publish ==
    /\ at = "received"
    /\ lora' = UplinkMetadata(rate)
    /\ at' = "published"
    /\ UNCHANGED <<vars, rx, rate, tmst, due, txpk>>

(* The router (external) answers in a receive window. *)
Answer(d) ==
    /\ at = "published"
    /\ tmst' = (tmst + d) % Wrap
    /\ due' = (rx.tmst + d) % Wrap
    /\ at' = "answered"
    /\ UNCHANGED <<vars, rx, rate, lora, txpk>>

(* The goroutine of SubscribeGatewayTX *)
Parse ==
    /\ at = "answered"
    /\ Parses(lora)
    /\ rate' = DownlinkRate(lora)
    /\ at' = "parsed"
    /\ UNCHANGED <<vars, rx, lora, tmst, due, txpk>>

ParsePanics ==
    /\ at = "answered"
    /\ ~Parses(lora)
    /\ at' = "panic"
    /\ UNCHANGED <<vars, rx, rate, lora, tmst, due, txpk>>

(* Send *)
Send ==
    /\ at = "parsed"
    /\ txpk' = TXPKMarshalJSON(TXPK(rate, tmst))
    /\ at' = "sent"
    /\ UNCHANGED <<vars, rx, rate, lora, tmst, due>>

Convert ==
    \/ \E t \in Tick, datr \in Reported : Receive(t, datr)
    \/ \E d \in Delay : Answer(d)
    \/ Publish \/ Parse \/ ParsePanics \/ Send

CSpec == CInit /\ [][Damage \/ Convert]_<<vars, cvars>>

-----------------------------------------------------------------------------
(* The larger bandwidth is b followed by more digits. *)
Cut(bw, b) == bw > 999 /\ StartsWith(bw, b)

(***************************************************************************)
(* Through four conversions of the data rate (JSON to text to numbers to   *)
(* text and back), however the gateway writes it: it is told to transmit   *)
(* with the bit rate it received with, or with a data rate of LoRaWAN of   *)
(* the spreading factor it received with, and of the same bandwidth or, if *)
(* the reported one has more digits than any of LoRaWAN's, of its first    *)
(* three (SF7BW1250 is answered with SF7BW125).  No data rate of LoRaWAN   *)
(* ends the process.                                                       *)
(***************************************************************************)
EchoKeepsDataRate ==
    LET text == rx.datr.text
    IN  /\ at = "sent" =>
            \/ rx.datr.kind = "number" /\ txpk.datr = rx.datr
            \/ /\ text.sf \in LoRaSpread
               /\ \E bw \in LoRaBandwidth :
                     /\ txpk.datr = String(Sprintf(text.sf, bw))
                     /\ bw = text.bw \/ Cut(text.bw, bw)
        /\ at = "panic" => ~(text.sf \in LoRaSpread /\ text.bw \in LoRaBandwidth)

(* A downlink for a receive window tells the gateway exactly when it is    *)
(* due, although the counter wraps; only at the value zero, which the JSON *)
(* encoder leaves out, it says neither a time nor to send at once.         *)
SaysWhenUnlessZero ==
    at = "sent" => ~txpk.imme /\ txpk.tmst = {due} \ {0}
=============================================================================
