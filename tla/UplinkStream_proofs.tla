------------------------ MODULE UplinkStream_proofs -------------------------
(* Proofs about UplinkStream, for a buffer and a number of messages of any *)
(* size.                                                                   *)
EXTENDS UplinkStream, TLAPS

IInv == UplinkInv

(* The messages of a sequence are numbers. *)
LEMMA MessageNat ==
    ASSUME NEW s \in Seq(Message), NEW i \in DOMAIN s
    PROVE  s[i] \in Nat
<1>1. s[i] \in Message OBVIOUS
<1>. QED BY <1>1, UplinkAssumption DEF Message

(* The next message goes behind all others. *)
LEMMA RisingAppend ==
    ASSUME NEW s \in Seq(Message), NEW n \in Nat, Rising(s, n)
    PROVE  Rising(Append(s, n + 1), n + 1)
<1>. DEFINE more == Append(s, n + 1)
<1>1. ASSUME NEW i \in DOMAIN more
      PROVE  IF i = Len(s) + 1 THEN more[i] = n + 1
             ELSE i \in DOMAIN s /\ more[i] = s[i] /\ s[i] \in Nat
    BY MessageNat
<1>2. DOMAIN s = 1 .. Len(s) /\ DOMAIN more = 1 .. Len(s) + 1 /\ Len(s) \in Nat
    OBVIOUS
<1>3. ASSUME NEW i \in DOMAIN more PROVE more[i] <= n + 1
    BY <1>1, <1>2 DEF Rising
<1>4. ASSUME NEW i \in DOMAIN more, NEW j \in DOMAIN more, i < j
      PROVE  more[i] < more[j]
    BY <1>1, <1>2, <1>4 DEF Rising
<1>. QED BY <1>3, <1>4 DEF Rising

(* A message that is not kept changes nothing but its number. *)
LEMMA RisingMore ==
    ASSUME NEW s \in Seq(Message), NEW n \in Nat, Rising(s, n)
    PROVE  Rising(s, n + 1)
<1>1. \A i \in DOMAIN s : s[i] \in Nat BY MessageNat
<1>. QED BY <1>1 DEF Rising

(* A message that is lost leaves the order of the others. *)
LEMMA RisingWithout ==
    ASSUME NEW a \in Seq(Message), NEW m \in Message, NEW b \in Seq(Message), NEW n \in Nat,
           Rising(a \o (<<m>> \o b), n)
    PROVE  Rising(a \o b, n)
<1>. DEFINE long == a \o (<<m>> \o b)
            short == a \o b
            Place(i) == IF i <= Len(a) THEN i ELSE i + 1
<1>1. ASSUME NEW i \in DOMAIN short
      PROVE  Place(i) \in DOMAIN long /\ short[i] = long[Place(i)] /\ i \in Nat
    <2>1. /\ DOMAIN short = 1 .. Len(a) + Len(b) /\ DOMAIN long = 1 .. Len(a) + (1 + Len(b))
          /\ Len(a) \in Nat /\ Len(b) \in Nat
        OBVIOUS
    <2>2. CASE i <= Len(a) BY <2>1, <2>2
    <2>3. CASE i > Len(a)
        <3>1. short[i] = b[i - Len(a)] BY <2>1, <2>3
        <3>2. long[i + 1] = (<<m>> \o b)[i + 1 - Len(a)] BY <2>1, <2>3
        <3>3. (<<m>> \o b)[i + 1 - Len(a)] = b[i - Len(a)] BY <2>1, <2>3
        <3>4. i \in Nat /\ i + 1 \in DOMAIN long BY <2>1
        <3>5. ~(i <= Len(a)) BY <2>1, <2>3, <3>4
        <3>. HIDE DEF long, short
        <3>. QED BY <3>1, <3>2, <3>3, <3>4, <3>5
    <2>. QED BY <2>1, <2>2, <2>3
<1>2. ASSUME NEW i \in DOMAIN short, NEW j \in DOMAIN short, i < j
      PROVE  short[i] < short[j]
    <2>1. Place(i) < Place(j) /\ Len(a) \in Nat BY <1>1, <1>2
    <2>. QED BY <1>1, <2>1 DEF Rising
<1>3. ASSUME NEW i \in DOMAIN short PROVE short[i] <= n
    BY <1>1 DEF Rising
<1>. HIDE DEF long, short
<1>4. Rising(short, n) BY <1>2, <1>3 DEF Rising
<1>. QED BY <1>4 DEF short

-----------------------------------------------------------------------------
(* The place of a message that is handed over or sent holds one or none. *)
LEMMA OneOrNone ==
    ASSUME NEW w \in MessageOrNone
    PROVE  /\ w \in Seq(Message) /\ Len(w) \in {0, 1}
           /\ w = <<>> \/ \E m \in Message : w = <<m>>
<1>1. CASE w = <<>> BY <1>1
<1>2. ASSUME NEW m \in Message, w = <<m>>
      PROVE  w \in Seq(Message) /\ Len(w) = 1
    BY <1>2
<1>. QED BY <1>1, <1>2 DEF MessageOrNone

(* The messages under way fit into the buffer and two more places. *)
LEMMA UnderwayTypes ==
    ASSUME TypeOK
    PROVE  /\ Underway \in Seq(Message) /\ sent \o Underway \in Seq(Message)
           /\ ch \in Seq(Message) /\ hand \o ch \in Seq(Message)
           /\ Underway = wire \o (hand \o ch)
           /\ Len(Underway) \in Nat /\ Len(ch) \in Nat /\ Len(Underway) <= Len(ch) + 2
<1>1. /\ wire \in Seq(Message) /\ Len(wire) \in {0, 1}
      /\ hand \in Seq(Message) /\ Len(hand) \in {0, 1}
    BY OneOrNone DEF TypeOK
<1>2. ch \in Seq(Message) /\ sent \in Seq(Message) BY DEF TypeOK
<1>3. /\ Underway \in Seq(Message) /\ hand \o ch \in Seq(Message)
      /\ sent \o Underway \in Seq(Message)
    BY <1>1, <1>2 DEF Underway
<1>4. Underway = wire \o (hand \o ch) BY <1>1, <1>2 DEF Underway
<1>5. Len(Underway) = Len(wire) + Len(hand) + Len(ch) /\ Len(ch) \in Nat
    BY <1>1, <1>2 DEF Underway
<1>6. PICK w \in Int, h \in Int, c \in Nat : w = Len(wire) /\ h = Len(hand) /\ c = Len(ch)
    BY <1>1, <1>2
<1>7. Len(Underway) = w + h + c /\ w \in {0, 1} /\ h \in {0, 1} /\ Len(ch) = c
    BY <1>1, <1>5, <1>6
<1>8. Len(Underway) \in Nat /\ Len(Underway) <= Len(ch) + 2
    BY <1>7
<1>. QED BY <1>2, <1>3, <1>4, <1>5, <1>8

(* A message read from the buffer or handed over stays under way. *)
LEMMA UnderwayMoves ==
    ASSUME TypeOK, (MonitorMessage /\ hand = <<>>) \/ HandOver
    PROVE  Underway' = Underway
<1>1. CASE MonitorMessage /\ hand = <<>>
    <2>1. ch = <<Head(ch)>> \o Tail(ch) /\ ch \in Seq(Message)
        BY <1>1 DEF TypeOK, MonitorMessage
    <2>2. wire \in Seq(Message) BY OneOrNone DEF TypeOK
    <2>3. /\ hand' = <<Head(ch)>> /\ ch' = Tail(ch) /\ wire' = wire
          /\ <<Head(ch)>> \in Seq(Message) /\ Tail(ch) \in Seq(Message)
        BY <1>1, <2>1 DEF TypeOK, MonitorMessage
    <2>4. (wire \o <<Head(ch)>>) \o Tail(ch) = wire \o (<<Head(ch)>> \o Tail(ch))
        BY <2>2, <2>3
    <2>5. wire \o <<>> = wire BY <2>2
    <2>. QED BY <1>1, <2>1, <2>3, <2>4, <2>5 DEF Underway
<1>2. CASE HandOver
    <2>1. hand \in Seq(Message) BY OneOrNone DEF TypeOK
    <2>2. wire = <<>> /\ wire' = hand /\ hand' = <<>> /\ ch' = ch BY <1>2 DEF HandOver
    <2>3. <<>> \o hand = hand /\ hand \o <<>> = hand BY <2>1
    <2>. QED BY <2>2, <2>3 DEF Underway
<1>. QED BY <1>1, <1>2

(* The message inside client.Send is the oldest one under way. *)
LEMMA UnderwayOldest ==
    ASSUME TypeOK, wire # <<>>
    PROVE  /\ \E m \in Message : wire = <<m>> /\ Underway = <<m>> \o (hand \o ch)
           /\ Underway # <<>>
           /\ Tail(Underway) = hand \o ch
           /\ wire = <<Head(Underway)>>
<1>1. PICK m \in Message : wire = <<m>> BY OneOrNone DEF TypeOK
<1>2. Underway = <<m>> \o (hand \o ch) /\ hand \o ch \in Seq(Message)
    BY <1>1, UnderwayTypes
<1>3. /\ <<m>> \o (hand \o ch) # <<>>
      /\ Tail(<<m>> \o (hand \o ch)) = hand \o ch
      /\ Head(<<m>> \o (hand \o ch)) = m
    BY <1>2
<1>. QED BY <1>1, <1>2, <1>3

(* Of the messages under way, the one inside client.Send is lost. *)
LEMMA LostIsOldest ==
    ASSUME TypeOK, wire # <<>>, wire' = <<>>, UNCHANGED <<hand, ch>>
    PROVE  Underway' = hand \o ch /\ Underway' = Tail(Underway)
<1>1. hand \in Seq(Message) BY OneOrNone DEF TypeOK
<1>2. <<>> \o hand = hand BY <1>1
<1>3. Underway' = hand \o ch BY <1>2 DEF Underway
<1>. QED BY <1>3, UnderwayOldest

(* What is lost does not disturb the order. *)
LEMMA LostIsInOrder ==
    ASSUME TypeOK, InOrder, wire' = <<>>, UNCHANGED <<hand, ch, sends, sent>>
    PROVE  InOrder'
<1>1. CASE wire = <<>>
    BY <1>1 DEF InOrder, Underway
<1>2. CASE wire # <<>>
    <2>1. PICK m \in Message : Underway = <<m>> \o (hand \o ch)
        BY <1>2, UnderwayOldest
    <2>2. sent \in Seq(Message) /\ hand \o ch \in Seq(Message) /\ sends \in Nat
        BY UnderwayTypes DEF TypeOK
    <2>3. Rising(sent \o (hand \o ch), sends)
        BY <2>1, <2>2, RisingWithout DEF InOrder
    <2>. QED BY <1>2, <2>3, LostIsOldest DEF InOrder
<1>. QED BY <1>1, <1>2

(* A message that Send puts into the buffer comes last. *)
LEMMA SendAtEnd ==
    ASSUME TypeOK, NEW m \in Message, ch' = Append(ch, m), UNCHANGED <<wire, hand>>
    PROVE  Underway' = Append(Underway, m)
<1>1. wire \in Seq(Message) /\ hand \in Seq(Message) /\ ch \in Seq(Message)
    BY OneOrNone DEF TypeOK
<1>2. hand \o Append(ch, m) = Append(hand \o ch, m) /\ hand \o ch \in Seq(Message)
    BY ONLY <1>1, m \in Message
<1>. DEFINE rest == hand \o ch
<1>. HIDE DEF rest
<1>3. rest \in Seq(Message) BY <1>2 DEF rest
<1>4. wire \o Append(rest, m) = Append(wire \o rest, m)
    BY ONLY <1>1, <1>3, m \in Message
<1>. QED BY <1>2, <1>4 DEF Underway, rest

-----------------------------------------------------------------------------
(* The invariant holds initially. *)
LEMMA InitIInv == Init => IInv
<1>. SUFFICES ASSUME Init PROVE IInv OBVIOUS
<1>. USE UplinkAssumption DEF Init, SInit
<1>1. TypeOK
    <2>1. closing \in BOOLEAN /\ canceled \in BOOLEAN /\ chClosed \in BOOLEAN OBVIOUS
    <2>2. STypeOK BY <2>1 DEF STypeOK, CloserPoints
    <2>3. /\ ch \in Seq(Message) /\ sent \in Seq(Message)
          /\ Len(ch) <= BufferSize /\ sends \in 0 .. MaxSend
        OBVIOUS
    <2>4. hand \in MessageOrNone /\ wire \in MessageOrNone BY DEF MessageOrNone
    <2>. QED BY <2>1, <2>2, <2>3, <2>4 DEF TypeOK, LoopPoints
<1>2. InOrder
    <2>1. sent \o Underway = <<>> BY DEF Underway
    <2>. QED BY <2>1 DEF InOrder, Rising
<1>3. /\ SetupCountsPending /\ AtMostOneLateSession /\ LateSessionIsLast
      /\ FlagBeforeEnd /\ ErrorsCollected /\ OpenSessionIsServed
    BY DEF SetupCountsPending, AtMostOneLateSession, LateSessionIsLast, FlagBeforeEnd,
           ErrorsCollected, OpenSessionIsServed
<1>. QED BY <1>1, <1>2, <1>3 DEF IInv, UplinkInv

(* What a step that leaves the messages alone has to show. *)
LEMMA MessagesUnchanged ==
    ASSUME IInv, UNCHANGED <<ch, hand, wire, sends, sent>>,
           STypeOK', (loop \in LoopPoints \cup {"hand", "drain", "closerecv"})',
           chClosed' \in BOOLEAN, snd' \in {"running", "ended"},
           errg' \in {"none", "recv", "send", "closed"}
    PROVE  TypeOK' /\ InOrder'
<1>1. TypeOK' BY DEF IInv, UplinkInv, TypeOK
<1>2. (sent \o Underway)' = sent \o Underway BY DEF Underway
<1>. QED BY <1>1, <1>2 DEF IInv, UplinkInv, InOrder

(* A step of the goroutine that sets up sessions. *)
LEMMA RedialIInv ==
    ASSUME IInv, Redial
    PROVE  IInv'
<1>. USE DEF IInv, UplinkInv, Redial, datavars
<1>1. /\ STypeOK' /\ (loop \in LoopPoints \cup {"hand", "drain", "closerecv"})'
      /\ SetupCountsPending' /\ AtMostOneLateSession' /\ LateSessionIsLast'
      /\ FlagBeforeEnd' /\ ErrorsCollected' /\ OpenSessionIsServed'
    <2>. USE DEF TypeOK, STypeOK, LoopPoints, CloserPoints, SetupDone, SetupCountsPending,
                 AtMostOneLateSession, LateSessionIsLast, FlagBeforeEnd,
                 ErrorsCollected, OpenSessionIsServed
    <2>2. CASE Refused BY <2>2 DEF Refused
    <2>3. CASE Stopped("exited") BY <2>3 DEF Stopped
    <2>4. CASE BackOff BY <2>4 DEF BackOff
    <2>5. CASE Retry BY <2>5 DEF Retry
    <2>6. CASE CheckClosing("exited") BY <2>6 DEF CheckClosing
    <2>. QED BY <2>2, <2>3, <2>4, <2>5, <2>6
<1>2. TypeOK' /\ InOrder' BY <1>1, MessagesUnchanged DEF TypeOK
<1>. QED BY <1>1, <1>2

(* A session begins: what the sender of the one before still held is lost. *)
LEMMA SessionIInv ==
    ASSUME IInv, Session
    PROVE  IInv'
<1>. USE DEF IInv, UplinkInv, Session, Open
<1>1. /\ STypeOK' /\ (loop \in LoopPoints \cup {"hand", "drain", "closerecv"})'
      /\ SetupCountsPending' /\ AtMostOneLateSession' /\ LateSessionIsLast'
      /\ FlagBeforeEnd' /\ ErrorsCollected' /\ OpenSessionIsServed'
    BY DEF TypeOK, STypeOK, LoopPoints, CloserPoints, SetupDone, SetupCountsPending,
           AtMostOneLateSession, LateSessionIsLast, FlagBeforeEnd,
           ErrorsCollected, OpenSessionIsServed
<1>2. TypeOK' BY <1>1 DEF TypeOK, MessageOrNone
<1>3. InOrder' BY LostIsInOrder
<1>. QED BY <1>1, <1>2, <1>3

(* The sender, the error goroutine and the router. *)
LEMMA SenderIInv ==
    ASSUME IInv, SendOk \/ SendFails \/ RecvReturns \/ SessionBreaks
    PROVE  IInv'
<1>. USE DEF IInv, UplinkInv, streamvars, datavars
<1>1. /\ STypeOK' /\ (loop \in LoopPoints \cup {"hand", "drain", "closerecv"})'
      /\ SetupCountsPending' /\ AtMostOneLateSession' /\ LateSessionIsLast'
      /\ FlagBeforeEnd' /\ ErrorsCollected' /\ OpenSessionIsServed'
    BY DEF TypeOK, STypeOK, SetupCountsPending,
           AtMostOneLateSession, LateSessionIsLast, FlagBeforeEnd, ErrorsCollected,
           OpenSessionIsServed, SendOk, SendFails, RecvReturns, SessionBreaks, SessionEnds
<1>2. CASE SendOk
    <2>1. wire \in Seq(Message) /\ sent \in Seq(Message) BY OneOrNone DEF TypeOK
    <2>2. sent' \in Seq(Message) BY <1>2, <2>1 DEF SendOk
    <2>3. TypeOK' BY <1>1, <1>2, <2>2 DEF TypeOK, SendOk, MessageOrNone
    <2>4. Underway' = hand \o ch
        <3>1. hand \in Seq(Message) BY OneOrNone DEF TypeOK
        <3>2. <<>> \o hand = hand BY <3>1
        <3>. QED BY <1>2, <3>2 DEF SendOk, Underway
    <2>5. (sent \o Underway)' = sent \o Underway
        <3>1. Underway = wire \o (hand \o ch) /\ hand \o ch \in Seq(Message)
            BY UnderwayTypes
        <3>2. (sent \o wire) \o (hand \o ch) = sent \o (wire \o (hand \o ch))
            <4>. DEFINE rest == hand \o ch
            <4>1. wire \in Seq(Message) /\ sent \in Seq(Message) /\ rest \in Seq(Message)
                BY ONLY <2>1, <3>1
            <4>. HIDE DEF rest
            <4>2. (sent \o wire) \o rest = sent \o (wire \o rest)
                BY ONLY <4>1
            <4>. QED BY ONLY <4>2 DEF rest
        <3>. QED BY <1>2, <2>4, <3>1, <3>2 DEF SendOk
    <2>6. InOrder' BY <1>2, <2>5 DEF InOrder, SendOk
    <2>. QED BY <1>1, <2>3, <2>6
<1>3. CASE SendFails
    <2>1. TypeOK' BY <1>1, <1>3 DEF TypeOK, SendFails, MessageOrNone
    <2>2. InOrder' BY <1>3, LostIsInOrder DEF SendFails
    <2>. QED BY <1>1, <2>1, <2>2
<1>4. CASE RecvReturns \/ SessionBreaks
    <2>1. TypeOK' /\ InOrder'
        BY <1>1, <1>4, MessagesUnchanged DEF TypeOK, RecvReturns, SessionBreaks
    <2>. QED BY <1>1, <2>1
<1>. QED BY <1>2, <1>3, <1>4

(* The goroutine of the stream inside a session. *)
LEMMA MonitorIInv ==
    ASSUME IInv, MonitorMessage \/ HandOver \/ MonitorError \/ MonitorClosed
                   \/ EndSession \/ CloseAndRecvReturns
    PROVE  IInv'
<1>. USE DEF IInv, UplinkInv, datavars
<1>1. /\ STypeOK' /\ (loop \in LoopPoints \cup {"hand", "drain", "closerecv"})'
      /\ SetupCountsPending' /\ AtMostOneLateSession' /\ LateSessionIsLast'
      /\ FlagBeforeEnd' /\ ErrorsCollected' /\ OpenSessionIsServed'
    <2>. USE DEF TypeOK, STypeOK, LoopPoints, SetupCountsPending, AtMostOneLateSession,
           LateSessionIsLast, FlagBeforeEnd, ErrorsCollected, OpenSessionIsServed
    <2>1. CASE MonitorMessage BY <2>1 DEF MonitorMessage
    <2>2. CASE HandOver BY <2>2 DEF HandOver
    <2>3. CASE MonitorError BY <2>3 DEF MonitorError
    <2>4. CASE MonitorClosed BY <2>4 DEF MonitorClosed
    <2>5. CASE EndSession BY <2>5 DEF EndSession
    <2>6. CASE CloseAndRecvReturns BY <2>6 DEF CloseAndRecvReturns
    <2>. QED BY <2>1, <2>2, <2>3, <2>4, <2>5, <2>6
<1>2. CASE MonitorMessage
    <2>1. /\ Head(ch) \in Message /\ Tail(ch) \in Seq(Message)
          /\ Len(Tail(ch)) <= BufferSize /\ hand = <<>>
        BY <1>2, UplinkAssumption DEF TypeOK, MonitorMessage, OpenSessionIsServed
    <2>2. TypeOK' BY <1>1, <1>2, <2>1 DEF TypeOK, MonitorMessage, MessageOrNone
    <2>3. InOrder' BY <1>2, <2>1, UnderwayMoves DEF InOrder, MonitorMessage
    <2>. QED BY <1>1, <2>2, <2>3
<1>3. CASE HandOver
    <2>1. TypeOK' BY <1>1, <1>3 DEF TypeOK, HandOver, MessageOrNone
    <2>2. InOrder' BY <1>3, UnderwayMoves DEF InOrder, HandOver
    <2>. QED BY <1>1, <2>1, <2>2
<1>4. CASE MonitorError \/ MonitorClosed \/ EndSession \/ CloseAndRecvReturns
    <2>1. TypeOK' /\ InOrder'
        BY <1>1, <1>4, MessagesUnchanged
        DEF TypeOK, MonitorError, MonitorClosed, EndSession, CloseAndRecvReturns
    <2>. QED BY <1>1, <2>1
<1>. QED BY <1>2, <1>3, <1>4

(* Close: it waits, sets closing, and closes the buffer. *)
LEMMA CloseIInv ==
    ASSUME IInv, Close
    PROVE  IInv'
<1>. USE DEF IInv, UplinkInv, Close, CloseBegins, datavars
<1>1. /\ STypeOK' /\ (loop \in LoopPoints \cup {"hand", "drain", "closerecv"})'
      /\ chClosed' \in BOOLEAN /\ UNCHANGED <<ch, hand, snd, wire, errg, sends, sent>>
      /\ SetupCountsPending' /\ AtMostOneLateSession' /\ LateSessionIsLast'
      /\ FlagBeforeEnd' /\ ErrorsCollected' /\ OpenSessionIsServed'
    <2>. USE DEF TypeOK, STypeOK, LoopPoints, CloserPoints, SetupCountsPending,
                 AtMostOneLateSession, LateSessionIsLast, FlagBeforeEnd,
                 ErrorsCollected, OpenSessionIsServed
    <2>1. CASE CloseCall({"no"}) /\ UNCHANGED datavars BY <2>1 DEF CloseCall
    <2>2. CASE CloseWakes /\ UNCHANGED datavars BY <2>2 DEF CloseWakes
    <2>3. CASE CloseFlag /\ UNCHANGED datavars BY <2>3 DEF CloseFlag
    <2>4. CASE ClientClose /\ UNCHANGED datavars BY <2>4 DEF ClientClose
    <2>5. CASE CloseChan BY <2>5 DEF CloseChan
    <2>. QED BY <2>1, <2>2, <2>3, <2>4, <2>5
<1>2. TypeOK' /\ InOrder' BY <1>1, MessagesUnchanged DEF TypeOK
<1>. QED BY <1>1, <1>2

(* Send: the message goes behind all others, is dropped, or ends the       *)
(* process.                                                                *)
LEMMA SendIInv ==
    ASSUME IInv, Send
    PROVE  IInv'
<1>. USE UplinkAssumption DEF IInv, UplinkInv, Send
<1>1. sends \in Nat /\ sends + 1 \in Message /\ sends' = sends + 1 /\ sends' \in 0 .. MaxSend
    BY DEF TypeOK, Message
<1>2. /\ STypeOK' /\ SetupCountsPending' /\ AtMostOneLateSession' /\ LateSessionIsLast'
      /\ FlagBeforeEnd' /\ ErrorsCollected' /\ OpenSessionIsServed'
    BY DEF TypeOK, STypeOK, SetupCountsPending, AtMostOneLateSession, LateSessionIsLast,
           FlagBeforeEnd, ErrorsCollected, OpenSessionIsServed
<1>3. CASE UNCHANGED ch
    <2>1. TypeOK' BY <1>1, <1>2, <1>3 DEF TypeOK
    <2>2. (sent \o Underway)' = sent \o Underway BY <1>3 DEF Underway
    <2>3. InOrder' BY <1>1, <2>2, UnderwayTypes, RisingMore DEF InOrder
    <2>. QED BY <1>2, <2>1, <2>3
<1>4. CASE Len(ch) < BufferSize /\ ch' = Append(ch, sends + 1)
    <2>1. ch' \in Seq(Message) /\ Len(ch') = Len(ch) + 1 /\ Len(ch) \in Nat
        BY <1>1, <1>4 DEF TypeOK
    <2>2. TypeOK' BY <1>1, <1>2, <1>4, <2>1 DEF TypeOK
    <2>3. (sent \o Underway)' = Append(sent \o Underway, sends + 1)
        <3>1. Underway' = Append(Underway, sends + 1) BY <1>1, <1>4, SendAtEnd
        <3>2. Underway \in Seq(Message) /\ sent \in Seq(Message) BY UnderwayTypes DEF TypeOK
        <3>. QED BY <1>1, <3>1, <3>2
    <2>4. InOrder' BY <1>1, <2>3, UnderwayTypes, RisingAppend DEF InOrder
    <2>. QED BY <1>2, <2>2, <2>4
<1>. QED BY <1>1, <1>3, <1>4

(* Every step keeps the invariant. *)
LEMMA NextIInv == IInv /\ [Next]_vars => IInv'
<1>. SUFFICES ASSUME IInv, [Next]_vars PROVE IInv' OBVIOUS
<1>1. CASE Next
    BY <1>1, SendIInv, RedialIInv, SessionIInv, SenderIInv, MonitorIInv, CloseIInv
    DEF Next, Loop, Sender
<1>2. CASE UNCHANGED vars
    BY <1>2 DEF vars, streamvars, datavars, IInv, UplinkInv, TypeOK, STypeOK, InOrder, Underway,
                SetupCountsPending, AtMostOneLateSession, LateSessionIsLast,
                FlagBeforeEnd, ErrorsCollected, OpenSessionIsServed
<1>. QED BY <1>1, <1>2

(* The WaitGroup of an uplink or status stream counts exactly the session  *)
(* that is being set up; a closed stream opens at most one more, its last; *)
(* no session but that of a closed buffer leaves its error goroutine       *)
(* behind; and the router gets the messages in the order of the calls of   *)
(* Send, none twice, over any number of sessions.                          *)
THEOREM UplinkCorrect == Spec => []UplinkInv
<1>1. Spec => []IInv BY InitIInv, NextIInv, PTL DEF Spec
<1>. QED BY <1>1, PTL DEF IInv

-----------------------------------------------------------------------------
(* A step of the stream adds a message at the end of those under way, or   *)
(* takes the oldest one away, which the router gets or which is lost.      *)
LEMMA StepImplements ==
    ASSUME IInv, [Next]_vars
    PROVE  [Queue!QNext]_(Queue!qvars)
<1>. USE DEF IInv, UplinkInv, Queue!qvars
<1>1. CASE UNCHANGED <<Underway, sent>> BY <1>1
<1>2. CASE Send
    <2>1. CASE UNCHANGED ch BY <1>1, <1>2, <2>1 DEF Send, Underway
    <2>2. CASE Len(ch) < BufferSize /\ ch' = Append(ch, sends + 1)
        <3>1. sends + 1 \in Message BY <1>2, UplinkAssumption DEF Send, TypeOK, Message
        <3>2. Underway' = Append(Underway, sends + 1) BY <1>2, <2>2, <3>1, SendAtEnd DEF Send
        <3>3. Len(Underway) < BufferSize + 2
            BY <2>2, UnderwayTypes, UplinkAssumption DEF TypeOK
        <3>4. Queue!Accept(sends + 1) BY <1>2, <3>2, <3>3 DEF Send, Queue!Accept
        <3>. QED BY <3>1, <3>4 DEF Queue!QNext
    <2>. QED BY <1>2, <2>1, <2>2 DEF Send
<1>3. CASE SendOk
    <2>1. /\ Underway # <<>> /\ Tail(Underway) = hand \o ch /\ wire = <<Head(Underway)>>
        BY <1>3, UnderwayOldest DEF SendOk
    <2>2. Underway' = Tail(Underway) BY <1>3, <2>1, LostIsOldest DEF SendOk
    <2>3. sent' = Append(sent, Head(Underway))
        BY <1>3, <2>1 DEF SendOk, TypeOK
    <2>4. Queue!Deliver BY <2>1, <2>2, <2>3 DEF Queue!Deliver
    <2>. QED BY <2>4 DEF Queue!QNext
<1>4. CASE wire' = <<>> /\ UNCHANGED <<hand, ch, sent>>
    <2>1. CASE wire = <<>> BY <1>1, <1>4, <2>1 DEF Underway
    <2>2. CASE wire # <<>>
        <3>1. Underway # <<>> BY <2>2, UnderwayOldest
        <3>2. Underway' = Tail(Underway) BY <1>4, <2>2, LostIsOldest
        <3>3. Queue!Lose BY <1>4, <3>1, <3>2 DEF Queue!Lose
        <3>. QED BY <3>3 DEF Queue!QNext
    <2>. QED BY <2>1, <2>2
<1>5. CASE Session \/ SendFails BY <1>4, <1>5 DEF Session, SendFails
<1>6. CASE MonitorMessage \/ HandOver
    BY <1>1, <1>6, UnderwayMoves DEF MonitorMessage, HandOver, OpenSessionIsServed
<1>7. CASE Redial \/ CloseBegins \/ SessionBreaks \/ UNCHANGED vars
    BY <1>1, <1>7 DEF Redial, CloseBegins, SessionBreaks, vars, datavars, Underway
<1>8. CASE MonitorError \/ MonitorClosed \/ EndSession \/ CloseAndRecvReturns
             \/ RecvReturns \/ CloseChan
    BY <1>1, <1>8 DEF MonitorError, MonitorClosed, EndSession, CloseAndRecvReturns,
                      RecvReturns, CloseChan, datavars, Underway
<1>. QED BY <1>2, <1>3, <1>5, <1>6, <1>7, <1>8 DEF Next, Loop, Sender, Close

(* An uplink or status stream implements LossyQueue: its buffer, the       *)
(* message its goroutine hands over and the one inside client.Send are the *)
(* queue, and the router is the other end.                                 *)
THEOREM UplinkIsLossyQueue == Spec => ImplementsQueue
<1>1. Init => Queue!QInit
    BY DEF Init, Queue!QInit, Underway
<1>2. IInv /\ [Next]_vars => [Queue!QNext]_(Queue!qvars)
    BY StepImplements
<1>3. Spec => []IInv BY InitIInv, NextIInv, PTL DEF Spec
<1>. QED BY <1>1, <1>2, <1>3, PTL DEF Spec, ImplementsQueue, Queue!QSpec
=============================================================================
