----------------------- MODULE DownlinkStream_proofs ------------------------
(* Proofs about DownlinkStream, for a buffer and a number of messages of   *)
(* any size.                                                               *)
EXTENDS DownlinkStream, TLAPS

IInv == DownlinkInv /\ CloseEndsSession

(* The messages of a sequence are numbers. *)
LEMMA MessageNat ==
    ASSUME NEW s \in Seq(Message), NEW i \in DOMAIN s
    PROVE  s[i] \in Nat
<1>1. s[i] \in Message OBVIOUS
<1>. QED BY <1>1, DownlinkAssumption DEF Message

(* The next message goes behind all others. *)
LEMMA RisingAppend ==
    ASSUME NEW s \in Seq(Message), NEW n \in Nat, Rising(s, n)
    PROVE  Rising(Append(s, n + 1), n + 1)
<1>. DEFINE more == Append(s, n + 1)
<1>1. ASSUME NEW i \in DOMAIN more
      PROVE  IF i = Len(s) + 1 THEN more[i] = n + 1
             ELSE i \in DOMAIN s /\ more[i] = s[i] /\ s[i] \in Nat
    BY MessageNat
<1>2. DOMAIN s = 1 .. Len(s) /\ DOMAIN more = 1 .. Len(s) + 1 /\ Len(s) \in Nat
    OBVIOUS
<1>3. ASSUME NEW i \in DOMAIN more PROVE more[i] <= n + 1
    BY <1>1, <1>2 DEF Rising
<1>4. ASSUME NEW i \in DOMAIN more, NEW j \in DOMAIN more, i < j
      PROVE  more[i] < more[j]
    BY <1>1, <1>2, <1>4 DEF Rising
<1>. QED BY <1>3, <1>4 DEF Rising

(* A message that is not kept changes nothing but its number. *)
LEMMA RisingMore ==
    ASSUME NEW s \in Seq(Message), NEW n \in Nat, Rising(s, n)
    PROVE  Rising(s, n + 1)
<1>1. \A i \in DOMAIN s : s[i] \in Nat BY MessageNat
<1>. QED BY <1>1 DEF Rising

(* The invariant holds initially. *)
LEMMA InitIInv == Init => IInv
<1>. SUFFICES ASSUME Init PROVE IInv OBVIOUS
<1>. USE DownlinkAssumption DEF Init, SInit
<1>1. TypeOK
    <2>1. closing \in BOOLEAN /\ canceled \in BOOLEAN /\ chClosed \in BOOLEAN OBVIOUS
    <2>2. STypeOK BY <2>1 DEF STypeOK, CloserPoints
    <2>3. /\ ch \in Seq(Message) /\ taken \in Seq(Message)
          /\ Len(ch) <= BufferSize /\ received \in 0 .. MaxRecv
        OBVIOUS
    <2>. QED BY <2>1, <2>2, <2>3 DEF TypeOK, LoopPoints
<1>2. InOrder BY DEF InOrder, Rising
<1>3. /\ SetupCountsPending /\ AtMostOneLateSession /\ LateSessionIsLast
      /\ FlagBeforeEnd /\ OpenSessionIsRead /\ CloseEndsSession
    BY DEF SetupCountsPending, AtMostOneLateSession, LateSessionIsLast, FlagBeforeEnd,
           OpenSessionIsRead, CloseEndsSession
<1>. QED BY <1>1, <1>2, <1>3 DEF IInv, DownlinkInv

(* What the data of the stream need from a step that does not touch them. *)
LEMMA DataUnchanged ==
    ASSUME IInv, UNCHANGED datavars, STypeOK', (loop \in LoopPoints \cup {"close"})'
    PROVE  TypeOK' /\ InOrder'
BY DEF IInv, DownlinkInv, TypeOK, InOrder, datavars

(* A step of the goroutine that opens sessions, or fails to. *)
LEMMA RedialIInv ==
    ASSUME IInv, Redial
    PROVE  IInv'
<1>. USE DEF IInv, DownlinkInv, Redial
<1>1. /\ STypeOK' /\ (loop \in LoopPoints \cup {"close"})'
      /\ SetupCountsPending' /\ AtMostOneLateSession' /\ LateSessionIsLast'
      /\ FlagBeforeEnd' /\ OpenSessionIsRead' /\ CloseEndsSession'
    <2>. USE DEF TypeOK, STypeOK, LoopPoints, CloserPoints, SetupDone, SetupCountsPending,
                 AtMostOneLateSession, LateSessionIsLast, FlagBeforeEnd,
                 OpenSessionIsRead, CloseEndsSession
    <2>1. CASE Open BY <2>1 DEF Open
    <2>2. CASE Refused BY <2>2 DEF Refused
    <2>3. CASE Stopped("close") BY <2>3 DEF Stopped
    <2>4. CASE BackOff BY <2>4 DEF BackOff
    <2>5. CASE Retry BY <2>5 DEF Retry
    <2>6. CASE CheckClosing("close") BY <2>6 DEF CheckClosing
    <2>. QED BY <2>1, <2>2, <2>3, <2>4, <2>5, <2>6
<1>. QED BY <1>1, DataUnchanged

(* The goroutine leaves a session that has ended, or closes the channel, or *)
(* the router ends a session.                                               *)
LEMMA SessionIInv ==
    ASSUME IInv, RecvError \/ CloseChannel \/ SessionBreaks
    PROVE  IInv'
<1>. USE DEF IInv, DownlinkInv
<1>1. TypeOK' /\ InOrder'
    BY DEF TypeOK, STypeOK, LoopPoints, InOrder, RecvError, CloseChannel, SessionBreaks,
           SessionEnds, datavars
<1>2. /\ SetupCountsPending' /\ AtMostOneLateSession' /\ LateSessionIsLast'
      /\ FlagBeforeEnd' /\ OpenSessionIsRead' /\ CloseEndsSession'
    BY DEF TypeOK, STypeOK, SetupCountsPending, AtMostOneLateSession, LateSessionIsLast,
           FlagBeforeEnd, OpenSessionIsRead, CloseEndsSession,
           RecvError, CloseChannel, SessionBreaks, SessionEnds
<1>. QED BY <1>1, <1>2

(* Close: it waits, sets closing, and ends the session that is open. *)
LEMMA CloseIInv ==
    ASSUME IInv, Close
    PROVE  IInv'
<1>. USE DEF IInv, DownlinkInv, Close, CloseBegins
<1>1. /\ STypeOK' /\ (loop \in LoopPoints \cup {"close"})' /\ UNCHANGED datavars
      /\ SetupCountsPending' /\ AtMostOneLateSession' /\ LateSessionIsLast'
      /\ FlagBeforeEnd' /\ OpenSessionIsRead' /\ CloseEndsSession'
    <2>. USE DEF TypeOK, STypeOK, LoopPoints, CloserPoints, SetupCountsPending,
                 AtMostOneLateSession, LateSessionIsLast, FlagBeforeEnd,
                 OpenSessionIsRead, CloseEndsSession
    <2>1. CASE CloseCall({"no", "done"}) /\ UNCHANGED datavars BY <2>1 DEF CloseCall
    <2>2. CASE CloseWakes /\ UNCHANGED datavars BY <2>2 DEF CloseWakes
    <2>3. CASE CloseFlag /\ UNCHANGED datavars BY <2>3 DEF CloseFlag
    <2>4. CASE ClientClose /\ UNCHANGED datavars BY <2>4 DEF ClientClose
    <2>5. CASE CloseCancel BY <2>5 DEF CloseCancel
    <2>. QED BY <2>1, <2>2, <2>3, <2>4, <2>5
<1>. QED BY <1>1, DataUnchanged

(* A message is received: it goes behind all the others, or is dropped. *)
LEMMA RecvIInv ==
    ASSUME IInv, Recv
    PROVE  IInv'
<1>. USE DownlinkAssumption DEF IInv, DownlinkInv, Recv, streamvars
<1>1. TypeOK'
    <2>1. received + 1 \in Message /\ received' \in 0 .. MaxRecv
        BY DEF TypeOK, Message
    <2>2. ch' \in Seq(Message) /\ Len(ch') <= BufferSize
        <3>1. CASE UNCHANGED ch BY <3>1 DEF TypeOK
        <3>2. CASE Len(ch) < BufferSize /\ ch' = Append(ch, received + 1)
            <4>1. ch' \in Seq(Message) /\ Len(ch') = Len(ch) + 1 /\ Len(ch) \in Nat
                BY <2>1, <3>2 DEF TypeOK
            <4>. QED BY <3>2, <4>1
        <3>. QED BY <3>1, <3>2
    <2>. QED BY <2>1, <2>2 DEF TypeOK, STypeOK
<1>2. InOrder'
    <2>1. taken \o ch \in Seq(Message) /\ received \in Nat BY DEF TypeOK
    <2>2. CASE UNCHANGED ch
        BY <2>1, <2>2, RisingMore DEF InOrder
    <2>3. CASE ch' = Append(ch, received + 1)
        <3>1. (taken \o ch)' = Append(taken \o ch, received + 1)
            BY <2>3 DEF TypeOK
        <3>. QED BY <2>1, <3>1, RisingAppend DEF InOrder
    <2>. QED BY <2>2, <2>3
<1>3. /\ SetupCountsPending' /\ AtMostOneLateSession' /\ LateSessionIsLast'
      /\ FlagBeforeEnd' /\ OpenSessionIsRead' /\ CloseEndsSession'
    BY DEF SetupCountsPending, AtMostOneLateSession, LateSessionIsLast, FlagBeforeEnd,
           OpenSessionIsRead, CloseEndsSession
<1>. QED BY <1>1, <1>2, <1>3

(* The consumer takes the oldest message. *)
LEMMA TakeIInv ==
    ASSUME IInv, Take
    PROVE  IInv'
<1>. USE DEF IInv, DownlinkInv, Take, streamvars
<1>1. TypeOK'
    <2>1. Head(ch) \in Message /\ Tail(ch) \in Seq(Message) /\ Len(Tail(ch)) <= BufferSize
        BY DownlinkAssumption DEF TypeOK
    <2>. QED BY <2>1 DEF TypeOK, STypeOK
<1>2. InOrder'
    <2>1. (taken \o ch)' = taken \o ch BY DEF TypeOK
    <2>. QED BY <2>1 DEF InOrder
<1>3. /\ SetupCountsPending' /\ AtMostOneLateSession' /\ LateSessionIsLast'
      /\ FlagBeforeEnd' /\ OpenSessionIsRead' /\ CloseEndsSession'
    BY DEF SetupCountsPending, AtMostOneLateSession, LateSessionIsLast, FlagBeforeEnd,
           OpenSessionIsRead, CloseEndsSession
<1>. QED BY <1>1, <1>2, <1>3

(* Every step keeps the invariant. *)
LEMMA NextIInv == IInv /\ [Next]_vars => IInv'
<1>. SUFFICES ASSUME IInv, [Next]_vars PROVE IInv' OBVIOUS
<1>1. CASE Next
    BY <1>1, RedialIInv, SessionIInv, CloseIInv, RecvIInv, TakeIInv DEF Next, Loop
<1>2. CASE UNCHANGED vars
    BY <1>2 DEF vars, streamvars, datavars, IInv, DownlinkInv, TypeOK, STypeOK, InOrder,
                SetupCountsPending, AtMostOneLateSession, LateSessionIsLast,
                FlagBeforeEnd, OpenSessionIsRead, CloseEndsSession
<1>. QED BY <1>1, <1>2

(* The invariant of a downlink stream holds in every state. *)
LEMMA IInvHolds == Spec => []IInv
BY InitIInv, NextIInv, PTL DEF Spec

-----------------------------------------------------------------------------
(* The WaitGroup of a downlink stream counts exactly the session that is   *)
(* being set up; a closed stream opens at most one more, its last; every   *)
(* open session has its reader; and the consumer gets the messages in the  *)
(* order of the router, none twice, over any number of sessions.           *)
THEOREM DownlinkCorrect == Spec => []DownlinkInv
<1>1. IInv => DownlinkInv BY DEF IInv
<1>. QED BY <1>1, IInvHolds, PTL

(* Once Close has returned, a session that is open was opened after it had *)
(* set closing: Close ends the session it finds.                           *)
THEOREM ClosedSessionsEnd == Spec => []CloseEndsSession
<1>1. IInv => CloseEndsSession BY DEF IInv
<1>. QED BY <1>1, IInvHolds, PTL

-----------------------------------------------------------------------------
(* A message that is buffered is accepted by the queue, one that is taken  *)
(* is delivered, and every other step leaves the queue unchanged.          *)
LEMMA StepImplements ==
    ASSUME IInv, [Next]_vars
    PROVE  [Queue!QNext]_(Queue!qvars)
<1>. USE DEF IInv, DownlinkInv, Queue!qvars
<1>1. CASE Recv
    <2>1. CASE UNCHANGED ch BY <1>1, <2>1 DEF Recv
    <2>2. CASE Len(ch) < BufferSize /\ ch' = Append(ch, received + 1)
        <3>1. received + 1 \in Message BY <1>1, DownlinkAssumption DEF Recv, TypeOK, Message
        <3>2. Queue!Accept(received + 1) BY <1>1, <2>2 DEF Recv, Queue!Accept
        <3>. QED BY <3>1, <3>2 DEF Queue!QNext
    <2>. QED BY <1>1, <2>1, <2>2 DEF Recv
<1>2. CASE Take
    <2>1. Queue!Deliver BY <1>2 DEF Take, Queue!Deliver
    <2>. QED BY <2>1 DEF Queue!QNext
<1>3. CASE Redial \/ CloseBegins \/ SessionBreaks
    BY <1>3 DEF Redial, CloseBegins, SessionBreaks, datavars
<1>4. CASE RecvError \/ CloseChannel \/ CloseCancel
    BY <1>4 DEF RecvError, CloseChannel, CloseCancel, datavars
<1>5. CASE UNCHANGED vars BY <1>5 DEF vars, datavars
<1>. QED BY <1>1, <1>2, <1>3, <1>4, <1>5 DEF Next, Loop, Close

(* A downlink stream implements LossyQueue with its buffer as the queue    *)
(* and the consumer as the other end.                                      *)
THEOREM DownlinkIsLossyQueue == Spec => ImplementsQueue
<1>1. Init => Queue!QInit
    BY DEF Init, Queue!QInit
<1>2. IInv /\ [Next]_vars => [Queue!QNext]_(Queue!qvars)
    BY StepImplements
<1>. QED BY <1>1, <1>2, IInvHolds, PTL DEF Spec, ImplementsQueue, Queue!QSpec

-----------------------------------------------------------------------------
(* The channel is closed by the last thing that the goroutine does. *)
ClosedInv == chClosed <=> loop = "exited"

(* Only the goroutine closes the channel, and it ends with that. *)
LEMMA NextClosedInv ==
    ASSUME IInv, ClosedInv, [Next]_vars
    PROVE  ClosedInv'
<1>1. chClosed \in BOOLEAN /\ STypeOK BY DEF IInv, DownlinkInv, TypeOK
<1>2. CASE Redial
    <2>1. loop # "exited" /\ loop' # "exited" /\ chClosed' = chClosed
        BY <1>2 DEF Redial, Open, Refused, Stopped, BackOff, Retry, CheckClosing, datavars
    <2>. QED BY <1>1, <2>1 DEF ClosedInv
<1>3. CASE RecvError
    BY <1>1, <1>3 DEF RecvError, ClosedInv, datavars
<1>4. CASE CloseChannel BY <1>4 DEF CloseChannel, ClosedInv
<1>5. CASE Recv \/ Take BY <1>1, <1>5 DEF Recv, Take, streamvars, ClosedInv
<1>6. CASE Close \/ SessionBreaks
    <2>1. loop' = loop /\ chClosed' = chClosed
        BY <1>6 DEF Close, CloseBegins, CloseCall, CloseWakes, CloseFlag, ClientClose,
                    CloseCancel, SessionBreaks, SessionEnds, datavars
    <2>. QED BY <1>1, <2>1 DEF ClosedInv
<1>7. CASE UNCHANGED vars BY <1>1, <1>7 DEF vars, streamvars, datavars, ClosedInv
<1>. QED BY <1>2, <1>3, <1>4, <1>5, <1>6, <1>7 DEF Next, Loop

(* What the consumer of a subscription relies on when it ranges over the   *)
(* channel: once closed it is never sent on nor closed again, either of    *)
(* which would panic, and what it still holds only drains, oldest first.   *)
ClosedForGood ==
    [][chClosed =>
         /\ chClosed' /\ loop' = "exited" /\ received' = received
         /\ \/ ch' = ch
            \/ ch # <<>> /\ ch' = Tail(ch)]_vars

(* However often the stream is closed, however the sessions end and        *)
(* whatever the router still sends, the channel is closed for good.        *)
THEOREM ChannelClosedForGood == Spec => ClosedForGood
<1>1. Init => ClosedInv BY DEF Init, SInit, ClosedInv
<1>. DEFINE Drains ==
        /\ chClosed' /\ loop' = "exited" /\ received' = received
        /\ \/ ch' = ch
           \/ ch # <<>> /\ ch' = Tail(ch)
<1>2. ASSUME IInv, ClosedInv, [Next]_vars PROVE [chClosed => Drains]_vars
    <2>. SUFFICES ASSUME Next, chClosed PROVE Drains BY <1>2
    <2>1. loop = "exited" /\ ClosedInv' BY <1>2, NextClosedInv DEF ClosedInv
    <2>2. ~Redial /\ ~Recv /\ ~RecvError /\ ~CloseChannel
        BY <2>1 DEF Redial, Open, Refused, Stopped, BackOff, Retry, CheckClosing, Recv,
                    RecvError, CloseChannel
    <2>3. CASE Take BY <2>1, <2>3 DEF Take, streamvars
    <2>4. CASE Close \/ SessionBreaks
        BY <2>1, <2>4 DEF Close, CloseBegins, CloseCall, CloseWakes, CloseFlag, ClientClose,
                    CloseCancel, SessionBreaks, SessionEnds, datavars
    <2>. QED BY <2>2, <2>3, <2>4 DEF Next, Loop
<1>3. IInv /\ ClosedInv /\ [Next]_vars => ClosedInv' BY NextClosedInv
<1>4. Spec => []ClosedInv BY <1>1, <1>3, IInvHolds, PTL DEF Spec
<1>5. IInv /\ ClosedInv /\ [Next]_vars => [chClosed => Drains]_vars BY <1>2
<1>. QED BY <1>4, <1>5, IInvHolds, PTL DEF Spec, ClosedForGood
=============================================================================
