----------------------------- MODULE UplinkStream -----------------------------
(***************************************************************************)
(* A monitored uplink stream, and the status stream, which is the same     *)
(* code: Send puts a message into a buffered channel or drops it.  For     *)
(* every session the goroutine of the stream starts a goroutine that waits *)
(* for an error and one that sends; it hands messages from the buffer to   *)
(* the sender over an unbuffered channel until the error arrives or the    *)
(* buffer is closed.                                                       *)
(*                                                                         *)
(* Messages are numbered in the order of the calls of Send.                *)
(***************************************************************************)
EXTENDS GatewayStream

CONSTANTS
    BufferSize,  \* DefaultBufferSize
    MaxSend      \* bound on the calls of Send

ASSUME UplinkAssumption == BufferSize \in Nat \ {0} /\ MaxSend \in Nat

Message == 1 .. MaxSend

VARIABLES
    ch,        \* uplinkStream.ch
    chClosed,  \* uplinkStream.ch is closed
    hand,      \* the message the goroutine hands over, if any
    snd,       \* the sender of the session: running or ended
    wire,      \* the message inside client.Send, if any
    errg,      \* the error goroutine: none, recv, send (on errCh) or closed
    sends,     \* calls of Send so far
    sent       \* history: the messages client.Send accepted

datavars == <<ch, chClosed, hand, snd, wire, errg, sends, sent>>
vars == <<streamvars, datavars>>

MessageOrNone == {<<>>} \cup {<<m>> : m \in Message}

(* Every variable stays in its type; the buffer never overflows. *)
TypeOK ==
    /\ STypeOK
    /\ loop \in LoopPoints \cup {"hand", "drain", "closerecv"}
    /\ ch \in Seq(Message) /\ Len(ch) <= BufferSize
    /\ chClosed \in BOOLEAN
    /\ hand \in MessageOrNone
    /\ snd \in {"running", "ended"}
    /\ wire \in MessageOrNone
    /\ errg \in {"none", "recv", "send", "closed"}
    /\ sends \in 0 .. MaxSend
    /\ sent \in Seq(Message)

Init ==
    /\ SInit
    /\ ch = <<>>
    /\ chClosed = FALSE
    /\ hand = <<>>
    /\ snd = "ended"
    /\ wire = <<>>
    /\ errg = "none"
    /\ sends = 0
    /\ sent = <<>>

-----------------------------------------------------------------------------
(* Send: it never blocks, and panics on a closed channel. *)

(* Mutant: of a full buffer the latest message makes room for the new one. *)
SendReplaces ==
    /\ Running
    /\ sends < MaxSend
    /\ sends' = sends + 1
    /\ \/ ~chClosed /\ Len(ch) < BufferSize
          /\ ch' = Append(ch, sends') /\ UNCHANGED proc
       \/ ~chClosed /\ Len(ch) = BufferSize
          /\ ch' = [ch EXCEPT ![BufferSize] = sends'] /\ UNCHANGED proc
       \/ chClosed /\ proc' = "sendPanic" /\ UNCHANGED ch
    /\ UNCHANGED <<loop, sess, setup, closing, closer, canceled, late,
                   chClosed, hand, snd, wire, errg, sent>>

Send ==
    /\ Running
    /\ sends < MaxSend
    /\ sends' = sends + 1
    /\ \/ ~chClosed /\ Len(ch) < BufferSize
          /\ ch' = Append(ch, sends') /\ UNCHANGED proc
       \/ ~chClosed /\ Len(ch) = BufferSize /\ UNCHANGED <<ch, proc>>
       \/ chClosed /\ proc' = "sendPanic" /\ UNCHANGED ch
    /\ UNCHANGED <<loop, sess, setup, closing, closer, canceled, late,
                   chClosed, hand, snd, wire, errg, sent>>

-----------------------------------------------------------------------------
(* The goroutine of the stream. *)

(* A session begins with its two goroutines.  A sender of the session      *)
(* before that is still inside client.Send can only fail now.              *)
Session ==
    /\ Open
    /\ snd' = "running"
    /\ wire' = <<>>
    /\ errg' = "recv"
    /\ UNCHANGED <<ch, chClosed, hand, sends, sent>>

(* The steps that only concern the set-up of sessions. *)
Redial ==
    /\ Refused \/ Stopped("exited") \/ BackOff \/ Retry \/ CheckClosing("exited")
    /\ UNCHANGED datavars

(* select: a message from the buffer, then the send to the session's       *)
(* sender.                                                                 *)
MonitorMessage ==
    /\ Running
    /\ loop = "session"
    /\ ch # <<>>
    /\ hand' = <<Head(ch)>>
    /\ ch' = Tail(ch)
    /\ loop' = "hand"
    /\ UNCHANGED <<proc, sess, setup, closing, closer, canceled, late,
                   chClosed, snd, wire, errg, sends, sent>>

(* ch <- msg: the sender of the session takes it, when it is not busy.     *)
HandOver ==
    /\ Running
    /\ loop = "hand"
    /\ snd = "running"
    /\ wire = <<>>
    /\ wire' = hand
    /\ hand' = <<>>
    /\ loop' = "session"
    /\ UNCHANGED <<proc, sess, setup, closing, closer, canceled, late,
                   ch, chClosed, snd, errg, sends, sent>>

(* select: an error, or the closed errCh of a session that was answered.   *)
MonitorError ==
    /\ Running
    /\ loop = "session"
    /\ errg \in {"send", "closed"}
    /\ errg' = "closed"
    /\ loop' = "drain"
    /\ UNCHANGED <<proc, sess, setup, closing, closer, canceled, late,
                   ch, chClosed, hand, snd, wire, sends, sent>>

(* select: the buffer is empty and closed. *)
MonitorClosed ==
    /\ Running
    /\ loop = "session"
    /\ chClosed
    /\ ch = <<>>
    /\ loop' = "drain"
    /\ UNCHANGED <<proc, sess, setup, closing, closer, canceled, late, datavars>>

(* close(ch) ends a sender that is not busy; client.CloseAndRecv sends the *)
(* end of the stream and waits for the answer.                             *)
EndSession ==
    /\ Running
    /\ loop = "drain"
    /\ snd' = IF wire = <<>> THEN "ended" ELSE snd
    /\ sess' = IF sess = "open" THEN "halfclosed" ELSE sess
    /\ loop' = "closerecv"
    /\ UNCHANGED <<proc, setup, closing, closer, canceled, late,
                   ch, chClosed, hand, wire, errg, sends, sent>>

CloseAndRecvReturns ==
    /\ Running
    /\ loop = "closerecv"
    /\ sess = "ended"
    /\ loop' = "check"
    /\ UNCHANGED <<proc, sess, setup, closing, closer, canceled, late, datavars>>

-----------------------------------------------------------------------------
(* The two goroutines of a session. *)

SendOk ==
    /\ Running
    /\ wire # <<>>
    /\ sess = "open"
    /\ sent' = sent \o wire
    /\ wire' = <<>>
    /\ UNCHANGED <<streamvars, ch, chClosed, hand, snd, errg, sends>>

(* client.Send fails: the sender ends, and nobody reads its channel. *)
SendFails ==
    /\ Running
    /\ wire # <<>>
    /\ sess # "open"
    /\ wire' = <<>>
    /\ snd' = "ended"
    /\ UNCHANGED <<streamvars, ch, chClosed, hand, errg, sends, sent>>

(* RecvMsg returns: with an error, which goes to errCh, or with the answer *)
(* of the router.                                                          *)
RecvReturns ==
    /\ Running
    /\ errg = "recv"
    /\ sess = "ended"
    /\ errg' \in {"send", "closed"}
    /\ UNCHANGED <<streamvars, ch, chClosed, hand, snd, wire, sends, sent>>

-----------------------------------------------------------------------------
(* Close is called once, by gtw.Close, and ends with close(s.ch). *)
CloseBegins ==
    /\ CloseCall({"no"}) \/ CloseWakes \/ CloseFlag \/ ClientClose
    /\ UNCHANGED datavars

CloseChan ==
    /\ Running
    /\ closer = "end"
    /\ chClosed' = TRUE
    /\ closer' = "done"
    /\ UNCHANGED <<proc, loop, sess, setup, closing, canceled, late,
                   ch, hand, snd, wire, errg, sends, sent>>

SessionBreaks == SessionEnds /\ UNCHANGED datavars

Loop ==
    \/ Session \/ Redial
    \/ MonitorMessage \/ HandOver \/ MonitorError \/ MonitorClosed
    \/ EndSession \/ CloseAndRecvReturns
Sender == SendOk \/ SendFails
Close == CloseBegins \/ CloseChan

Next == Send \/ Loop \/ Sender \/ RecvReturns \/ Close \/ SessionBreaks

Spec == Init /\ [][Next]_vars

(***************************************************************************)
(* Fairness: a goroutine that can run is run; an attempt to open a session *)
(* ends one way or the other; the router answers the end of a stream, and  *)
(* a canceled context ends it.  Close need not be called, sessions need    *)
(* not break, and Send need not be called.                                 *)
(***************************************************************************)
FairSpec ==
    /\ Spec
    /\ WF_vars(Loop)
    /\ WF_vars(Sender)
    /\ WF_vars(RecvReturns)
    /\ WF_vars(closer # "no" /\ Close)
    /\ WF_vars((canceled \/ sess = "halfclosed") /\ SessionBreaks)

-----------------------------------------------------------------------------
(* The goroutine hands a message to a sender that has ended: it waits for  *)
(* ever, and does not read errCh.                                          *)
Stuck == loop = "hand" /\ snd = "ended"

(* When the next session is set up, the error goroutine of the one before  *)
(* has delivered its error: only a session that ended because the buffer   *)
(* was closed may leave that goroutine behind, and it is the last one.     *)
ErrorsCollected ==
    /\ loop \in {"start", "refused", "sleep"} => errg \in {"none", "closed"}
    /\ loop \in {"drain", "closerecv", "check"} => errg = "closed" \/ chClosed
    /\ chClosed => closing

(* A session that is not over has its goroutine, which holds a message     *)
(* only while it waits for the sender.                                     *)
OpenSessionIsServed ==
    /\ sess \in {"open", "halfclosed"} =>
          loop \in {"session", "hand", "drain", "closerecv"}
    /\ hand # <<>> <=> loop = "hand"

(* The messages under way, oldest first: in client.Send, with the          *)
(* goroutine, and in the buffer.                                           *)
Underway == wire \o hand \o ch

(* The router gets the messages in the order of the calls of Send, each at *)
(* most once, and those under way come after those it has got.             *)
InOrder == Rising(sent \o Underway, sends)

(* The type of the variables, the WaitGroup, at most one session of a      *)
(* closed stream, no goroutine left behind by a session, and the order of  *)
(* the messages.                                                           *)
UplinkInv ==
    /\ TypeOK
    /\ SetupCountsPending
    /\ AtMostOneLateSession /\ LateSessionIsLast /\ FlagBeforeEnd
    /\ ErrorsCollected
    /\ OpenSessionIsServed
    /\ InOrder

(* The stream is a lossy queue from Send to the router: buffer, goroutine  *)
(* and sender hold the messages under way.  No message is sent twice or    *)
(* overtakes another one, over any number of sessions.                     *)
Queue == INSTANCE LossyQueue WITH
    Capacity <- BufferSize + 2, queue <- Underway, out <- sent
ImplementsQueue == Queue!QSpec

(* A closed stream ends, unless its goroutine is stuck with a message for  *)
(* a sender that has ended or its attempts to open a session are refused   *)
(* for ever, which the goroutine never gives up on.                        *)
ClosedStreamEnds ==
    <>[](loop # "refused") =>
        ((closer = "done") ~> (loop = "exited" \/ Stuck \/ ~Running))
=============================================================================
