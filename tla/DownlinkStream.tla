---------------------------- MODULE DownlinkStream ----------------------------
(***************************************************************************)
(* A monitored downlink stream: its goroutine subscribes at the router,    *)
(* puts every message it receives into a buffered channel or drops it, and *)
(* closes the channel when it ends.  UnSubscribeGatewayTX closes the       *)
(* stream and so does, a second time, the shutdown of the bridge.          *)
(*                                                                         *)
(* Messages are numbered in the order in which the router sends them.      *)
(* s.cancel is assigned together with every new session, so the function   *)
(* that Close calls ends the session that is open at that moment, if any.  *)
(***************************************************************************)
EXTENDS GatewayStream

CONSTANTS
    BufferSize,  \* DefaultBufferSize
    MaxRecv      \* bound on the messages the router sends

ASSUME DownlinkAssumption == BufferSize \in Nat \ {0} /\ MaxRecv \in Nat

Message == 1 .. MaxRecv

VARIABLES
    ch,        \* downlinkStream.ch
    chClosed,  \* downlinkStream.ch is closed
    received,  \* messages received so far
    taken      \* history: the messages read from Channel()

datavars == <<ch, chClosed, received, taken>>
vars == <<streamvars, datavars>>

(* Every variable stays in its type; the buffer never overflows. *)
TypeOK ==
    /\ STypeOK
    /\ loop \in LoopPoints \cup {"close"}
    /\ ch \in Seq(Message) /\ Len(ch) <= BufferSize
    /\ chClosed \in BOOLEAN
    /\ received \in 0 .. MaxRecv
    /\ taken \in Seq(Message)

Init ==
    /\ SInit
    /\ ch = <<>>
    /\ chClosed = FALSE
    /\ received = 0
    /\ taken = <<>>

-----------------------------------------------------------------------------
(* The goroutine of the stream. *)

Redial ==
    /\ \/ Open \/ Refused \/ Stopped("close") \/ BackOff \/ Retry
       \/ CheckClosing("close")
    /\ UNCHANGED datavars

(* Mutant: a full buffer makes room for the new message. *)
RecvReplaces ==
    /\ Running
    /\ loop = "session"
    /\ received < MaxRecv
    /\ received' = received + 1
    /\ \/ Len(ch) < BufferSize /\ ch' = Append(ch, received')
       \/ Len(ch) = BufferSize /\ ch' = [ch EXCEPT ![BufferSize] = received']
    /\ UNCHANGED <<streamvars, chClosed, taken>>

(* client.Recv returns a message, which may have arrived before the        *)
(* session ended; it goes into the buffer or is dropped.                   *)
Recv ==
    /\ Running
    /\ loop = "session"
    /\ received < MaxRecv
    /\ received' = received + 1
    /\ \/ Len(ch) < BufferSize /\ ch' = Append(ch, received')
       \/ Len(ch) = BufferSize /\ UNCHANGED ch
    /\ UNCHANGED <<streamvars, chClosed, taken>>

RecvError ==
    /\ Running
    /\ loop = "session"
    /\ sess = "ended"
    /\ loop' = "check"
    /\ UNCHANGED <<proc, sess, setup, closing, closer, canceled, late, datavars>>

CloseChannel ==
    /\ Running
    /\ loop = "close"
    /\ chClosed' = TRUE
    /\ loop' = "exited"
    /\ UNCHANGED <<proc, sess, setup, closing, closer, canceled, late,
                   ch, received, taken>>

(* The consumer of SubscribeGatewayTX takes a message. *)
Take ==
    /\ Running
    /\ ch # <<>>
    /\ ch' = Tail(ch)
    /\ taken' = Append(taken, Head(ch))
    /\ UNCHANGED <<streamvars, chClosed, received>>

-----------------------------------------------------------------------------
(* Close may be called again: UnSubscribeGatewayTX leaves the stream in    *)
(* its gateway, and gtw.Close closes it once more.                         *)
CloseBegins ==
    /\ CloseCall({"no", "done"}) \/ CloseWakes \/ CloseFlag \/ ClientClose
    /\ UNCHANGED datavars

(* Mutant: cancel is not called. *)
CloseCancelNot ==
    /\ Running
    /\ closer = "end"
    /\ closer' = "done"
    /\ UNCHANGED <<proc, loop, sess, setup, closing, canceled, late, datavars>>

CloseCancel ==
    /\ Running
    /\ closer = "end"
    /\ sess' = IF sess = "open" THEN "ended" ELSE sess
    /\ closer' = "done"
    /\ UNCHANGED <<proc, loop, setup, closing, canceled, late, datavars>>

SessionBreaks == SessionEnds /\ UNCHANGED datavars

Loop == Redial \/ Recv \/ RecvError \/ CloseChannel
Close == CloseBegins \/ CloseCancel

Next == Loop \/ Take \/ Close \/ SessionBreaks

Spec == Init /\ [][Next]_vars

(***************************************************************************)
(* Fairness: the goroutine runs when it can, an attempt to open a session  *)
(* ends one way or the other, a Close that has begun goes on, and a        *)
(* canceled context ends the session.  Nothing makes the router send or    *)
(* break, or anybody call Close.                                           *)
(***************************************************************************)
FairSpec ==
    /\ Spec
    /\ WF_vars(Redial \/ RecvError \/ CloseChannel)
    /\ WF_vars(closer \notin {"no", "done"} /\ Close)
    /\ WF_vars(canceled /\ SessionBreaks)

-----------------------------------------------------------------------------
(* A session that is open has its reader: the goroutine never leaves one   *)
(* behind when it goes on to a back-off, or when it ends.                  *)
OpenSessionIsRead == sess = "open" => loop = "session"

(* The consumer gets the messages in the order of the router, each at most *)
(* once, and those that wait in the buffer come after those it has taken.  *)
InOrder == Rising(taken \o ch, received)

(* The type of the variables, the WaitGroup, at most one session of a      *)
(* closed stream, a reader for every session, and the order of messages.   *)
DownlinkInv ==
    /\ TypeOK
    /\ SetupCountsPending
    /\ AtMostOneLateSession /\ LateSessionIsLast /\ FlagBeforeEnd
    /\ OpenSessionIsRead
    /\ InOrder

(* Close ends the session that is open: one that is open afterwards was    *)
(* opened later, after a back-off that Close did not see.                  *)
CloseEndsSession == (closer = "done" /\ sess = "open") => late > 0

(* The stream is a lossy queue from the router to the consumer: a full     *)
(* buffer drops the newest message, and nothing is reordered or repeated   *)
(* over any number of sessions.                                            *)
Queue == INSTANCE LossyQueue WITH
    Capacity <- BufferSize, queue <- ch, out <- taken
ImplementsQueue == Queue!QSpec

(* Once the client is closed the goroutine ends and closes the channel, so *)
(* that the consumer of the subscription ends too, unless its attempts to  *)
(* subscribe are refused for ever: closing is only looked at after a       *)
(* session, and only Canceled ends the goroutine without one.              *)
CanceledStreamEnds ==
    <>[](loop # "refused") => (canceled ~> (chClosed \/ ~Running))
=============================================================================
