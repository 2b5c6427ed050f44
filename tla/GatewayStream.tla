---------------------------- MODULE GatewayStream ----------------------------
(***************************************************************************)
(* What the three streams of client_streams.go have in common: a goroutine *)
(* that opens a session at the router again and again, with a pause after  *)
(* every failure, and a Close that waits until no session is being set up, *)
(* sets the flag closing and ends the session.                             *)
(*                                                                         *)
(* The pause is only a step: retries and the length of the back-off do not *)
(* decide anything.  The router is external: a session may be refused, and *)
(* an open one may end at any time.  After client.Close gRPC may answer an *)
(* attempt in any of three ways: Canceled; Unavailable or                  *)
(* FailedPrecondition, looked at before the context when the connection is *)
(* failing or closed; or a session that ends at once, because NewStream    *)
(* selects among the canceled context and a transport that is ready.       *)
(***************************************************************************)
EXTENDS Integers, Sequences

VARIABLES
    proc,      \* the process: running, or ended by one of two panics
    loop,      \* where the stream's goroutine is
    sess,      \* the session at the router: none, open, halfclosed or ended
    setup,     \* gatewayStream.setup, the counter of the WaitGroup
    closing,   \* gatewayStream.closing
    closer,    \* where Close is
    canceled,  \* the context of the gateway's client is canceled
    late       \* history: sessions opened after closing was set

streamvars == <<proc, loop, sess, setup, closing, closer, canceled, late>>

(* The program points every stream has; "session" stands for its own ones. *)
LoopPoints == {"start", "refused", "sleep", "session", "check", "exited"}
CloserPoints == {"no", "wait", "woken", "flag", "end", "done"}

STypeOK ==
    /\ proc \in {"running", "reusePanic", "sendPanic"}
    /\ sess \in {"none", "open", "halfclosed", "ended"}
    /\ setup \in 0 .. 1
    /\ closing \in BOOLEAN
    /\ closer \in CloserPoints
    /\ canceled \in BOOLEAN
    /\ late \in Nat

(* setup.Add(1), then the goroutine starts. *)
SInit ==
    /\ proc = "running"
    /\ loop = "start"
    /\ sess = "none"
    /\ setup = 1
    /\ closing = FALSE
    /\ closer = "no"
    /\ canceled = FALSE
    /\ late = 0

Running == proc = "running"

(* setup.Done(): the counter reaching zero wakes a Close that waits. *)
SetupDone ==
    /\ setup' = setup - 1
    /\ closer' = IF setup = 1 /\ closer = "wait" THEN "woken" ELSE closer

(* The session is opened. *)
Open ==
    /\ Running
    /\ loop = "start"
    /\ SetupDone
    /\ sess' = "open"
    /\ loop' = "session"
    /\ late' = IF closing THEN late + 1 ELSE late
    /\ UNCHANGED <<proc, closing, canceled>>

(* The session is refused with another code than Canceled, as it is while  *)
(* the router is not reachable, also after client.Close.                   *)
Refused ==
    /\ Running
    /\ loop = "start"
    /\ SetupDone
    /\ loop' = "refused"
    /\ UNCHANGED <<proc, sess, closing, canceled, late>>

(* Mutant: Canceled is taken for a passing failure, and tried again after  *)
(* a pause.                                                                *)
StoppedPauses(last) ==
    /\ Running
    /\ loop = "start"
    /\ canceled
    /\ loop' = "sleep"
    /\ UNCHANGED <<proc, sess, setup, closing, closer, canceled, late>>

(* Canceled, which only a closed client gets: the goroutine goes to its    *)
(* last point.                                                             *)
Stopped(last) ==
    /\ Running
    /\ loop = "start"
    /\ canceled
    /\ SetupDone
    /\ loop' = last
    /\ UNCHANGED <<proc, sess, closing, canceled, late>>

(* Mutant: setup.Add(1) is forgotten before the back-off. *)
BackOffNoAdd ==
    /\ Running
    /\ loop = "refused"
    /\ loop' = "sleep"
    /\ UNCHANGED <<proc, sess, setup, closing, closer, canceled, late>>

(* setup.Add(1) and the pause after a refusal.  closing is not looked at. *)
BackOff ==
    /\ Running
    /\ loop = "refused"
    /\ setup' = setup + 1
    /\ loop' = "sleep"
    /\ UNCHANGED <<proc, sess, closing, closer, canceled, late>>

(* Mutant: the pause is ended by closing, not by its timer. *)
RetryWhenClosing ==
    /\ Running
    /\ loop = "sleep"
    /\ closing
    /\ loop' = "start"
    /\ UNCHANGED <<proc, sess, setup, closing, closer, canceled, late>>

(* The pause is over. *)
Retry ==
    /\ Running
    /\ loop = "sleep"
    /\ loop' = "start"
    /\ UNCHANGED <<proc, sess, setup, closing, closer, canceled, late>>

(* Mutant: closing is not looked at after a session. *)
CheckClosingNot(last) ==
    /\ Running
    /\ loop = "check"
    /\ loop' = "sleep"
    /\ setup' = setup + 1
    /\ UNCHANGED <<proc, sess, closing, closer, canceled, late>>

(* After a session: if s.closing { break }, or setup.Add(1) and the pause. *)
CheckClosing(last) ==
    /\ Running
    /\ loop = "check"
    /\ \/ closing /\ loop' = last /\ UNCHANGED setup
       \/ ~closing /\ loop' = "sleep" /\ setup' = setup + 1
    /\ UNCHANGED <<proc, sess, closing, closer, canceled, late>>

(* The router ends the session, the connection breaks, or the context of   *)
(* the session is canceled.                                                *)
SessionEnds ==
    /\ Running
    /\ sess \in {"open", "halfclosed"}
    /\ sess' = "ended"
    /\ UNCHANGED <<proc, loop, setup, closing, closer, canceled, late>>

-----------------------------------------------------------------------------
(* Close, up to the statement that differs between the streams. *)

(* setup.Wait().  before are the points from which Close may be called. *)
CloseCall(before) ==
    /\ Running
    /\ closer \in before
    /\ closer' = IF setup = 0 THEN "flag" ELSE "wait"
    /\ UNCHANGED <<proc, loop, sess, setup, closing, canceled, late>>

(* A Wait that was woken looks at the counter again: if the goroutine has  *)
(* called Add in between, sync.WaitGroup panics ("reused before previous   *)
(* Wait has returned").                                                    *)
CloseWakes ==
    /\ Running
    /\ closer = "woken"
    /\ \/ setup = 0 /\ closer' = "flag" /\ UNCHANGED proc
       \/ setup # 0 /\ proc' = "reusePanic" /\ UNCHANGED closer
    /\ UNCHANGED <<loop, sess, setup, closing, canceled, late>>

CloseFlag ==
    /\ Running
    /\ closer = "flag"
    /\ closing' = TRUE
    /\ closer' = "end"
    /\ UNCHANGED <<proc, loop, sess, setup, canceled, late>>

(* gtw.Close ends with client.Close. *)
ClientClose ==
    /\ Running
    /\ closer = "done"
    /\ ~canceled
    /\ canceled' = TRUE
    /\ UNCHANGED <<proc, loop, sess, setup, closing, closer, late>>

-----------------------------------------------------------------------------
(* The WaitGroup counts the session that is being set up, or waited for in *)
(* a back-off: it never goes below zero, which would panic, and a stream   *)
(* whose goroutine has ended never makes Close wait.                       *)
SetupCountsPending == setup = IF loop \in {"start", "sleep"} THEN 1 ELSE 0

(* A closed stream opens at most one more session: the one that was due in *)
(* a back-off when Close set closing, which the error path does not read.  *)
AtMostOneLateSession == late <= 1

(* The session a closed stream still opens is its last: the goroutine is   *)
(* in it or behind it, never on the way to another one.                    *)
LateSessionIsLast == late > 0 => closing /\ loop \notin {"start", "refused", "sleep"}

(* Close ends a session only after it has set closing. *)
FlagBeforeEnd == closer \in {"end", "done"} => closing

(* Messages in the order of their numbers, none twice, up to number n. *)
Rising(s, n) ==
    /\ \A i, j \in DOMAIN s : i < j => s[i] < s[j]
    /\ \A i \in DOMAIN s : s[i] <= n

(* Close returns: it waits for one attempt to open a session at most. *)
CloseReturns == (closer = "wait") ~> (closer = "done" \/ ~Running)
=============================================================================
