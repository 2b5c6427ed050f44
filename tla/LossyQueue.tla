----------------------------- MODULE LossyQueue -----------------------------
(***************************************************************************)
(* What the router streams of the network server promise about messages:   *)
(* a bounded queue that may lose its oldest message, or refuse a new one,  *)
(* but never invents, repeats or reorders one.  Both directions implement  *)
(* it: UplinkStream with the messages the bridge sends, DownlinkStream     *)
(* with those it receives.                                                 *)
(***************************************************************************)
EXTENDS Integers, Sequences

CONSTANTS
    Message,   \* the messages
    Capacity   \* how many may be under way

VARIABLES
    queue,     \* the messages under way, oldest first
    out        \* the messages delivered, oldest first

qvars == <<queue, out>>

QInit ==
    /\ queue = <<>>
    /\ out = <<>>

Accept(m) ==
    /\ Len(queue) < Capacity
    /\ queue' = Append(queue, m)
    /\ UNCHANGED out

Deliver ==
    /\ queue # <<>>
    /\ queue' = Tail(queue)
    /\ out' = Append(out, Head(queue))

Lose ==
    /\ queue # <<>>
    /\ queue' = Tail(queue)
    /\ UNCHANGED out

QNext == (\E m \in Message : Accept(m)) \/ Deliver \/ Lose

QSpec == QInit /\ [][QNext]_qvars
=============================================================================
