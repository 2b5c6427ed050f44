-------------------------- MODULE MCGatewayBackend --------------------------
(* The UDP backend with one gateway, two addresses and a few datagrams. *)
EXTENDS GatewayBackend, TLC

CONSTANTS m1, v1, v2

Pull(v, ok) == [type |-> "PULL_DATA", version |-> v, token |-> 1, mac |-> m1,
                unmarshals |-> ok, stat |-> FALSE, rxpk |-> <<>>]
Push(ok, st, rx) == [type |-> "PUSH_DATA", version |-> v1, token |-> 2, mac |-> m1,
                     unmarshals |-> ok, stat |-> st, rxpk |-> rx]

Good == [converts |-> TRUE, stat |-> 1]
BadCRC == [converts |-> TRUE, stat |-> -1]
NoCRC == [converts |-> TRUE, stat |-> 0]
Garbled == [converts |-> FALSE, stat |-> 1]

(* Every kind of datagram the handlers treat differently. *)
Datagrams ==
    {Pull(v1, TRUE), Pull(v2, TRUE), Pull(v1, FALSE), Pull(BadVersion, TRUE),
     Push(TRUE, TRUE, <<>>), Push(TRUE, TRUE, <<Good, BadCRC, Good>>),
     Push(TRUE, FALSE, <<Good, Good>>), Push(TRUE, FALSE, <<Garbled, Good>>),
     Push(TRUE, FALSE, <<NoCRC>>), Push(FALSE, FALSE, <<>>),
     [Pull(v1, TRUE) EXCEPT !.type = "TX_ACK"],
     [Pull(v1, TRUE) EXCEPT !.type = "other"]}

(* The datagrams that reach udpSendChan. *)
FewDatagrams ==
    {Pull(v1, TRUE), Push(TRUE, TRUE, <<Good, BadCRC, Good>>)}

Symmetry == Permutations(Goroutine)
=============================================================================
