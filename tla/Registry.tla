------------------------------ MODULE Registry ------------------------------
(***************************************************************************)
(* What the gateway registry promises to the rest of the bridge, without   *)
(* its lock: a gateway is known together with the downlink subscription    *)
(* that serves it, a later PULL_DATA replaces its route and nothing else,  *)
(* and only gateways that stayed silent for longer than the cleanup        *)
(* duration are forgotten.  Gateways.tla, the registry with its lock and   *)
(* its callbacks, implements this specification.                           *)
(***************************************************************************)
EXTENDS GatewayTypes

VARIABLES
    route,      \* MAC -> the gateway's address, version and age
    subscribed  \* the MACs with a downlink subscription at the network server

rvars == <<route, subscribed>>

RTypeOK ==
    /\ route \in [MAC -> Gateway \cup {NoGateway}]
    /\ subscribed \subseteq MAC

RInit ==
    /\ route = [m \in MAC |-> NoGateway]
    /\ subscribed = {}

(* gateways.set succeeding for a MAC that is not in the map *)
New(m, g) ==
    /\ m \notin Keys(route)
    /\ route' = [route EXCEPT ![m] = g]
    /\ subscribed' = subscribed \cup {m}

(* gateways.set for a MAC that is in the map: onNew is not called *)
Refresh(m, g) ==
    /\ m \in Keys(route)
    /\ route' = [route EXCEPT ![m] = g]
    /\ UNCHANGED subscribed

Put(m, g) == New(m, g) \/ Refresh(m, g)

(* gateways.cleanup removing an entry after its onDelete succeeded *)
Forget(m) ==
    /\ m \in ExpiredKeys(route)
    /\ route' = [route EXCEPT ![m] = NoGateway]
    /\ subscribed' = subscribed \ {m}

Tick ==
    /\ route' = OlderMap(route)
    /\ UNCHANGED subscribed

RNext ==
    \/ \E m \in MAC, g \in Gateway : Put(m, g)
    \/ \E m \in MAC : Forget(m)
    \/ Tick

RSpec == RInit /\ [][RNext]_rvars
=============================================================================
