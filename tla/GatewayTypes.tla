---------------------------- MODULE GatewayTypes ----------------------------
(***************************************************************************)
(* The data of the gateway registry: what gateway/backend.go keeps for     *)
(* every gateway that announced itself with a PULL_DATA packet.            *)
(*                                                                         *)
(* The code stores the wall-clock instant of the last PULL_DATA and        *)
(* compares it with the clock at every cleanup; only the difference        *)
(* matters, so the model stores the AGE of the entry, in ticks.  An age is *)
(* no longer counted once the entry is older than the cleanup duration,    *)
(* because every older entry is treated alike.                             *)
(***************************************************************************)
EXTENDS Integers

CONSTANTS
    MAC,         \* gateway identifiers (EUI64)
    Addr,        \* UDP source addresses
    Version,     \* supported protocol versions
    CleanupAge,  \* gatewayCleanupDuration (one minute), in clock ticks
    NoGateway    \* the answer of the map for an unknown MAC

ASSUME CleanupAgeAssumption == CleanupAge \in Nat \ {0}

Ages == 0 .. (CleanupAge + 1)

Gateway == [addr : Addr, version : Version, age : Ages]

ASSUME NoGatewayAssumption == NoGateway \notin Gateway

(* The clock advances by one tick. *)
Older(g) == [g EXCEPT !.age = IF g.age > CleanupAge THEN g.age ELSE g.age + 1]

(* lastSeen.Before(time.Now().Add(gatewayCleanupDuration)) *)
Expired(g) == g.age > CleanupAge

(* The map of gateways one tick later, and its keys. *)
OlderMap(map) == [m \in MAC |-> IF map[m] = NoGateway THEN NoGateway
                                                      ELSE Older(map[m])]
Keys(map) == {m \in MAC : map[m] # NoGateway}
ExpiredKeys(map) == {m \in Keys(map) : Expired(map[m])}
=============================================================================
