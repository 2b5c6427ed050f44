-------------------------- MODULE Gateways_proofs ---------------------------
(* Proofs about Gateways, for any sets of gateways and goroutines. *)
EXTENDS Gateways, TLAPS

(* An entry one tick older is still an entry. *)
LEMMA OlderType ==
    ASSUME NEW g \in Gateway
    PROVE  /\ Older(g) \in Gateway
           /\ Expired(g) => Expired(Older(g))
BY CleanupAgeAssumption DEF Older, Gateway, Ages, Expired

(* A tick of the clock forgets no gateway, and no expired one recovers. *)
LEMMA OlderMapKeys ==
    ASSUME NEW map \in [MAC -> Gateway \cup {NoGateway}]
    PROVE  /\ OlderMap(map) \in [MAC -> Gateway \cup {NoGateway}]
           /\ Keys(OlderMap(map)) = Keys(map)
           /\ ExpiredKeys(map) \subseteq ExpiredKeys(OlderMap(map))
<1>1. ASSUME NEW m \in MAC
      PROVE  /\ OlderMap(map)[m] \in Gateway \cup {NoGateway}
             /\ OlderMap(map)[m] = NoGateway <=> map[m] = NoGateway
             /\ m \in ExpiredKeys(map) => Expired(OlderMap(map)[m])
    BY OlderType, NoGatewayAssumption DEF OlderMap, ExpiredKeys, Keys
<1>2. OlderMap(map) \in [MAC -> Gateway \cup {NoGateway}]
    BY <1>1 DEF OlderMap
<1>3. Keys(OlderMap(map)) = Keys(map)
    BY <1>1 DEF Keys
<1>4. ExpiredKeys(map) \subseteq ExpiredKeys(OlderMap(map))
    BY <1>1, <1>3 DEF ExpiredKeys, Keys
<1>. QED BY <1>2, <1>3, <1>4

(* Adding an entry to the map, and deleting one. *)
LEMMA StoreKeys ==
    ASSUME NEW map \in [MAC -> Gateway \cup {NoGateway}], NEW m \in MAC, NEW g \in Gateway
    PROVE  /\ [map EXCEPT ![m] = g] \in [MAC -> Gateway \cup {NoGateway}]
           /\ Keys([map EXCEPT ![m] = g]) = Keys(map) \cup {m}
BY NoGatewayAssumption DEF Keys

(* Deleting a gateway removes its key and no other. *)
LEMMA DeleteKeys ==
    ASSUME NEW map \in [MAC -> Gateway \cup {NoGateway}], NEW m \in MAC
    PROVE  /\ [map EXCEPT ![m] = NoGateway] \in [MAC -> Gateway \cup {NoGateway}]
           /\ Keys([map EXCEPT ![m] = NoGateway]) = Keys(map) \ {m}
           /\ ExpiredKeys([map EXCEPT ![m] = NoGateway]) = ExpiredKeys(map) \ {m}
BY DEF Keys, ExpiredKeys

-----------------------------------------------------------------------------
(* The invariant holds initially. *)
LEMMA InitIInv == Init => IInv
<1>. SUFFICES ASSUME Init PROVE IInv OBVIOUS
<1>. USE CleanupAgeAssumption, NoGatewayAssumption, GoroutineAssumption
<1>1. TypeOK BY DEF Init, TypeOK, NoCall, SetCalls, GetCalls
<1>2. LockInv BY DEF Init, LockInv, NoCall
<1>3. SubscriptionInv BY DEF Init, SubscriptionInv, Arriving, Leaving, NoCall, Keys
<1>4. PassInv BY DEF Init, PassInv, Keys
<1>. QED BY <1>1, <1>2, <1>3, <1>4 DEF IInv

(* A call of set begins. *)
LEMMA SetCallIInv ==
    ASSUME IInv, NEW s \in Setter, NEW m \in MAC, NEW a \in Addr, NEW v \in Version,
           SetCall(s, m, a, v)
    PROVE  IInv'
<1>. USE CleanupAgeAssumption, NoGatewayAssumption, GoroutineAssumption
<1>. USE DEF IInv, SetCall, lockvars, cleanvars
<1>1. TypeOK' BY DEF TypeOK, SetCalls, Gateway, Ages
<1>2. LockInv' BY DEF LockInv, TypeOK, NoCall, SetCalls
<1>3. SubscriptionInv'
    BY DEF SubscriptionInv, Arriving, Leaving, TypeOK, NoCall, SetCalls
<1>4. PassInv' BY DEF PassInv
<1>. QED BY <1>1, <1>2, <1>3, <1>4 DEF IInv

(* set takes the lock and decides whether the gateway is new. *)
LEMMA SetLockIInv ==
    ASSUME IInv, NEW s \in Setter, SetLock(s)
    PROVE  IInv'
<1>. USE CleanupAgeAssumption, NoGatewayAssumption, GoroutineAssumption
<1>. USE DEF IInv, SetLock, Lock, lockvars, cleanvars
<1>1. TypeOK' BY DEF TypeOK, SetCalls, NoCall
<1>2. LockInv' BY DEF LockInv, TypeOK, NoCall, SetCalls
<1>3. SubscriptionInv'
    BY DEF SubscriptionInv, LockInv, Arriving, Leaving, TypeOK, NoCall, SetCalls
<1>4. PassInv' BY DEF PassInv
<1>. QED BY <1>1, <1>2, <1>3, <1>4 DEF IInv

(* A new gateway is subscribed before it is stored. *)
LEMMA OnNewOkIInv ==
    ASSUME IInv, NEW s \in Setter, OnNewOk(s)
    PROVE  IInv'
<1>. USE CleanupAgeAssumption, NoGatewayAssumption, GoroutineAssumption
<1>. USE DEF IInv, OnNewOk, lockvars, cleanvars
<1>1. TypeOK' BY DEF TypeOK, SetCalls, GetCalls, NoCall
<1>2. LockInv' BY DEF LockInv, TypeOK, NoCall, SetCalls, GetCalls
<1>3. SubscriptionInv'
    BY DEF SubscriptionInv, LockInv, Arriving, Leaving, TypeOK, NoCall, SetCalls, PassInv
<1>4. PassInv' BY DEF PassInv, TypeOK, LockInv
<1>. QED BY <1>1, <1>2, <1>3, <1>4 DEF IInv

(* A failed onNew leaves the map and the subscriptions alone. *)
LEMMA OnNewFailIInv ==
    ASSUME IInv, NEW s \in Setter, OnNewFail(s)
    PROVE  IInv'
<1>. USE CleanupAgeAssumption, NoGatewayAssumption, GoroutineAssumption
<1>. USE DEF IInv, OnNewFail, Unlock, lockvars, cleanvars
<1>1. TypeOK' BY DEF TypeOK, SetCalls, GetCalls, NoCall
<1>2. LockInv' BY DEF LockInv, TypeOK, NoCall, SetCalls, GetCalls
<1>3. SubscriptionInv'
    BY DEF SubscriptionInv, LockInv, Arriving, Leaving, TypeOK, NoCall, SetCalls, PassInv
<1>4. PassInv' BY DEF PassInv, TypeOK, LockInv
<1>. QED BY <1>1, <1>2, <1>3, <1>4 DEF IInv

(* set stores a gateway that is subscribed. *)
LEMMA SetStoreIInv ==
    ASSUME IInv, NEW s \in Setter, SetStore(s)
    PROVE  IInv'
<1>. USE CleanupAgeAssumption, NoGatewayAssumption, GoroutineAssumption
<1>. USE DEF IInv, SetStore, Unlock, lockvars, cleanvars
<1>1. TypeOK' BY DEF TypeOK, SetCalls, GetCalls, NoCall
<1>2. LockInv' BY DEF LockInv, TypeOK, NoCall, SetCalls, GetCalls
<1>a. /\ setting[s].mac \in MAC /\ setting[s].gw \in Gateway
      /\ writer = s /\ cpc \notin {"scan", "onDelete", "delete"}
    BY DEF TypeOK, SetCalls, NoCall, LockInv
<1>b. Keys(gateways') = Keys(gateways) \cup {setting[s].mac}
    BY <1>a, StoreKeys DEF TypeOK
<1>c. Arriving = {setting[s].mac} \ Keys(gateways) /\ Arriving' = {}
    BY <1>a DEF Arriving, LockInv, TypeOK, NoCall, SetCalls
<1>3. SubscriptionInv'
    BY <1>a, <1>b, <1>c DEF SubscriptionInv, LockInv, Leaving, TypeOK, NoCall, SetCalls, PassInv
<1>4. PassInv' BY DEF PassInv, TypeOK, LockInv
<1>. QED BY <1>1, <1>2, <1>3, <1>4 DEF IInv

(* A call of get begins. *)
LEMMA GetCallIInv ==
    ASSUME IInv, NEW r \in Getter, NEW m \in MAC, GetCall(r, m)
    PROVE  IInv'
<1>. USE CleanupAgeAssumption, NoGatewayAssumption, GoroutineAssumption
<1>. USE DEF IInv, GetCall, lockvars, cleanvars
<1>1. TypeOK' BY DEF TypeOK, SetCalls, GetCalls, NoCall
<1>2. LockInv' BY DEF LockInv, TypeOK, NoCall, SetCalls, GetCalls
<1>3. SubscriptionInv'
    BY DEF SubscriptionInv, LockInv, Arriving, Leaving, TypeOK, NoCall, SetCalls, PassInv
<1>4. PassInv' BY DEF PassInv, TypeOK, LockInv
<1>. QED BY <1>1, <1>2, <1>3, <1>4 DEF IInv

(* get takes the read lock when nobody writes. *)
LEMMA GetRLockIInv ==
    ASSUME IInv, NEW r \in Getter, GetRLock(r)
    PROVE  IInv'
<1>. USE CleanupAgeAssumption, NoGatewayAssumption, GoroutineAssumption
<1>. USE DEF IInv, GetRLock, RLock, lockvars, cleanvars
<1>1. TypeOK' BY DEF TypeOK, SetCalls, GetCalls, NoCall
<1>2. LockInv' BY DEF LockInv, TypeOK, NoCall, SetCalls, GetCalls
<1>3. SubscriptionInv'
    BY DEF SubscriptionInv, LockInv, Arriving, Leaving, TypeOK, NoCall, SetCalls, PassInv
<1>4. PassInv' BY DEF PassInv, TypeOK, LockInv
<1>. QED BY <1>1, <1>2, <1>3, <1>4 DEF IInv

(* get reads and releases the lock. *)
LEMMA GetReadIInv ==
    ASSUME IInv, NEW r \in Getter, GetRead(r)
    PROVE  IInv'
<1>. USE CleanupAgeAssumption, NoGatewayAssumption, GoroutineAssumption
<1>. USE DEF IInv, GetRead, RUnlock, lockvars, cleanvars
<1>1. TypeOK' BY DEF TypeOK, SetCalls, GetCalls, NoCall
<1>2. LockInv' BY DEF LockInv, TypeOK, NoCall, SetCalls, GetCalls
<1>3. SubscriptionInv'
    BY DEF SubscriptionInv, LockInv, Arriving, Leaving, TypeOK, NoCall, SetCalls, PassInv
<1>4. PassInv' BY DEF PassInv, TypeOK, LockInv
<1>. QED BY <1>1, <1>2, <1>3, <1>4 DEF IInv

(* A call of get ends. *)
LEMMA GetReturnIInv ==
    ASSUME IInv, NEW r \in Getter, GetReturn(r)
    PROVE  IInv'
<1>. USE CleanupAgeAssumption, NoGatewayAssumption, GoroutineAssumption
<1>. USE DEF IInv, GetReturn, lockvars, cleanvars
<1>1. TypeOK' BY DEF TypeOK, SetCalls, GetCalls, NoCall
<1>2. LockInv' BY DEF LockInv, TypeOK, NoCall, SetCalls, GetCalls
<1>3. SubscriptionInv'
    BY DEF SubscriptionInv, LockInv, Arriving, Leaving, TypeOK, NoCall, SetCalls, PassInv
<1>4. PassInv' BY DEF PassInv, TypeOK, LockInv
<1>. QED BY <1>1, <1>2, <1>3, <1>4 DEF IInv

(* A pass begins with every gateway still to visit. *)
LEMMA CleanupLockIInv ==
    ASSUME IInv, CleanupLock
    PROVE  IInv'
<1>. USE CleanupAgeAssumption, NoGatewayAssumption, GoroutineAssumption
<1>. USE DEF IInv, CleanupLock, Lock, lockvars, cleanvars
<1>1. TypeOK' BY DEF TypeOK, SetCalls, GetCalls, NoCall, Keys, ExpiredKeys
<1>2. LockInv' BY DEF LockInv, TypeOK, NoCall, SetCalls, GetCalls
<1>3. SubscriptionInv'
    BY DEF SubscriptionInv, LockInv, Arriving, Leaving, TypeOK, NoCall, SetCalls, PassInv
<1>4. PassInv' BY DEF PassInv, TypeOK, LockInv
<1>. QED BY <1>1, <1>2, <1>3, <1>4 DEF IInv

(* A visited gateway is left alone or is the one to delete. *)
LEMMA VisitIInv ==
    ASSUME IInv, NEW m \in MAC, Visit(m)
    PROVE  IInv'
<1>. USE CleanupAgeAssumption, NoGatewayAssumption, GoroutineAssumption
<1>. USE DEF IInv, Visit, lockvars, cleanvars
<1>1. TypeOK' BY DEF TypeOK, SetCalls, GetCalls, NoCall
<1>2. LockInv' BY DEF LockInv, TypeOK, NoCall, SetCalls, GetCalls
<1>3. SubscriptionInv'
    BY DEF SubscriptionInv, LockInv, Arriving, Leaving, TypeOK, NoCall, SetCalls, PassInv
<1>4. PassInv'
    <2>1. CASE Expired(gateways[m])
        <3>1. m \in ExpiredKeys(gateways) /\ visiting' = {m} /\ cpc' = "onDelete"
            BY <2>1 DEF PassInv, ExpiredKeys
        <3>. QED BY <3>1 DEF PassInv
    <2>2. CASE ~Expired(gateways[m])
        <3>1. m \notin overdue
            BY <2>2 DEF PassInv, ExpiredKeys
        <3>. QED BY <2>2, <3>1 DEF PassInv
    <2>. QED BY <2>1, <2>2
<1>. QED BY <1>1, <1>2, <1>3, <1>4 DEF IInv

(* The gateway to delete loses its subscription first. *)
LEMMA OnDeleteOkIInv ==
    ASSUME IInv, NEW m \in MAC, OnDeleteOk(m)
    PROVE  IInv'
<1>. USE CleanupAgeAssumption, NoGatewayAssumption, GoroutineAssumption
<1>. USE DEF IInv, OnDeleteOk, lockvars, cleanvars
<1>1. TypeOK' BY DEF TypeOK, SetCalls, GetCalls, NoCall
<1>2. LockInv' BY DEF LockInv, TypeOK, NoCall, SetCalls, GetCalls
<1>3. SubscriptionInv'
    BY DEF SubscriptionInv, LockInv, Arriving, Leaving, TypeOK, NoCall, SetCalls, PassInv
<1>4. PassInv' BY DEF PassInv, TypeOK, LockInv
<1>. QED BY <1>1, <1>2, <1>3, <1>4 DEF IInv

(* A failed onDelete ends the pass. *)
LEMMA OnDeleteFailIInv ==
    ASSUME IInv, OnDeleteFail
    PROVE  IInv'
<1>. USE CleanupAgeAssumption, NoGatewayAssumption, GoroutineAssumption
<1>. USE DEF IInv, OnDeleteFail, Sleep, Unlock, lockvars, cleanvars
<1>1. TypeOK' BY DEF TypeOK, SetCalls, GetCalls, NoCall
<1>2. LockInv' BY DEF LockInv, TypeOK, NoCall, SetCalls, GetCalls
<1>3. SubscriptionInv'
    BY DEF SubscriptionInv, LockInv, Arriving, Leaving, TypeOK, NoCall, SetCalls, PassInv
<1>4. PassInv' BY DEF PassInv, TypeOK, LockInv
<1>. QED BY <1>1, <1>2, <1>3, <1>4 DEF IInv

(* The gateway without subscription leaves the map. *)
LEMMA DeleteIInv ==
    ASSUME IInv, NEW m \in MAC, Delete(m)
    PROVE  IInv'
<1>. USE CleanupAgeAssumption, NoGatewayAssumption, GoroutineAssumption
<1>. USE DEF IInv, Delete, lockvars, cleanvars
<1>1. TypeOK' BY DEF TypeOK, SetCalls, GetCalls, NoCall
<1>2. LockInv' BY DEF LockInv, TypeOK, NoCall, SetCalls, GetCalls
<1>a. /\ Keys(gateways') = Keys(gateways) \ {m}
      /\ ExpiredKeys(gateways') = ExpiredKeys(gateways) \ {m}
      /\ visiting = {m}
    BY DeleteKeys DEF TypeOK, PassInv
<1>b. writer = Cleaner /\ Arriving = {} /\ Arriving' = {}
    BY DEF Arriving, LockInv, TypeOK
<1>3. SubscriptionInv'
    BY <1>a, <1>b DEF SubscriptionInv, LockInv, Leaving, TypeOK
<1>4. PassInv' BY <1>a DEF PassInv, TypeOK, LockInv
<1>. QED BY <1>1, <1>2, <1>3, <1>4 DEF IInv

(* A complete pass ends. *)
LEMMA CleanupReturnIInv ==
    ASSUME IInv, CleanupReturn
    PROVE  IInv'
<1>. USE CleanupAgeAssumption, NoGatewayAssumption, GoroutineAssumption
<1>. USE DEF IInv, CleanupReturn, Sleep, Unlock, lockvars, cleanvars
<1>1. TypeOK' BY DEF TypeOK, SetCalls, GetCalls, NoCall
<1>2. LockInv' BY DEF LockInv, TypeOK, NoCall, SetCalls, GetCalls
<1>3. SubscriptionInv'
    BY DEF SubscriptionInv, LockInv, Arriving, Leaving, TypeOK, NoCall, SetCalls, PassInv
<1>4. PassInv' BY DEF PassInv, TypeOK, LockInv
<1>. QED BY <1>1, <1>2, <1>3, <1>4 DEF IInv

(* The next pass is about to begin. *)
LEMMA WakeUpIInv ==
    ASSUME IInv, WakeUp
    PROVE  IInv'
<1>. USE CleanupAgeAssumption, NoGatewayAssumption, GoroutineAssumption
<1>. USE DEF IInv, WakeUp, lockvars, cleanvars
<1>1. TypeOK' BY DEF TypeOK, SetCalls, GetCalls, NoCall
<1>2. LockInv' BY DEF LockInv, TypeOK, NoCall, SetCalls, GetCalls
<1>3. SubscriptionInv'
    BY DEF SubscriptionInv, LockInv, Arriving, Leaving, TypeOK, NoCall, SetCalls, PassInv
<1>4. PassInv' BY DEF PassInv, TypeOK, LockInv
<1>. QED BY <1>1, <1>2, <1>3, <1>4 DEF IInv

(* The clock ages entries and calls, and nothing else. *)
LEMMA TickIInv ==
    ASSUME IInv, Tick
    PROVE  IInv'
<1>. USE CleanupAgeAssumption, NoGatewayAssumption, GoroutineAssumption
<1>. USE DEF IInv, Tick, lockvars, cleanvars
<1>a. /\ gateways' \in [MAC -> Gateway \cup {NoGateway}]
      /\ Keys(gateways') = Keys(gateways)
      /\ ExpiredKeys(gateways) \subseteq ExpiredKeys(gateways')
    BY OlderMapKeys DEF TypeOK
<1>b. ASSUME NEW s \in Setter
      PROVE  /\ setting'[s] \in SetCalls \cup {NoCall}
             /\ setting'[s].pc = setting[s].pc
             /\ setting[s] # NoCall => setting'[s].mac = setting[s].mac
    <2>1. CASE setting[s] = NoCall
        BY <2>1 DEF Aged
    <2>2. CASE setting[s] \in SetCalls
        <3>1. setting'[s] = [setting[s] EXCEPT !.gw = Older(setting[s].gw)]
            BY <2>2 DEF Aged, SetCalls, NoCall
        <3>2. Older(setting[s].gw) \in Gateway
            BY <2>2, OlderType DEF SetCalls
        <3>. QED BY <2>2, <3>1, <3>2 DEF SetCalls
    <2>. QED BY <2>1, <2>2 DEF TypeOK
<1>1. TypeOK' BY <1>a, <1>b DEF TypeOK
<1>2. LockInv' BY <1>b DEF LockInv
<1>c. Arriving' = Arriving /\ Leaving' = Leaving
    <2>1. ASSUME NEW s \in Setter
          PROVE  /\ setting'[s].pc = "store" <=> setting[s].pc = "store"
                 /\ setting[s].pc = "store" => setting'[s].mac = setting[s].mac
        BY <1>b DEF NoCall
    <2>2. {t \in Setter : setting'[t].pc = "store"} = {t \in Setter : setting[t].pc = "store"}
        <3>. HIDE DEF Tick, IInv
        <3>. QED BY <2>1
    <2>3. {setting'[s].mac : s \in {t \in Setter : setting'[t].pc = "store"}}
            = {setting[s].mac : s \in {t \in Setter : setting[t].pc = "store"}}
        <3>. HIDE DEF Tick, IInv
        <3>. QED BY <2>1, <2>2
    <2>4. Arriving' = Arriving
        <3>. HIDE DEF Tick, IInv
        <3>. QED BY <1>a, <2>3 DEF Arriving
    <2>5. Leaving' = Leaving BY DEF Leaving
    <2>. QED BY <2>4, <2>5
<1>3. SubscriptionInv'
    BY <1>a, <1>b, <1>c DEF SubscriptionInv, NoCall
<1>4. PassInv' BY <1>a DEF PassInv
<1>. QED BY <1>1, <1>2, <1>3, <1>4 DEF IInv


(* Every step preserves the invariant: one lemma for each action above. *)
LEMMA NextIInv == IInv /\ [Next]_vars => IInv'
<1>. SUFFICES ASSUME IInv, [Next]_vars PROVE IInv' OBVIOUS
<1>1. ASSUME NEW s \in Setter, NEW m \in MAC, NEW a \in Addr, NEW v \in Version,
             SetCall(s, m, a, v)
      PROVE  IInv'
    BY <1>1, SetCallIInv
<1>2. ASSUME NEW s \in Setter,
             SetLock(s) \/ OnNewOk(s) \/ OnNewFail(s) \/ SetStore(s)
      PROVE  IInv'
    BY <1>2, SetLockIInv, OnNewOkIInv, OnNewFailIInv, SetStoreIInv
<1>3. ASSUME NEW r \in Getter, NEW m \in MAC, GetCall(r, m)
      PROVE  IInv'
    BY <1>3, GetCallIInv
<1>4. ASSUME NEW r \in Getter, GetRLock(r) \/ GetRead(r) \/ GetReturn(r)
      PROVE  IInv'
    BY <1>4, GetRLockIInv, GetReadIInv, GetReturnIInv
<1>5. ASSUME NEW m \in MAC, Visit(m) \/ OnDeleteOk(m) \/ Delete(m)
      PROVE  IInv'
    BY <1>5, VisitIInv, OnDeleteOkIInv, DeleteIInv
<1>6. CASE CleanupLock \/ OnDeleteFail \/ CleanupReturn \/ WakeUp \/ Tick
    BY <1>6, CleanupLockIInv, OnDeleteFailIInv, CleanupReturnIInv, WakeUpIInv, TickIInv
<1>7. CASE UNCHANGED vars
    <2>. USE <1>7 DEF vars, IInv
    <2>1. TypeOK' BY DEF TypeOK
    <2>2. LockInv' BY DEF LockInv
    <2>3. SubscriptionInv' BY DEF SubscriptionInv, Arriving, Leaving
    <2>4. PassInv' BY DEF PassInv
    <2>. QED BY <2>1, <2>2, <2>3, <2>4
<1>. QED BY <1>1, <1>2, <1>3, <1>4, <1>5, <1>6, <1>7 DEF Next

(* The inductive invariant holds in every reachable state of the registry. *)
THEOREM IInvHolds == Spec => []IInv
BY InitIInv, NextIInv, PTL DEF Spec

-----------------------------------------------------------------------------
(* Whatever goroutines call set, get and cleanup in whatever order, the    *)
(* variables stay in their types.                                          *)
THEOREM TypeCorrect == Spec => []TypeOK
<1>1. IInv => TypeOK BY DEF IInv
<1>. QED BY <1>1, IInvHolds, PTL

(* The map and the downlink subscriptions agree whenever the write lock is *)
(* free: no failed callback of set or cleanup leaves them apart.           *)
THEOREM SubscriptionsAgree == Spec => []SubscribedIffRegistered
<1>1. IInv => SubscribedIffRegistered
    <2>. SUFFICES ASSUME IInv, writer = NoOne PROVE subscribed = Keys(gateways)
        BY DEF SubscribedIffRegistered
    <2>1. Arriving = {} /\ Leaving = {}
        BY GoroutineAssumption DEF IInv, LockInv, Arriving, Leaving
    <2>. QED BY <2>1 DEF IInv, SubscriptionInv
<1>. QED BY <1>1, IInvHolds, PTL

(* onNew is never called for a subscribed gateway, nor onDelete for one    *)
(* that is not: the callbacks of set and cleanup alternate for every MAC.  *)
THEOREM CallbacksAreAlternating == Spec => []CallbacksAlternate
<1>1. IInv => CallbacksAlternate
    <2>. SUFFICES ASSUME IInv PROVE CallbacksAlternate OBVIOUS
    <2>1. ASSUME NEW s \in Setter, setting[s].pc = "onNew"
          PROVE  setting[s].mac \notin subscribed
        <3>1. writer = s /\ Arriving = {}
            BY <2>1 DEF IInv, LockInv, Arriving
        <3>. QED BY <2>1, <3>1 DEF IInv, SubscriptionInv
    <2>2. ASSUME cpc = "onDelete" PROVE visiting \subseteq subscribed
        BY <2>2 DEF IInv, SubscriptionInv, PassInv, Leaving, ExpiredKeys
    <2>. QED BY <2>1, <2>2 DEF CallbacksAlternate
<1>. QED BY <1>1, IInvHolds, PTL

(* A cleanup that returns without error has deleted every gateway that was *)
(* expired when it took the lock.                                          *)
THEOREM PassesAreComplete == Spec => CompletePassForgetsOverdue
<1>1. IInv /\ [Next]_vars => [CleanupReturn => overdue \cap Keys(gateways) = {}]_vars
    <2>. SUFFICES ASSUME IInv, CleanupReturn PROVE overdue \cap Keys(gateways) = {}
        OBVIOUS
    <2>. QED BY DEF IInv, PassInv, CleanupReturn
<1>. QED BY <1>1, IInvHolds, PTL DEF Spec, CompletePassForgetsOverdue

(* get answers with a route exactly when the gateway is subscribed.        *)
THEOREM GetIsConsistent == Spec => GetSeesWholeUpdates
<1>1. IInv /\ [Next]_vars =>
        [\A r \in Getter : GetRead(r) =>
           (getting[r].mac \in subscribed <=> getting'[r].gw # NoGateway)]_vars
    <2>. SUFFICES ASSUME IInv, NEW r \in Getter, GetRead(r)
                  PROVE  getting[r].mac \in subscribed <=> getting'[r].gw # NoGateway
        OBVIOUS
    <2>1. getting[r].mac \in MAC /\ getting'[r].gw = gateways[getting[r].mac]
        BY DEF IInv, TypeOK, GetRead, GetCalls, NoCall
    <2>2. writer = NoOne
        BY DEF IInv, LockInv, GetRead
    <2>3. Arriving = {} /\ Leaving = {}
        BY <2>2, GoroutineAssumption DEF IInv, LockInv, Arriving, Leaving
    <2>. QED BY <2>1, <2>3 DEF IInv, SubscriptionInv, Keys
<1>. QED BY <1>1, IInvHolds, PTL DEF Spec, GetSeesWholeUpdates

-----------------------------------------------------------------------------
(* Refinement.  Under the invariant the abstract subscriptions are the     *)
(* keys of the map, so a step is a step of Registry by what it does to the *)
(* map alone.                                                              *)
AbstractSubscribed == (subscribed \ Arriving) \cup Leaving

(* The abstract subscriptions are exactly the gateways in the map. *)
LEMMA AbstractSubscribedIsKeys == IInv => AbstractSubscribed = Keys(gateways)
<1>. SUFFICES ASSUME IInv PROVE AbstractSubscribed = Keys(gateways) OBVIOUS
<1>1. Leaving \subseteq Keys(gateways)
    BY DEF IInv, PassInv, Leaving, ExpiredKeys
<1>2. Arriving \cap Keys(gateways) = {}
    BY DEF Arriving
<1>. QED BY <1>1, <1>2 DEF IInv, SubscriptionInv, AbstractSubscribed

(* Every step of the registry is a step of Registry, or leaves it unchanged. *)
LEMMA StepImplements ==
    ASSUME IInv, IInv', [Next]_vars
    PROVE  [Abstract!RNext]_(Abstract!rvars)
<1>1. /\ AbstractSubscribed = Keys(gateways)
      /\ AbstractSubscribed' = Keys(gateways')
    <2>1. (IInv => AbstractSubscribed = Keys(gateways))'
        BY AbstractSubscribedIsKeys, PTL
    <2>. QED BY <2>1, AbstractSubscribedIsKeys DEF Keys
<1>2. ASSUME NEW s \in Setter, SetStore(s) PROVE Abstract!RNext
    <2>1. setting[s].mac \in MAC /\ setting[s].gw \in Gateway
        BY <1>2 DEF IInv, TypeOK, SetStore, SetCalls, NoCall
    <2>2. gateways' = [gateways EXCEPT ![setting[s].mac] = setting[s].gw]
        BY <1>2 DEF SetStore
    <2>3. Keys(gateways') = Keys(gateways) \cup {setting[s].mac}
        BY <2>1, <2>2, StoreKeys DEF IInv, TypeOK
    <2>4. Abstract!Put(setting[s].mac, setting[s].gw)
        BY <1>1, <2>1, <2>2, <2>3
        DEF Abstract!Put, Abstract!New, Abstract!Refresh, Abstract!Keys, Keys,
            AbstractSubscribed
    <2>. QED BY <2>1, <2>4 DEF Abstract!RNext, Abstract!Gateway, Gateway, Abstract!Ages, Ages
<1>3. ASSUME NEW m \in MAC, Delete(m) PROVE Abstract!RNext
    <2>1. m \in ExpiredKeys(gateways) /\ gateways' = [gateways EXCEPT ![m] = NoGateway]
        BY <1>3 DEF IInv, PassInv, Delete
    <2>2. Keys(gateways') = Keys(gateways) \ {m}
        BY <2>1, DeleteKeys DEF IInv, TypeOK
    <2>3. Abstract!Forget(m)
        BY <1>1, <2>1, <2>2
        DEF Abstract!Forget, Abstract!ExpiredKeys, ExpiredKeys, Abstract!Keys, Keys,
            Abstract!Expired, Expired, AbstractSubscribed
    <2>. QED BY <2>3 DEF Abstract!RNext
<1>4. CASE Tick
    <2>1. gateways' = OlderMap(gateways) /\ Keys(gateways') = Keys(gateways)
        BY <1>4, OlderMapKeys DEF Tick, IInv, TypeOK
    <2>2. Abstract!Tick
        BY <1>1, <2>1
        DEF Abstract!Tick, Abstract!OlderMap, OlderMap, Abstract!Older, Older,
            AbstractSubscribed
    <2>. QED BY <2>2 DEF Abstract!RNext
<1>5. CASE UNCHANGED gateways
    BY <1>1, <1>5 DEF Abstract!rvars, Keys, AbstractSubscribed
<1>. USE DEF cleanvars, lockvars
<1>6. ASSUME NEW s \in Setter, NEW m \in MAC, NEW a \in Addr, NEW v \in Version,
             SetCall(s, m, a, v)
      PROVE  UNCHANGED gateways
    BY <1>6 DEF SetCall
<1>7. ASSUME NEW s \in Setter, SetLock(s) \/ OnNewOk(s) \/ OnNewFail(s)
      PROVE  UNCHANGED gateways
    BY <1>7 DEF SetLock, OnNewOk, OnNewFail
<1>8. ASSUME NEW r \in Getter, NEW m \in MAC, GetCall(r, m)
      PROVE  UNCHANGED gateways
    BY <1>8 DEF GetCall
<1>8a. ASSUME NEW r \in Getter, GetRLock(r) \/ GetRead(r) \/ GetReturn(r)
       PROVE  UNCHANGED gateways
    BY <1>8a DEF GetRLock, GetRead, GetReturn
<1>9. ASSUME NEW m \in MAC, Visit(m) \/ OnDeleteOk(m)
      PROVE  UNCHANGED gateways
    BY <1>9 DEF Visit, OnDeleteOk
<1>10. ASSUME CleanupLock \/ OnDeleteFail \/ CleanupReturn \/ WakeUp
       PROVE  UNCHANGED gateways
    BY <1>10 DEF CleanupLock, OnDeleteFail, CleanupReturn, WakeUp
<1>11. ASSUME UNCHANGED vars PROVE UNCHANGED gateways
    BY <1>11 DEF vars
<1>. QED
    BY <1>2, <1>3, <1>4, <1>5, <1>6, <1>7, <1>8, <1>8a, <1>9, <1>10, <1>11 DEF Next

(* The registry with its lock, its callbacks and their failures implements *)
(* Registry, where a route and its subscription change in one step.        *)
THEOREM RegistryImplemented == Spec => ImplementsRegistry
<1>1. Init => Abstract!RInit
    BY DEF Init, Abstract!RInit, Arriving, Leaving, NoCall
<1>2. IInv /\ IInv' /\ [Next]_vars => [Abstract!RNext]_(Abstract!rvars)
    BY StepImplements
<1>. QED BY <1>1, <1>2, IInvHolds, PTL DEF Spec, ImplementsRegistry, Abstract!RSpec

-----------------------------------------------------------------------------
(* The steps that change which gateways are known or subscribed: a new     *)
(* route is stored, one is deleted, or a callback has done its work.       *)
LEMMA OnlyChanges ==
    ASSUME IInv, [Next]_vars
    PROVE  \/ Keys(gateways') = Keys(gateways) /\ subscribed' = subscribed
           \/ \E s \in Setter : SetStore(s) \/ OnNewOk(s)
           \/ \E m \in MAC : OnDeleteOk(m) \/ Delete(m)
<1>1. CASE Tick
    BY <1>1, OlderMapKeys DEF Tick, IInv, TypeOK
<1>2. CASE UNCHANGED <<gateways, subscribed>> BY <1>2
<1>. USE DEF cleanvars, lockvars
<1>3. ASSUME NEW s \in Setter, NEW m \in MAC, NEW a \in Addr, NEW v \in Version,
             SetCall(s, m, a, v)
      PROVE  UNCHANGED <<gateways, subscribed>>
    BY <1>3 DEF SetCall
<1>4. ASSUME NEW s \in Setter, SetLock(s) \/ OnNewFail(s)
      PROVE  UNCHANGED <<gateways, subscribed>>
    BY <1>4 DEF SetLock, OnNewFail
<1>5. ASSUME NEW r \in Getter, NEW m \in MAC, GetCall(r, m)
      PROVE  UNCHANGED <<gateways, subscribed>>
    BY <1>5 DEF GetCall
<1>6. ASSUME NEW r \in Getter, GetRLock(r) \/ GetRead(r) \/ GetReturn(r)
      PROVE  UNCHANGED <<gateways, subscribed>>
    BY <1>6 DEF GetRLock, GetRead, GetReturn
<1>7. ASSUME NEW m \in MAC, Visit(m) PROVE UNCHANGED <<gateways, subscribed>>
    BY <1>7 DEF Visit
<1>8. ASSUME CleanupLock \/ OnDeleteFail \/ CleanupReturn \/ WakeUp
      PROVE  UNCHANGED <<gateways, subscribed>>
    BY <1>8 DEF CleanupLock, OnDeleteFail, CleanupReturn, WakeUp
<1>9. ASSUME UNCHANGED vars PROVE UNCHANGED <<gateways, subscribed>>
    BY <1>9 DEF vars
<1>. QED BY <1>1, <1>2, <1>3, <1>4, <1>5, <1>6, <1>7, <1>8, <1>9 DEF Next

(* No gateway becomes known, is forgotten, subscribed or unsubscribed but  *)
(* under the write lock, while nobody reads the map.                       *)
ChangedUnderLock ==
    [][\/ Keys(gateways') = Keys(gateways) /\ subscribed' = subscribed
       \/ writer # NoOne /\ readers = {}]_vars

(* set and cleanup call their callbacks and write the map under the lock   *)
(* on every path, the early returns included.                              *)
THEOREM LockGuardsMap == Spec => ChangedUnderLock
<1>1. IInv /\ [Next]_vars =>
        [\/ Keys(gateways') = Keys(gateways) /\ subscribed' = subscribed
         \/ writer # NoOne /\ readers = {}]_vars
    <2>. SUFFICES ASSUME IInv, [Next]_vars
                  PROVE  \/ Keys(gateways') = Keys(gateways) /\ subscribed' = subscribed
                         \/ writer # NoOne /\ readers = {}
        OBVIOUS
    <2>. USE GoroutineAssumption DEF IInv, LockInv
    <2>1. ASSUME NEW s \in Setter, SetStore(s) \/ OnNewOk(s)
          PROVE  writer # NoOne /\ readers = {}
        BY <2>1 DEF SetStore, OnNewOk
    <2>2. ASSUME NEW m \in MAC, OnDeleteOk(m) \/ Delete(m)
          PROVE  writer # NoOne /\ readers = {}
        BY <2>2 DEF OnDeleteOk, Delete
    <2>. QED BY <2>1, <2>2, OnlyChanges
<1>. QED BY <1>1, IInvHolds, PTL DEF Spec, ChangedUnderLock

(* A gateway leaves the map only while it is silent for longer than the    *)
(* cleanup duration.                                                       *)
OnlySilentForgotten ==
    [][Keys(gateways) \ Keys(gateways') \subseteq ExpiredKeys(gateways)]_vars

(* However long onDelete takes between the comparison of an entry's age    *)
(* and its removal, a PULL_DATA that comes in between is not lost with it: *)
(* its set waits for the lock, and adds the gateway again.                 *)
THEOREM SilentAreForgotten == Spec => OnlySilentForgotten
<1>1. IInv /\ [Next]_vars =>
        [Keys(gateways) \ Keys(gateways') \subseteq ExpiredKeys(gateways)]_vars
    <2>. SUFFICES ASSUME IInv, [Next]_vars
                  PROVE  Keys(gateways) \ Keys(gateways') \subseteq ExpiredKeys(gateways)
        OBVIOUS
    <2>1. ASSUME NEW s \in Setter, SetStore(s) \/ OnNewOk(s)
          PROVE  Keys(gateways) \subseteq Keys(gateways')
        <3>1. CASE OnNewOk(s) BY <3>1 DEF OnNewOk
        <3>2. CASE SetStore(s)
            <4>1. setting[s].mac \in MAC /\ setting[s].gw \in Gateway
                BY <3>2 DEF IInv, TypeOK, SetStore, SetCalls, NoCall
            <4>2. gateways' = [gateways EXCEPT ![setting[s].mac] = setting[s].gw]
                BY <3>2 DEF SetStore
            <4>3. gateways \in [MAC -> Gateway \cup {NoGateway}] BY DEF IInv, TypeOK
            <4>4. Keys(gateways') = Keys(gateways) \cup {setting[s].mac}
                BY ONLY <4>1, <4>2, <4>3, StoreKeys
            <4>. QED BY ONLY <4>4
        <3>. QED BY <2>1, <3>1, <3>2
    <2>2. ASSUME NEW m \in MAC, OnDeleteOk(m) \/ Delete(m)
          PROVE  Keys(gateways) \ Keys(gateways') \subseteq ExpiredKeys(gateways)
        <3>1. CASE OnDeleteOk(m) BY <3>1 DEF OnDeleteOk
        <3>2. CASE Delete(m)
            <4>1. m \in ExpiredKeys(gateways) /\ gateways' = [gateways EXCEPT ![m] = NoGateway]
                BY <3>2 DEF IInv, PassInv, Delete
            <4>2. Keys(gateways') = Keys(gateways) \ {m}
                BY <4>1, DeleteKeys DEF IInv, TypeOK
            <4>. QED BY <4>1, <4>2
        <3>. QED BY <2>2, <3>1, <3>2
    <2>. QED BY <2>1, <2>2, OnlyChanges
<1>. QED BY <1>1, IInvHolds, PTL DEF Spec, OnlySilentForgotten
=============================================================================
