------------------------------ MODULE Gateways ------------------------------
(***************************************************************************)
(* The gateway registry of gateway/backend.go: type gateways, a map        *)
(* guarded by a sync.RWMutex, with an onNew callback called by set and an  *)
(* onDelete callback called by cleanup, both while the write lock is held. *)
(* In the bridge the callbacks subscribe and unsubscribe the gateway's     *)
(* downlink at the network server (cmd/lora-gateway-bridge/main.go); they  *)
(* may fail, and then set and cleanup return early.                        *)
(*                                                                         *)
(* Goroutines: one per packet being handled calls set (Setter) or get      *)
(* (Getter), and a single one calls cleanup every minute (Cleaner).  Every *)
(* lock operation, callback and map update is a step of its own, so all of *)
(* them interleave with each other and with the clock.                     *)
(***************************************************************************)
EXTENDS GatewayTypes, FiniteSets

CONSTANTS
    Setter,   \* goroutines that call set
    Getter,   \* goroutines that call get
    Cleaner,  \* the goroutine that calls cleanup
    NoOne     \* the holder of a free write lock

ASSUME GoroutineAssumption ==
    /\ Cleaner \notin Setter
    /\ NoOne \notin Setter \cup {Cleaner}

VARIABLES
    gateways,    \* the map: MAC -> gateway
    subscribed,  \* MACs subscribed by onNew and not yet unsubscribed by onDelete
    writer,      \* holder of the write lock
    readers,     \* holders of the read lock
    setting,     \* the call of set each Setter is in
    getting,     \* the call of get each Getter is in
    cpc,         \* where the Cleaner is
    nap,         \* ticks the Cleaner has slept
    todo,        \* MACs the range loop of cleanup has not visited yet
    visiting,    \* the MAC it is deleting, as a set of at most one
    overdue      \* history: MACs that were expired when cleanup took the lock

vars == <<gateways, subscribed, writer, readers, setting, getting,
          cpc, nap, todo, visiting, overdue>>

lockvars == <<writer, readers>>
cleanvars == <<cpc, nap, todo, visiting, overdue>>

NoCall == [pc |-> "idle"]
SetCalls == [pc : {"lock", "onNew", "store"}, mac : MAC, gw : Gateway]
GetCalls == [pc : {"rlock", "read"}, mac : MAC]
             \cup [pc : {"return"}, mac : MAC, gw : Gateway \cup {NoGateway}]

(* Every variable stays in its type. *)
TypeOK ==
    /\ gateways \in [MAC -> Gateway \cup {NoGateway}]
    /\ subscribed \in SUBSET MAC
    /\ writer \in Setter \cup {Cleaner, NoOne}
    /\ readers \in SUBSET Getter
    /\ setting \in [Setter -> SetCalls \cup {NoCall}]
    /\ getting \in [Getter -> GetCalls \cup {NoCall}]
    /\ cpc \in {"lock", "scan", "onDelete", "delete", "asleep"}
    /\ nap \in 0 .. CleanupAge
    /\ todo \in SUBSET MAC
    /\ visiting \in SUBSET MAC
    /\ overdue \in SUBSET MAC

(* NewBackend: an empty map, and the cleanup loop about to call cleanup. *)
Init ==
    /\ gateways = [m \in MAC |-> NoGateway]
    /\ subscribed = {}
    /\ writer = NoOne
    /\ readers = {}
    /\ setting = [s \in Setter |-> NoCall]
    /\ getting = [r \in Getter |-> NoCall]
    /\ cpc = "lock"
    /\ nap = 0
    /\ todo = {}
    /\ visiting = {}
    /\ overdue = {}

-----------------------------------------------------------------------------
(* The sync.RWMutex.  Its queueing is left out: which waiting goroutine    *)
(* gets a free lock is any of them, and fairness is assumed below.         *)

Lock(w) ==
    /\ writer = NoOne
    /\ readers = {}
    /\ writer' = w
    /\ UNCHANGED readers

Unlock(w) ==
    /\ writer = w
    /\ writer' = NoOne
    /\ UNCHANGED readers

RLock(r) ==
    /\ writer = NoOne
    /\ readers' = readers \cup {r}
    /\ UNCHANGED writer

RUnlock(r) ==
    /\ r \in readers
    /\ readers' = readers \ {r}
    /\ UNCHANGED writer

-----------------------------------------------------------------------------
(* set(mac, gw).  The caller reads the clock before the call, so the entry *)
(* ages while the call waits for the lock and for onNew.                   *)

(* Mutant: lastSeen lies in the future. *)
SetCallAhead(s, m, a, v) ==
    /\ setting[s] = NoCall
    /\ setting' = [setting EXCEPT ![s] =
           [pc |-> "lock", mac |-> m, gw |-> [addr |-> a, version |-> v, age |-> -1]]]
    /\ UNCHANGED <<gateways, subscribed, lockvars, getting, cleanvars>>

SetCall(s, m, a, v) ==
    /\ setting[s] = NoCall
    /\ setting' = [setting EXCEPT ![s] =
           [pc |-> "lock", mac |-> m, gw |-> [addr |-> a, version |-> v, age |-> 0]]]
    /\ UNCHANGED <<gateways, subscribed, lockvars, getting, cleanvars>>

(* Mutant: onNew is called for a gateway that is in the map, too. *)
SetLockAlwaysNew(s) ==
    /\ setting[s].pc = "lock"
    /\ Lock(s)
    /\ setting' = [setting EXCEPT ![s].pc = "onNew"]
    /\ UNCHANGED <<gateways, subscribed, getting, cleanvars>>

SetLock(s) ==
    /\ setting[s].pc = "lock"
    /\ Lock(s)
    /\ setting' = [setting EXCEPT ![s].pc =
           IF setting[s].mac \in Keys(gateways) THEN "store" ELSE "onNew"]
    /\ UNCHANGED <<gateways, subscribed, getting, cleanvars>>

OnNewOk(s) ==
    /\ setting[s].pc = "onNew"
    /\ subscribed' = subscribed \cup {setting[s].mac}
    /\ setting' = [setting EXCEPT ![s].pc = "store"]
    /\ UNCHANGED <<gateways, lockvars, getting, cleanvars>>

(* Mutants: the error of onNew is ignored; the early return keeps the lock. *)
OnNewFailIgnored(s) ==
    /\ setting[s].pc = "onNew"
    /\ setting' = [setting EXCEPT ![s].pc = "store"]
    /\ UNCHANGED <<gateways, subscribed, lockvars, getting, cleanvars>>

OnNewFailLocked(s) ==
    /\ setting[s].pc = "onNew"
    /\ setting' = [setting EXCEPT ![s] = NoCall]
    /\ UNCHANGED <<gateways, subscribed, lockvars, getting, cleanvars>>

OnNewFail(s) ==
    /\ setting[s].pc = "onNew"
    /\ Unlock(s)
    /\ setting' = [setting EXCEPT ![s] = NoCall]
    /\ UNCHANGED <<gateways, subscribed, getting, cleanvars>>

SetStore(s) ==
    /\ setting[s].pc = "store"
    /\ gateways' = [gateways EXCEPT ![setting[s].mac] = setting[s].gw]
    /\ Unlock(s)
    /\ setting' = [setting EXCEPT ![s] = NoCall]
    /\ UNCHANGED <<subscribed, getting, cleanvars>>

-----------------------------------------------------------------------------
(* get(mac).  An unknown MAC answers errGatewayDoesNotExist: NoGateway.    *)

GetCall(r, m) ==
    /\ getting[r] = NoCall
    /\ getting' = [getting EXCEPT ![r] = [pc |-> "rlock", mac |-> m]]
    /\ UNCHANGED <<gateways, subscribed, lockvars, setting, cleanvars>>

(* Mutant: get does not wait for the writer. *)
GetRLockAnyway(r) ==
    /\ getting[r].pc = "rlock"
    /\ readers' = readers \cup {r}
    /\ getting' = [getting EXCEPT ![r].pc = "read"]
    /\ UNCHANGED <<gateways, subscribed, writer, setting, cleanvars>>

GetRLock(r) ==
    /\ getting[r].pc = "rlock"
    /\ RLock(r)
    /\ getting' = [getting EXCEPT ![r].pc = "read"]
    /\ UNCHANGED <<gateways, subscribed, setting, cleanvars>>

GetRead(r) ==
    /\ getting[r].pc = "read"
    /\ RUnlock(r)
    /\ getting' = [getting EXCEPT ![r] =
           [pc |-> "return", mac |-> getting[r].mac, gw |-> gateways[getting[r].mac]]]
    /\ UNCHANGED <<gateways, subscribed, setting, cleanvars>>

GetReturn(r) ==
    /\ getting[r].pc = "return"
    /\ getting' = [getting EXCEPT ![r] = NoCall]
    /\ UNCHANGED <<gateways, subscribed, lockvars, setting, cleanvars>>

-----------------------------------------------------------------------------
(* cleanup() and the loop in NewBackend that calls it.  The range over the *)
(* map visits the keys in any order and reads the clock at every key.      *)

CleanupLock ==
    /\ cpc = "lock"
    /\ Lock(Cleaner)
    /\ cpc' = "scan"
    /\ todo' = Keys(gateways)
    /\ overdue' = ExpiredKeys(gateways)
    /\ UNCHANGED <<gateways, subscribed, setting, getting, nap, visiting>>

(* Mutant: the age of the entry is not compared. *)
VisitDeletesAll(m) ==
    /\ cpc = "scan"
    /\ m \in todo
    /\ todo' = todo \ {m}
    /\ cpc' = "onDelete"
    /\ visiting' = {m}
    /\ UNCHANGED <<gateways, subscribed, lockvars, setting, getting, nap, overdue>>

Visit(m) ==
    /\ cpc = "scan"
    /\ m \in todo
    /\ todo' = todo \ {m}
    /\ \/ /\ Expired(gateways[m])
          /\ cpc' = "onDelete"
          /\ visiting' = {m}
       \/ /\ ~Expired(gateways[m])
          /\ UNCHANGED <<cpc, visiting>>
    /\ UNCHANGED <<gateways, subscribed, lockvars, setting, getting, nap, overdue>>

OnDeleteOk(m) ==
    /\ cpc = "onDelete"
    /\ m \in visiting
    /\ subscribed' = subscribed \ {m}
    /\ cpc' = "delete"
    /\ UNCHANGED <<gateways, lockvars, setting, getting, nap, todo, visiting, overdue>>

Sleep ==
    /\ Unlock(Cleaner)
    /\ cpc' = "asleep"
    /\ nap' = 0
    /\ todo' = {}
    /\ visiting' = {}
    /\ overdue' = {}

(* Mutant: the error of onDelete ends the cleanup loop for good. *)
OnDeleteFailEnds ==
    /\ cpc = "onDelete"
    /\ Unlock(Cleaner)
    /\ cpc' = "ended"
    /\ UNCHANGED <<gateways, subscribed, setting, getting, nap, todo, visiting, overdue>>

(* An error of onDelete ends the pass: what it did not visit stays. *)
OnDeleteFail ==
    /\ cpc = "onDelete"
    /\ Sleep
    /\ UNCHANGED <<gateways, subscribed, setting, getting>>

(* Mutant: the range loop is left after the first deletion. *)
DeleteBreaks(m) ==
    /\ cpc = "delete"
    /\ m \in visiting
    /\ gateways' = [gateways EXCEPT ![m] = NoGateway]
    /\ cpc' = "scan"
    /\ visiting' = {}
    /\ todo' = {}
    /\ UNCHANGED <<subscribed, lockvars, setting, getting, nap, overdue>>

Delete(m) ==
    /\ cpc = "delete"
    /\ m \in visiting
    /\ gateways' = [gateways EXCEPT ![m] = NoGateway]
    /\ cpc' = "scan"
    /\ visiting' = {}
    /\ UNCHANGED <<subscribed, lockvars, setting, getting, nap, todo, overdue>>

CleanupReturn ==
    /\ cpc = "scan"
    /\ todo = {}
    /\ Sleep
    /\ UNCHANGED <<gateways, subscribed, setting, getting>>

(* time.Sleep(time.Minute) is over. *)
WakeUp ==
    /\ cpc = "asleep"
    /\ nap = CleanupAge
    /\ cpc' = "lock"
    /\ nap' = 0
    /\ UNCHANGED <<gateways, subscribed, lockvars, setting, getting,
                   todo, visiting, overdue>>

-----------------------------------------------------------------------------
Aged(c) == IF c = NoCall THEN c ELSE [c EXCEPT !.gw = Older(c.gw)]

Tick ==
    /\ gateways' = OlderMap(gateways)
    /\ setting' = [s \in Setter |-> Aged(setting[s])]
    /\ nap' = IF cpc = "asleep" /\ nap < CleanupAge THEN nap + 1 ELSE nap
    /\ UNCHANGED <<subscribed, lockvars, getting, cpc, todo, visiting, overdue>>

Next ==
    \/ \E s \in Setter, m \in MAC, a \in Addr, v \in Version : SetCall(s, m, a, v)
    \/ \E s \in Setter : SetLock(s) \/ OnNewOk(s) \/ OnNewFail(s) \/ SetStore(s)
    \/ \E r \in Getter, m \in MAC : GetCall(r, m)
    \/ \E r \in Getter : GetRLock(r) \/ GetRead(r) \/ GetReturn(r)
    \/ CleanupLock
    \/ \E m \in MAC : Visit(m) \/ OnDeleteOk(m) \/ Delete(m)
    \/ OnDeleteFail
    \/ CleanupReturn
    \/ WakeUp
    \/ Tick

Spec == Init /\ [][Next]_vars

(***************************************************************************)
(* Fairness.  A goroutine that can run is run, and the clock advances.  A  *)
(* sync.RWMutex starves neither writers nor readers, so waiting for a lock *)
(* that is free again and again ends (strong fairness).  A callback that   *)
(* is tried again and again succeeds in the end: the bridge's own onDelete *)
(* never fails, and onNew is only required to return.                      *)
(***************************************************************************)
Fairness ==
    /\ WF_vars(Tick)
    /\ \A s \in Setter :
           /\ SF_vars(SetLock(s))
           /\ WF_vars(OnNewOk(s) \/ OnNewFail(s))
           /\ WF_vars(SetStore(s))
    /\ \A r \in Getter :
           /\ SF_vars(GetRLock(r))
           /\ WF_vars(GetRead(r))
    /\ SF_vars(CleanupLock)
    /\ \A m \in MAC :
           /\ WF_vars(Visit(m))
           /\ SF_vars(OnDeleteOk(m))
           /\ WF_vars(Delete(m))
    /\ WF_vars(OnDeleteFail)
    /\ WF_vars(CleanupReturn)
    /\ WF_vars(WakeUp)

FairSpec == Spec /\ Fairness

-----------------------------------------------------------------------------
(***************************************************************************)
(* Whenever nobody holds the write lock, exactly the gateways in the map   *)
(* have a downlink subscription, whatever callbacks failed and wherever    *)
(* set and cleanup returned early.                                         *)
(***************************************************************************)
SubscribedIffRegistered == writer = NoOne => subscribed = Keys(gateways)

(***************************************************************************)
(* onNew is only called for a gateway without subscription and onDelete    *)
(* only for one with a subscription: two set calls for the same new MAC    *)
(* subscribe it once, and a failed onNew or onDelete is not repeated on a  *)
(* gateway it already took effect on (TestGatewaysCallbacks).              *)
(***************************************************************************)
CallbacksAlternate ==
    /\ \A s \in Setter : setting[s].pc = "onNew" => setting[s].mac \notin subscribed
    /\ cpc = "onDelete" => visiting \subseteq subscribed

(***************************************************************************)
(* A cleanup that returns without error leaves no gateway in the map that  *)
(* was expired when it took the lock, in whatever order it visited them.   *)
(***************************************************************************)
CompletePassForgetsOverdue ==
    [][CleanupReturn => overdue \cap Keys(gateways) = {}]_vars

(***************************************************************************)
(* get never sees the registry half way through set or cleanup: it finds   *)
(* a route exactly when the gateway has a downlink subscription.           *)
(***************************************************************************)
GetSeesWholeUpdates ==
    [][\A r \in Getter : GetRead(r) =>
         (getting[r].mac \in subscribed <=> getting'[r].gw # NoGateway)]_vars

(***************************************************************************)
(* The inductive invariant behind the safety properties: who holds which   *)
(* lock, how the subscriptions differ from the map while somebody holds    *)
(* the write lock, and what a cleanup pass still has to visit.             *)
(***************************************************************************)
Arriving == {setting[s].mac : s \in {t \in Setter : setting[t].pc = "store"}} \ Keys(gateways)
Leaving == IF cpc = "delete" THEN visiting ELSE {}

LockInv ==
    /\ \A s \in Setter : setting[s].pc \in {"onNew", "store"} <=> writer = s
    /\ cpc \in {"scan", "onDelete", "delete"} <=> writer = Cleaner
    /\ \A r \in Getter : getting[r].pc = "read" <=> r \in readers
    /\ writer # NoOne => readers = {}

SubscriptionInv ==
    /\ subscribed = (Keys(gateways) \cup Arriving) \ Leaving
    /\ \A s \in Setter : setting[s].pc = "onNew" => setting[s].mac \notin Keys(gateways)

PassInv ==
    /\ todo \subseteq Keys(gateways)
    /\ todo \cap visiting = {}
    /\ cpc \notin {"scan", "onDelete", "delete"} => todo = {} /\ overdue = {}
    /\ cpc \notin {"onDelete", "delete"} => visiting = {}
    /\ cpc \in {"onDelete", "delete"} => \E m \in ExpiredKeys(gateways) : visiting = {m}
    /\ overdue \cap Keys(gateways) \subseteq ExpiredKeys(gateways) \cap (todo \cup visiting)

IInv == TypeOK /\ LockInv /\ SubscriptionInv /\ PassInv

(***************************************************************************)
(* Refinement.  The registry behaves like Registry, where a route and its  *)
(* subscription change together.  Between a successful onNew and the store *)
(* the abstract gateway is not subscribed yet; between a successful        *)
(* onDelete and the delete it still is.                                    *)
(***************************************************************************)
Abstract == INSTANCE Registry WITH
    route <- gateways,
    subscribed <- (subscribed \ Arriving) \cup Leaving

(***************************************************************************)
(* Every step of set, get and cleanup is a step that Registry allows, or   *)
(* is invisible to it: in particular only an expired gateway is deleted,   *)
(* and its subscription goes with it.                                      *)
(***************************************************************************)
ImplementsRegistry == Abstract!RSpec

(***************************************************************************)
(* Every call of set and get returns, although callbacks run under the     *)
(* lock and cleanup competes for it.                                       *)
(***************************************************************************)
CallsReturn ==
    /\ \A s \in Setter : setting[s] # NoCall ~> setting[s] = NoCall
    /\ \A r \in Getter : getting[r].pc = "rlock" ~> getting[r].pc = "return"

(***************************************************************************)
(* A gateway that stays silent is eventually forgotten: an expired entry   *)
(* is deleted, or a PULL_DATA refreshes it, even if onDelete fails for it  *)
(* or for other gateways on the way.                                       *)
(***************************************************************************)
SilentGatewayForgotten ==
    \A m \in MAC : m \in ExpiredKeys(gateways) ~> m \notin ExpiredKeys(gateways)
=============================================================================
