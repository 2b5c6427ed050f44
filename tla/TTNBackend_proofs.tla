------------------------- MODULE TTNBackend_proofs --------------------------
(* Proofs about TTNBackend, for any number of gateways, publishing         *)
(* goroutines, subscriptions and downlinks.                                *)
EXTENDS TTNBackend, TLAPS

(* A gateway has at most one gtw, number one, and whoever uses a gtw uses  *)
(* that one.                                                               *)
GtwInv ==
    /\ \A m \in MAC : gateways[m] = created[m] /\ created[m] <= 1
    /\ \A s \in open : s[2] = gateways[s[1]] /\ s[2] # 0
    /\ \A p \in Publisher :
         pub[p].pc = "send" => pub[p].gtw = gateways[pub[p].mac] /\ pub[p].gtw # 0

(* The account server is not asked for a gateway AddGateway was called for. *)
ConfInv == lookup \cap gatewayConf = {} /\ StaticConfStays

(* Until Close takes the lock, both streams of every gtw are open. *)
OpenInv == Unlocked => \A m \in MAC : gateways[m] # 0 => Streams(m, gateways[m]) \subseteq open

(* A callback subscribes a gateway that is not registered, or unsubscribes *)
(* one that is.                                                            *)
RegInv ==
    /\ reg.pc \in {"subGet", "subNew", "subOpen"} =>
         reg.mac \notin registered /\ downlink[reg.mac] < MaxSub
    /\ reg.pc \in {"unsubGet", "unsubClose"} => reg.mac \in registered
    /\ \A m \in registered : downlink[m] # 0

(* The open streams are the latest ones of the registered gateways, also   *)
(* while a callback runs.                                                  *)
StreamInv ==
    Unlocked => \A m \in MAC, k \in Subs :
                  stream[m][k].st = "open" <=> m \in registered /\ k = downlink[m]

(* The goroutine of a subscription reads the stream of this or of a later  *)
(* subscription.                                                           *)
ServeInv ==
    \A m \in MAC, k \in Subs :
        /\ consumer[m][k].pc # "none" => k <= downlink[m]
        /\ consumer[m][k].pc \notin {"none", "new"} => consumer[m][k].at \in k .. downlink[m]

IInv ==
    /\ TypeOK /\ GtwInv /\ ConfInv /\ OpenInv /\ PublishSafeInService
    /\ RegInv /\ StreamInv /\ ServeInv /\ CurrentStreamServed

-----------------------------------------------------------------------------
(* The state of one stream changes: no other stream is touched. *)
LEMMA SetState ==
    ASSUME stream \in [MAC -> [Subs -> Stream]], NEW m \in MAC, NEW k \in Subs,
           NEW x \in StreamState, stream' = [stream EXCEPT ![m][k].st = x]
    PROVE  /\ stream' \in [MAC -> [Subs -> Stream]]
           /\ \A n \in MAC, j \in Subs :
                /\ stream'[n][j].st = IF n = m /\ j = k THEN x ELSE stream[n][j].st
                /\ stream'[n][j].buf = stream[n][j].buf
<1>1. ASSUME NEW n \in MAC, NEW j \in Subs
      PROVE  /\ stream'[n][j] \in Stream
             /\ stream'[n][j].st = IF n = m /\ j = k THEN x ELSE stream[n][j].st
             /\ stream'[n][j].buf = stream[n][j].buf
    <2>1. stream'[n][j] = IF n = m /\ j = k THEN [stream[m][k] EXCEPT !.st = x]
                                          ELSE stream[n][j]
        OBVIOUS
    <2>2. stream[n][j] \in Stream /\ stream[m][k] \in Stream OBVIOUS
    <2>3. ASSUME NEW r \in Stream
          PROVE  /\ [r EXCEPT !.st = x] \in Stream
                 /\ [r EXCEPT !.st = x].st = x /\ [r EXCEPT !.st = x].buf = r.buf
        BY DEF Stream
    <2>. QED BY <2>1, <2>2, <2>3
<1>2. stream' \in [MAC -> [Subs -> Stream]] BY <1>1
<1>. QED BY <1>1, <1>2

(* The buffer of one stream changes: no stream changes its state. *)
LEMMA SetBuffer ==
    ASSUME stream \in [MAC -> [Subs -> Stream]], NEW m \in MAC, NEW k \in Subs,
           NEW x \in Seq(Downlink), stream' = [stream EXCEPT ![m][k].buf = x]
    PROVE  /\ stream' \in [MAC -> [Subs -> Stream]]
           /\ \A n \in MAC, j \in Subs :
                /\ stream'[n][j].buf = IF n = m /\ j = k THEN x ELSE stream[n][j].buf
                /\ stream'[n][j].st = stream[n][j].st
<1>1. ASSUME NEW n \in MAC, NEW j \in Subs
      PROVE  /\ stream'[n][j] \in Stream
             /\ stream'[n][j].buf = IF n = m /\ j = k THEN x ELSE stream[n][j].buf
             /\ stream'[n][j].st = stream[n][j].st
    <2>1. stream'[n][j] = IF n = m /\ j = k THEN [stream[m][k] EXCEPT !.buf = x]
                                          ELSE stream[n][j]
        OBVIOUS
    <2>2. stream[n][j] \in Stream /\ stream[m][k] \in Stream OBVIOUS
    <2>3. ASSUME NEW r \in Stream
          PROVE  /\ [r EXCEPT !.buf = x] \in Stream
                 /\ [r EXCEPT !.buf = x].buf = x /\ [r EXCEPT !.buf = x].st = r.st
        BY DEF Stream
    <2>. QED BY <2>1, <2>2, <2>3
<1>2. stream' \in [MAC -> [Subs -> Stream]] BY <1>1
<1>. QED BY <1>1, <1>2

(* The goroutine of one subscription goes on. *)
LEMMA SetConsumer ==
    ASSUME consumer \in [MAC -> [Subs -> Consumer]], NEW m \in MAC, NEW k \in Subs,
           NEW x \in ConsumerState, consumer' = [consumer EXCEPT ![m][k].pc = x]
    PROVE  /\ consumer' \in [MAC -> [Subs -> Consumer]]
           /\ \A n \in MAC, j \in Subs :
                /\ consumer'[n][j].pc = IF n = m /\ j = k THEN x ELSE consumer[n][j].pc
                /\ consumer'[n][j].at = consumer[n][j].at
<1>1. ASSUME NEW n \in MAC, NEW j \in Subs
      PROVE  /\ consumer'[n][j] \in Consumer
             /\ consumer'[n][j].pc = IF n = m /\ j = k THEN x ELSE consumer[n][j].pc
             /\ consumer'[n][j].at = consumer[n][j].at
    <2>1. consumer'[n][j] = IF n = m /\ j = k THEN [consumer[m][k] EXCEPT !.pc = x]
                                          ELSE consumer[n][j]
        OBVIOUS
    <2>2. consumer[n][j] \in Consumer /\ consumer[m][k] \in Consumer OBVIOUS
    <2>3. ASSUME NEW r \in Consumer
          PROVE  /\ [r EXCEPT !.pc = x] \in Consumer
                 /\ [r EXCEPT !.pc = x].pc = x /\ [r EXCEPT !.pc = x].at = r.at
        BY DEF Consumer
    <2>. QED BY <2>1, <2>2, <2>3
<1>2. consumer' \in [MAC -> [Subs -> Consumer]] BY <1>1
<1>. QED BY <1>1, <1>2

(* The records of callbacks and publishing goroutines. *)
LEMMA Records ==
    ASSUME TypeOK
    PROVE  /\ reg # Idle => reg \in RegCall
           /\ reg.pc # "idle" => reg # Idle
           /\ \A p \in Publisher : pub[p].pc \in {"get", "new", "send"} => pub[p] \in PubCall
<1>1. reg \in {Idle} \cup RegCall /\ pub \in [Publisher -> {Idle, Done} \cup PubCall]
    BY DEF TypeOK
<1>2. Idle.pc = "idle" /\ Done.pc = "done" BY DEF Idle, Done
<1>. QED BY <1>1, <1>2

(* A publishing goroutine goes on: of the others, whoever sends uses the   *)
(* same gtw as before.                                                     *)
LEMMA SetPublisher ==
    ASSUME TypeOK, NEW p \in Publisher, NEW x \in {Idle, Done} \cup PubCall,
           pub' = [pub EXCEPT ![p] = x]
    PROVE  /\ pub' \in [Publisher -> {Idle, Done} \cup PubCall]
           /\ \A q \in Publisher : pub'[q] = IF q = p THEN x ELSE pub[q]
BY DEF TypeOK

(* The latest stream of a gateway is one of its streams. *)
LEMMA LatestInSubs ==
    ASSUME TypeOK
    PROVE  \A n \in MAC : downlink[n] # 0 => downlink[n] \in Subs
<1>1. downlink \in [MAC -> 0 .. MaxSub] BY DEF TypeOK
<1>. QED BY ONLY <1>1, TTNAssumption DEF Subs

(* The gtws do not change, and nobody but p begins to send. *)
LEMMA SameGtws ==
    ASSUME IInv, NEW p \in Publisher, NEW x \in {Idle, Done} \cup PubCall,
           pub' = [pub EXCEPT ![p] = x], UNCHANGED <<gateways, created, open>>,
           x.pc = "send" => x.gtw = gateways[x.mac] /\ x.gtw # 0
    PROVE  GtwInv'
<1>1. \A q \in Publisher : pub'[q] = IF q = p THEN x ELSE pub[q]
    BY SetPublisher DEF IInv
<1>2. GtwInv BY DEF IInv
<1>. QED BY <1>1, <1>2 DEF GtwInv

-----------------------------------------------------------------------------
(* The invariant holds initially. *)
LEMMA InitIInv == Init => IInv
<1>. SUFFICES ASSUME Init PROVE IInv OBVIOUS
<1>. USE TTNAssumption DEF Init
<1>1. TypeOK
    <2>1. NoStream \in Stream /\ NoStream.buf = <<>> /\ NoStream.st = "none"
        BY DEF NoStream, Stream, StreamState
    <2>2. NoConsumer \in Consumer BY DEF NoConsumer, Consumer, ConsumerState
    <2>3. stream \in [MAC -> [Subs -> Stream]] /\ consumer \in [MAC -> [Subs -> Consumer]]
        BY <2>1, <2>2
    <2>4. \A m \in MAC, k \in Subs : Len(stream[m][k].buf) <= BufferSize
        BY <2>1
    <2>5. /\ gateways \in [MAC -> Nat] /\ created \in [MAC -> Nat]
          /\ downlink \in [MAC -> 0 .. MaxSub] /\ received \in 0 .. MaxRecv
          /\ conf \in [MAC -> {"none", "static", "account"}]
        OBVIOUS
    <2>6. closer \in [pc : {"no", "lock", "next", "uplink", "downlink", "status", "done"},
                      todo : SUBSET MAC, mac : SUBSET MAC]
        OBVIOUS
    <2>. QED BY <2>3, <2>4, <2>5, <2>6 DEF TypeOK
<1>2. GtwInv BY DEF GtwInv, Idle
<1>3. ConfInv /\ OpenInv /\ PublishSafeInService
    BY DEF ConfInv, StaticConfStays, OpenInv, PublishSafeInService
<1>4. RegInv BY DEF RegInv, Idle
<1>5. StreamInv BY DEF StreamInv, NoStream
<1>6. ServeInv /\ CurrentStreamServed BY DEF ServeInv, CurrentStreamServed, NoConsumer
<1>. QED BY <1>1, <1>2, <1>3, <1>4, <1>5, <1>6 DEF IInv

(* newGtw: a gateway gets its first and only gtw, or keeps the one it has. *)
LEMMA NewGtwInv ==
    ASSUME IInv, NEW m \in MAC, NewGtw(m), UNCHANGED closer
    PROVE  /\ gateways' \in [MAC -> Nat] /\ created' \in [MAC -> Nat]
           /\ conf' \in [MAC -> {"none", "static", "account"}]
           /\ gatewayConf' = gatewayConf /\ lookup' \subseteq MAC
           /\ open' \subseteq MAC \X Nat \X Kind
           /\ \A n \in MAC : gateways'[n] = created'[n] /\ created'[n] <= 1
           /\ \A n \in MAC : gateways[n] # 0 => gateways'[n] = gateways[n]
           /\ gateways'[m] # 0
           /\ \A s \in open' : s[2] = gateways'[s[1]] /\ s[2] # 0
           /\ ConfInv' /\ OpenInv'
<1>1. CASE gateways[m] # 0 /\ UNCHANGED ttn
    BY <1>1 DEF ttn, IInv, TypeOK, GtwInv, ConfInv, StaticConfStays, OpenInv,
       Unlocked, Streams
<1>2. CASE gateways[m] = 0
    <2>. USE <1>2 DEF NewGtw
    <2>1. created[m] = 0 BY DEF IInv, GtwInv
    <2>2. /\ gateways' = [gateways EXCEPT ![m] = 1] /\ created' = [created EXCEPT ![m] = 1]
          /\ open' = open \cup Streams(m, 1)
          /\ conf' = [conf EXCEPT ![m] = IF m \in gatewayConf THEN "static" ELSE "none"]
          /\ lookup' = IF m \in gatewayConf THEN lookup ELSE lookup \cup {m}
          /\ gatewayConf' = gatewayConf
        BY <2>1 DEF IInv, TypeOK
    <2>3. /\ gateways' \in [MAC -> Nat] /\ created' \in [MAC -> Nat]
          /\ conf' \in [MAC -> {"none", "static", "account"}] /\ lookup' \subseteq MAC
        BY <2>2 DEF IInv, TypeOK
    <2>4. \A n \in MAC : gateways'[n] = created'[n] /\ created'[n] <= 1
        BY <2>2 DEF IInv, TypeOK, GtwInv
    <2>5. \A s \in Streams(m, 1) : s \in MAC \X Nat \X Kind /\ s[1] = m /\ s[2] = 1
        BY DEF Streams
    <2>6. \A s \in open : s \in MAC \X Nat \X Kind /\ s[1] \in MAC /\ s[1] # m
        BY DEF IInv, TypeOK, GtwInv
    <2>7. \A s \in open' : s[2] = gateways'[s[1]] /\ s[2] # 0
        BY <2>2, <2>5, <2>6 DEF IInv, TypeOK, GtwInv
    <2>8. ConfInv' BY <2>2 DEF IInv, TypeOK, ConfInv, StaticConfStays
    <2>9. OpenInv' BY <2>2 DEF IInv, TypeOK, OpenInv, Unlocked, Streams
    <2>. QED BY <2>2, <2>3, <2>4, <2>5, <2>6, <2>7, <2>8, <2>9 DEF IInv, TypeOK
<1>. QED BY <1>1, <1>2 DEF NewGtw

(* A goroutine starts to publish. *)
LEMMA PublishIInv ==
    ASSUME IInv, NEW p \in Publisher, NEW m \in MAC, NEW k \in Kind, Publish(p, m, k)
    PROVE  IInv'
<1>. USE TTNAssumption DEF IInv, Publish, ttn, down
<1>. DEFINE x == [pc |-> "get", mac |-> m, kind |-> k, gtw |-> 0]
<1>a. x \in PubCall /\ x.pc = "get" BY DEF PubCall
<1>b. pub' \in [Publisher -> {Idle, Done} \cup PubCall] BY <1>a, SetPublisher
<1>1. TypeOK' BY <1>b DEF TypeOK
<1>2. GtwInv' BY <1>a, SameGtws
<1>3. /\ ConfInv' /\ OpenInv' /\ PublishSafeInService' /\ RegInv' /\ StreamInv'
      /\ ServeInv' /\ CurrentStreamServed'
    BY DEF ConfInv, StaticConfStays, OpenInv, Unlocked, PublishSafeInService,
       RegInv, StreamInv, ServeInv, CurrentStreamServed
<1>. QED BY <1>1, <1>2, <1>3

(* The message of a goroutine is taken. *)
LEMMA PublishSendIInv ==
    ASSUME IInv, NEW p \in Publisher, PublishSend(p)
    PROVE  IInv'
<1>. USE TTNAssumption DEF IInv, PublishSend, ttn, down
<1>a. Done \in {Idle, Done} \cup PubCall /\ Done.pc = "done" BY DEF Done
<1>b. pub' \in [Publisher -> {Idle, Done} \cup PubCall] BY <1>a, SetPublisher
<1>1. TypeOK' BY <1>b DEF TypeOK
<1>2. GtwInv' BY <1>a, SameGtws
<1>3. /\ ConfInv' /\ OpenInv' /\ PublishSafeInService' /\ RegInv' /\ StreamInv'
      /\ ServeInv' /\ CurrentStreamServed'
    BY DEF ConfInv, StaticConfStays, OpenInv, Unlocked, PublishSafeInService,
       RegInv, StreamInv, ServeInv, CurrentStreamServed
<1>. QED BY <1>1, <1>2, <1>3

(* getGtw of a publishing goroutine. *)
LEMMA PublishGetIInv ==
    ASSUME IInv, NEW p \in Publisher, PublishGet(p)
    PROVE  IInv'
<1>. USE TTNAssumption DEF IInv, PublishGet, ttn, down
<1>. DEFINE n == gateways[pub[p].mac]
            x == [pub[p] EXCEPT !.pc = IF n = 0 THEN "new" ELSE "send", !.gtw = n]
<1>a. pub[p] \in PubCall BY Records
<1>b. /\ x \in PubCall /\ x.mac = pub[p].mac /\ x.gtw = n
      /\ x.pc = IF n = 0 THEN "new" ELSE "send"
    BY <1>a DEF PubCall, TypeOK
<1>c. pub' = [pub EXCEPT ![p] = x] BY DEF TypeOK
<1>. HIDE DEF x
<1>d. /\ TypeOK /\ UNCHANGED <<gateways, created, open>> BY DEF TypeOK
<1>e. pub' \in [Publisher -> {Idle, Done} \cup PubCall]
    BY ONLY <1>b, <1>c, <1>d, p \in Publisher, SetPublisher
<1>1. TypeOK' BY <1>e DEF TypeOK
<1>2. GtwInv'
    <2>1. x.pc = "send" => x.gtw = gateways[x.mac] /\ x.gtw # 0 BY ONLY <1>b
    <2>. QED BY ONLY IInv, p \in Publisher, <1>b, <1>c, <1>d, <2>1, SameGtws
<1>3. /\ ConfInv' /\ OpenInv' /\ PublishSafeInService' /\ RegInv' /\ StreamInv'
      /\ ServeInv' /\ CurrentStreamServed'
    BY DEF ConfInv, StaticConfStays, OpenInv, Unlocked, PublishSafeInService,
       RegInv, StreamInv, ServeInv, CurrentStreamServed
<1>. QED BY <1>1, <1>2, <1>3

(* newGtw of a publishing goroutine. *)
LEMMA PublishNewIInv ==
    ASSUME IInv, NEW p \in Publisher, PublishNew(p)
    PROVE  IInv'
<1>. USE TTNAssumption DEF IInv, PublishNew, ttn, down
<1>. DEFINE x == [pub[p] EXCEPT !.pc = "send", !.gtw = gateways'[pub[p].mac]]
<1>a. pub[p] \in PubCall /\ pub[p].mac \in MAC /\ NewGtw(pub[p].mac) /\ UNCHANGED closer
    BY Records DEF PubCall
<1>b. /\ gateways' \in [MAC -> Nat] /\ created' \in [MAC -> Nat]
      /\ conf' \in [MAC -> {"none", "static", "account"}]
      /\ gatewayConf' = gatewayConf /\ lookup' \subseteq MAC
      /\ open' \subseteq MAC \X Nat \X Kind
      /\ \A n \in MAC : gateways'[n] = created'[n] /\ created'[n] <= 1
      /\ \A n \in MAC : gateways[n] # 0 => gateways'[n] = gateways[n]
      /\ gateways'[pub[p].mac] # 0
      /\ \A s \in open' : s[2] = gateways'[s[1]] /\ s[2] # 0
    BY <1>a, NewGtwInv
<1>c. /\ x \in PubCall /\ x.mac = pub[p].mac /\ x.gtw = gateways'[pub[p].mac]
      /\ x.pc = "send"
    BY <1>a, <1>b DEF PubCall
<1>d. pub' = [pub EXCEPT ![p] = x] BY DEF TypeOK
<1>. HIDE DEF x
<1>e. /\ pub' \in [Publisher -> {Idle, Done} \cup PubCall]
      /\ \A q \in Publisher : pub'[q] = IF q = p THEN x ELSE pub[q]
    BY <1>c, <1>d, SetPublisher
<1>1. TypeOK' BY <1>b, <1>e DEF TypeOK
<1>2. GtwInv'
    <2>1. ASSUME NEW q \in Publisher, pub'[q].pc = "send"
          PROVE  pub'[q].gtw = gateways'[pub'[q].mac] /\ pub'[q].gtw # 0
        <3>1. CASE q = p BY <3>1, <1>b, <1>c, <1>e
        <3>2. CASE q # p
            <4>1. pub'[q] = pub[q] /\ pub[q] \in PubCall BY <2>1, <3>2, <1>e, Records
            <4>2. pub[q].mac \in MAC BY <4>1 DEF PubCall
            <4>. QED BY <2>1, <4>1, <4>2, <1>b DEF GtwInv
        <3>. QED BY <3>1, <3>2
    <2>. QED BY <2>1, <1>b DEF GtwInv
<1>3. ConfInv' BY <1>a, NewGtwInv
<1>4. OpenInv' BY <1>a, NewGtwInv
<1>5. /\ PublishSafeInService' /\ RegInv' /\ StreamInv' /\ ServeInv'
      /\ CurrentStreamServed'
    BY DEF PublishSafeInService, Unlocked, RegInv, StreamInv, ServeInv,
       CurrentStreamServed
<1>. QED BY <1>1, <1>2, <1>3, <1>4, <1>5

(* A publishing goroutine panics: only after Close has taken the lock. *)
LEMMA PublishPanicsIInv ==
    ASSUME IInv, NEW p \in Publisher, PublishPanics(p)
    PROVE  IInv'
<1>. USE TTNAssumption DEF IInv, PublishPanics, ttn, down
<1>1. PublishSafeInService'
    <2>1. pub[p] \in PubCall /\ pub[p].mac \in MAC
        BY Records DEF PubCall
    <2>2. gateways[pub[p].mac] # 0 /\ pub[p].gtw = gateways[pub[p].mac] BY DEF GtwInv
    <2>3. Target(p) \in Streams(pub[p].mac, gateways[pub[p].mac])
        BY <2>1, <2>2 DEF Target, Streams, PubCall
    <2>4. ~Unlocked BY <2>1, <2>2, <2>3 DEF OpenInv
    <2>. QED BY <2>4 DEF PublishSafeInService, Unlocked
<1>2. /\ TypeOK' /\ GtwInv' /\ ConfInv' /\ OpenInv' /\ RegInv' /\ StreamInv'
      /\ ServeInv' /\ CurrentStreamServed'
    BY DEF TypeOK, GtwInv, ConfInv, StaticConfStays, OpenInv, Unlocked, RegInv,
       StreamInv, ServeInv, CurrentStreamServed
<1>. QED BY <1>1, <1>2

(* The answer of the account server. *)
LEMMA FoundIInv ==
    ASSUME IInv, NEW m \in MAC, Found(m)
    PROVE  IInv'
<1>. USE TTNAssumption DEF IInv, Found, ttn, down
<1>1. TypeOK'
    <2>1. conf' \in [MAC -> {"none", "static", "account"}] /\ lookup' \subseteq MAC
        BY DEF TypeOK
    <2>. QED BY <2>1 DEF TypeOK
<1>2. ConfInv' BY DEF ConfInv, StaticConfStays, TypeOK
<1>3. /\ GtwInv' /\ OpenInv' /\ PublishSafeInService' /\ RegInv' /\ StreamInv'
      /\ ServeInv' /\ CurrentStreamServed'
    BY DEF GtwInv, OpenInv, Unlocked, PublishSafeInService, RegInv, StreamInv,
       ServeInv, CurrentStreamServed
<1>. QED BY <1>1, <1>2, <1>3

(* The registry begins a callback. *)
LEMMA CallbackIInv ==
    ASSUME IInv, NEW m \in MAC, Subscribe(m) \/ Unsubscribe(m)
    PROVE  IInv'
<1>. USE TTNAssumption DEF IInv, Subscribe, Unsubscribe, ttn, down
<1>1. TypeOK'
    <2>1. reg' \in RegCall BY DEF RegCall
    <2>. QED BY <2>1 DEF TypeOK
<1>2. RegInv' BY DEF RegInv, TypeOK
<1>3. /\ GtwInv' /\ ConfInv' /\ OpenInv' /\ PublishSafeInService' /\ StreamInv'
      /\ ServeInv' /\ CurrentStreamServed'
    BY DEF GtwInv, ConfInv, StaticConfStays, OpenInv, Unlocked,
       PublishSafeInService, StreamInv, ServeInv, CurrentStreamServed
<1>. QED BY <1>1, <1>2, <1>3

(* A callback looks the gtw up. *)
LEMMA CallbackGetIInv ==
    ASSUME IInv, SubscribeGet \/ UnsubscribeGet
    PROVE  IInv'
<1>. USE TTNAssumption DEF IInv, SubscribeGet, UnsubscribeGet, ttn, down
<1>a. reg \in RegCall BY Records
<1>1. TypeOK'
    <2>1. reg' \in RegCall BY <1>a DEF RegCall
    <2>. QED BY <2>1 DEF TypeOK
<1>2. RegInv' BY <1>a DEF RegInv, RegCall
<1>3. /\ GtwInv' /\ ConfInv' /\ OpenInv' /\ PublishSafeInService' /\ StreamInv'
      /\ ServeInv' /\ CurrentStreamServed'
    BY DEF GtwInv, ConfInv, StaticConfStays, OpenInv, Unlocked,
       PublishSafeInService, StreamInv, ServeInv, CurrentStreamServed
<1>. QED BY <1>1, <1>2, <1>3

(* newGtw of a subscription. *)
LEMMA SubscribeNewIInv ==
    ASSUME IInv, SubscribeNew
    PROVE  IInv'
<1>. USE TTNAssumption DEF IInv, SubscribeNew, ttn, down
<1>a. reg \in RegCall /\ reg.mac \in MAC /\ NewGtw(reg.mac) /\ UNCHANGED closer
    BY Records DEF RegCall
<1>b. /\ gateways' \in [MAC -> Nat] /\ created' \in [MAC -> Nat]
      /\ conf' \in [MAC -> {"none", "static", "account"}]
      /\ gatewayConf' = gatewayConf /\ lookup' \subseteq MAC
      /\ open' \subseteq MAC \X Nat \X Kind
      /\ \A n \in MAC : gateways'[n] = created'[n] /\ created'[n] <= 1
      /\ \A n \in MAC : gateways[n] # 0 => gateways'[n] = gateways[n]
      /\ gateways'[reg.mac] # 0
      /\ \A s \in open' : s[2] = gateways'[s[1]] /\ s[2] # 0
    BY <1>a, NewGtwInv
<1>1. TypeOK'
    <2>1. reg' \in RegCall BY <1>a DEF RegCall
    <2>. QED BY <1>b, <2>1 DEF TypeOK
<1>2. GtwInv'
    <2>1. ASSUME NEW q \in Publisher, pub[q].pc = "send"
          PROVE  pub[q].gtw = gateways'[pub[q].mac] /\ pub[q].gtw # 0
        <3>1. pub[q].mac \in MAC BY <2>1, Records DEF PubCall
        <3>. QED BY <2>1, <3>1, <1>b DEF GtwInv
    <2>. QED BY <2>1, <1>b DEF GtwInv
<1>3. ConfInv' BY <1>a, NewGtwInv
<1>4. OpenInv' BY <1>a, NewGtwInv
<1>5. RegInv' BY <1>a DEF RegInv, RegCall
<1>6. PublishSafeInService' /\ StreamInv' /\ ServeInv' /\ CurrentStreamServed'
    BY DEF PublishSafeInService, Unlocked, StreamInv, ServeInv, CurrentStreamServed
<1>. QED BY <1>1, <1>2, <1>3, <1>4, <1>5, <1>6

(* A subscription opens its stream: the one before has been closed. *)
LEMMA SubscribeOpenIInv ==
    ASSUME IInv, SubscribeOpen
    PROVE  IInv'
<1>. USE TTNAssumption DEF IInv, SubscribeOpen, ttn, down
<1>. DEFINE m == reg.mac
            k == downlink[m] + 1
<1>a. /\ m \in MAC /\ m \notin registered /\ downlink[m] \in 0 .. MaxSub /\ k \in Subs
      /\ downlink' = [downlink EXCEPT ![m] = k] /\ downlink' \in [MAC -> 0 .. MaxSub]
      /\ downlink[m] < k
    <2>1. reg.pc = "subOpen" /\ TypeOK /\ RegInv /\ downlink' = [downlink EXCEPT ![m] = k]
        OBVIOUS
    <2>2. m \in MAC BY ONLY <2>1, Records DEF RegCall
    <2>3. m \notin registered /\ downlink[m] < MaxSub BY ONLY <2>1 DEF RegInv
    <2>4. downlink \in [MAC -> 0 .. MaxSub] BY ONLY <2>1 DEF TypeOK
    <2>. QED BY ONLY <2>1, <2>2, <2>3, <2>4, TTNAssumption DEF Subs
<1>d. /\ stream' = [stream EXCEPT ![m][k].st = "open"]
      /\ consumer' = [consumer EXCEPT ![m][k].pc = "new"]
      /\ registered' = registered \cup {m}
      /\ stream \in [MAC -> [Subs -> Stream]] /\ consumer \in [MAC -> [Subs -> Consumer]]
      /\ downlink \in [MAC -> 0 .. MaxSub]
    BY DEF TypeOK
<1>. HIDE DEF m, k
<1>b. /\ stream' \in [MAC -> [Subs -> Stream]]
      /\ \A n \in MAC, j \in Subs :
           /\ stream'[n][j].st = IF n = m /\ j = k THEN "open" ELSE stream[n][j].st
           /\ stream'[n][j].buf = stream[n][j].buf
    <2>1. "open" \in StreamState BY DEF StreamState
    <2>. QED BY ONLY <1>a, <1>d, <2>1, SetState
<1>c. /\ consumer' \in [MAC -> [Subs -> Consumer]]
      /\ \A n \in MAC, j \in Subs :
           /\ consumer'[n][j].pc = IF n = m /\ j = k THEN "new" ELSE consumer[n][j].pc
           /\ consumer'[n][j].at = consumer[n][j].at
    <2>1. "new" \in ConsumerState BY DEF ConsumerState
    <2>. QED BY ONLY <1>a, <1>d, <2>1, SetConsumer
<1>1. TypeOK'
    <2>1. \A n \in MAC, j \in Subs : Len(stream'[n][j].buf) <= BufferSize
        BY <1>b DEF TypeOK
    <2>2. registered' \subseteq MAC BY <1>a, <1>d DEF TypeOK
    <2>. QED BY <1>a, <1>b, <1>c, <2>1, <2>2 DEF TypeOK
<1>2. RegInv'
    <2>1. RegInv /\ reg' = Idle OBVIOUS
    <2>2. reg'.pc = "idle" BY ONLY <2>1 DEF Idle
    <2>3. \A n \in registered' : downlink'[n] # 0 BY ONLY <1>a, <1>d, <2>1, TypeOK DEF RegInv, TypeOK
    <2>. QED BY ONLY <2>2, <2>3 DEF RegInv
<1>3. StreamInv'
    <2>1. StreamInv /\ closer' = closer OBVIOUS
    <2>. QED BY ONLY <1>a, <1>b, <1>d, <2>1 DEF StreamInv, Unlocked
<1>4. ServeInv'
    <2>. SUFFICES ASSUME NEW n \in MAC, NEW j \in Subs
                  PROVE  /\ consumer'[n][j].pc # "none" => j <= downlink'[n]
                         /\ consumer'[n][j].pc \notin {"none", "new"} =>
                              consumer'[n][j].at \in j .. downlink'[n]
        BY DEF ServeInv
    <2>1. /\ consumer[n][j].pc # "none" => j <= downlink[n]
          /\ consumer[n][j].pc \notin {"none", "new"} => consumer[n][j].at \in j .. downlink[n]
        BY DEF ServeInv
    <2>2. downlink[n] <= downlink'[n] /\ downlink[n] \in Nat /\ downlink'[n] \in Nat
        BY <1>a, <1>d
    <2>3. j \in Nat BY DEF Subs
    <2>4. CASE n = m /\ j = k
        BY ONLY <1>a, <1>c, <1>d, <2>2, <2>3, <2>4
    <2>5. CASE ~(n = m /\ j = k)
        <3>1. consumer'[n][j].pc = consumer[n][j].pc /\ consumer'[n][j].at = consumer[n][j].at
            BY <1>c, <2>5
        <3>. QED BY ONLY <2>1, <2>2, <2>3, <3>1
    <2>. QED BY <2>4, <2>5
<1>5. CurrentStreamServed'
    <2>1. CurrentStreamServed /\ Subs = 1 .. MaxSub BY DEF Subs
    <2>. QED BY ONLY <1>a, <1>c, <1>d, <2>1 DEF CurrentStreamServed
<1>6. GtwInv' /\ ConfInv' /\ OpenInv' /\ PublishSafeInService'
    BY DEF GtwInv, ConfInv, StaticConfStays, OpenInv, Unlocked, PublishSafeInService
<1>. QED BY <1>1, <1>2, <1>3, <1>4, <1>5, <1>6

(* Close of the latest downlink stream of a gateway: it is not open any    *)
(* more, and the buffers stay as they are.                                 *)
LEMMA CloseDownlinkStream ==
    ASSUME TypeOK, NEW m \in MAC, CloseDownlink(m)
    PROVE  /\ stream' \in [MAC -> [Subs -> Stream]]
           /\ \A n \in MAC, j \in Subs :
                /\ stream'[n][j].st = "open" <=>
                     stream[n][j].st = "open" /\ ~(n = m /\ j = downlink[m])
                /\ stream'[n][j].buf = stream[n][j].buf
<1>. DEFINE k == downlink[m]
<1>1. stream \in [MAC -> [Subs -> Stream]] /\ k \in 0 .. MaxSub BY DEF TypeOK
<1>2. CASE k # 0 /\ stream[m][k].st = "open"
    <2>1. k \in Subs BY <1>1, <1>2, TTNAssumption DEF Subs
    <2>2. stream' = [stream EXCEPT ![m][k].st = "closing"] BY <1>2 DEF CloseDownlink
    <2>3. "closing" \in StreamState BY DEF StreamState
    <2>. HIDE DEF k
    <2>4. /\ stream' \in [MAC -> [Subs -> Stream]]
          /\ \A n \in MAC, j \in Subs :
               /\ stream'[n][j].st = IF n = m /\ j = k THEN "closing" ELSE stream[n][j].st
               /\ stream'[n][j].buf = stream[n][j].buf
        BY ONLY <1>1, <2>1, <2>2, <2>3, m \in MAC, SetState
    <2>5. k = downlink[m] BY DEF k
    <2>. QED BY <2>4, <2>5
<1>3. CASE ~(k # 0 /\ stream[m][k].st = "open")
    <2>1. stream' = stream BY <1>3 DEF CloseDownlink
    <2>2. \A j \in Subs : j = k => stream[m][j].st # "open" BY <1>1, <1>3 DEF Subs
    <2>. QED BY <1>1, <2>1, <2>2
<1>. QED BY <1>2, <1>3

(* A subscription is given up: its stream is not open any more. *)
LEMMA UnsubscribeCloseIInv ==
    ASSUME IInv, UnsubscribeClose
    PROVE  IInv'
<1>. USE TTNAssumption DEF IInv, UnsubscribeClose, ttn, down
<1>a. reg.mac \in MAC /\ CloseDownlink(reg.mac) BY Records DEF RegCall
<1>b. /\ stream' \in [MAC -> [Subs -> Stream]]
      /\ \A n \in MAC, j \in Subs :
           /\ stream'[n][j].st = "open" <=>
                stream[n][j].st = "open" /\ ~(n = reg.mac /\ j = downlink[reg.mac])
           /\ stream'[n][j].buf = stream[n][j].buf
    BY <1>a, CloseDownlinkStream
<1>1. TypeOK'
    <2>1. \A n \in MAC, j \in Subs : Len(stream'[n][j].buf) <= BufferSize
        <3>1. \A n \in MAC, j \in Subs : Len(stream[n][j].buf) <= BufferSize BY DEF TypeOK
        <3>. QED BY ONLY <1>b, <3>1
    <2>. QED BY <1>b, <2>1 DEF TypeOK
<1>2. RegInv' BY DEF RegInv, Idle
<1>3. StreamInv' BY <1>a, <1>b DEF StreamInv, Unlocked, RegInv
<1>4. /\ GtwInv' /\ ConfInv' /\ OpenInv' /\ PublishSafeInService' /\ ServeInv'
      /\ CurrentStreamServed'
    BY DEF GtwInv, ConfInv, StaticConfStays, OpenInv, Unlocked,
       PublishSafeInService, ServeInv, CurrentStreamServed
<1>. QED BY <1>1, <1>2, <1>3, <1>4

(* The router sends a downlink. *)
LEMMA RecvIInv ==
    ASSUME IInv, NEW m \in MAC, NEW k \in Subs, NEW d \in Downlink, Recv(m, k, d)
    PROVE  IInv'
<1>. USE TTNAssumption DEF IInv, Recv, ttn, down
<1>a. /\ stream \in [MAC -> [Subs -> Stream]] /\ received' \in 0 .. MaxRecv
      /\ \A n \in MAC, j \in Subs : Len(stream[n][j].buf) <= BufferSize
    BY DEF TypeOK
<1>b. /\ stream' \in [MAC -> [Subs -> Stream]] /\ received' \in 0 .. MaxRecv
      /\ \A n \in MAC, j \in Subs : /\ stream'[n][j].st = stream[n][j].st
                                    /\ Len(stream'[n][j].buf) <= BufferSize
    <2>1. CASE Len(stream[m][k].buf) < BufferSize
        <3>. DEFINE b == stream[m][k].buf
                    x == Append(b, d)
        <3>1. b \in Seq(Downlink)
            <4>1. stream[m][k] \in Stream BY <1>a
            <4>. QED BY <4>1 DEF Stream
        <3>2. stream' = [stream EXCEPT ![m][k].buf = x] BY <2>1
        <3>. HIDE DEF b
        <3>3. x \in Seq(Downlink) /\ Len(x) = Len(b) + 1 BY <3>1
        <3>4. Len(b) \in Nat BY <3>1
        <3>5. Len(b) < BufferSize BY <2>1 DEF b
        <3>6. Len(x) <= BufferSize BY ONLY <3>3, <3>4, <3>5, TTNAssumption
        <3>. HIDE DEF x
        <3>7. /\ stream' \in [MAC -> [Subs -> Stream]]
              /\ \A n \in MAC, j \in Subs :
                   /\ stream'[n][j].buf = IF n = m /\ j = k THEN x ELSE stream[n][j].buf
                   /\ stream'[n][j].st = stream[n][j].st
            BY ONLY <1>a, <3>2, <3>3, m \in MAC, k \in Subs, SetBuffer
        <3>. QED BY ONLY <1>a, <3>6, <3>7
    <2>2. CASE ~(Len(stream[m][k].buf) < BufferSize) BY <1>a, <2>2
    <2>. QED BY <2>1, <2>2
<1>1. TypeOK' BY <1>b DEF TypeOK
<1>2. StreamInv' BY <1>b DEF StreamInv, Unlocked
<1>3. /\ GtwInv' /\ ConfInv' /\ OpenInv' /\ PublishSafeInService' /\ RegInv'
      /\ ServeInv' /\ CurrentStreamServed'
    BY DEF GtwInv, ConfInv, StaticConfStays, OpenInv, Unlocked,
       PublishSafeInService, RegInv, ServeInv, CurrentStreamServed
<1>. QED BY <1>1, <1>2, <1>3

(* The channel of a closed stream is closed. *)
LEMMA StreamEndsIInv ==
    ASSUME IInv, NEW m \in MAC, NEW k \in Subs, StreamEnds(m, k)
    PROVE  IInv'
<1>. USE TTNAssumption DEF IInv, StreamEnds, ttn, down
<1>a. stream \in [MAC -> [Subs -> Stream]] /\ "ended" \in StreamState
    BY DEF TypeOK, StreamState
<1>b. /\ stream' \in [MAC -> [Subs -> Stream]]
      /\ \A n \in MAC, j \in Subs :
           /\ stream'[n][j].st = IF n = m /\ j = k THEN "ended" ELSE stream[n][j].st
           /\ stream'[n][j].buf = stream[n][j].buf
    BY <1>a, SetState
<1>1. TypeOK'
    <2>1. \A n \in MAC, j \in Subs : Len(stream'[n][j].buf) <= BufferSize
        <3>1. \A n \in MAC, j \in Subs : Len(stream[n][j].buf) <= BufferSize BY DEF TypeOK
        <3>. QED BY ONLY <1>b, <3>1
    <2>. QED BY <1>b, <2>1 DEF TypeOK
<1>2. StreamInv' BY <1>b DEF StreamInv, Unlocked
<1>3. /\ GtwInv' /\ ConfInv' /\ OpenInv' /\ PublishSafeInService' /\ RegInv'
      /\ ServeInv' /\ CurrentStreamServed'
    BY DEF GtwInv, ConfInv, StaticConfStays, OpenInv, Unlocked,
       PublishSafeInService, RegInv, ServeInv, CurrentStreamServed
<1>. QED BY <1>1, <1>2, <1>3

(* A goroutine has read its stream to the end. *)
LEMMA ConsumerEndsIInv ==
    ASSUME IInv, NEW m \in MAC, NEW k \in Subs, ConsumerEnds(m, k)
    PROVE  IInv'
<1>. USE TTNAssumption DEF IInv, ConsumerEnds, ttn, down
<1>a. consumer \in [MAC -> [Subs -> Consumer]] /\ "done" \in ConsumerState
    BY DEF TypeOK, ConsumerState
<1>b. /\ consumer' \in [MAC -> [Subs -> Consumer]]
      /\ \A n \in MAC, j \in Subs :
           /\ consumer'[n][j].pc = IF n = m /\ j = k THEN "done" ELSE consumer[n][j].pc
           /\ consumer'[n][j].at = consumer[n][j].at
    BY <1>a, SetConsumer
<1>c. \A n \in MAC : downlink[n] # 0 => downlink[n] \in Subs BY LatestInSubs
<1>1. TypeOK' BY <1>b DEF TypeOK
<1>2. ServeInv' BY <1>b DEF ServeInv
<1>3. CurrentStreamServed'
    <2>1. CurrentStreamServed /\ downlink' = downlink /\ consumer[m][k].pc # "new" OBVIOUS
    <2>. QED BY ONLY <1>b, <1>c, <2>1 DEF CurrentStreamServed
<1>4. GtwInv' /\ ConfInv' /\ OpenInv' /\ PublishSafeInService' /\ RegInv' /\ StreamInv'
    BY DEF GtwInv, ConfInv, StaticConfStays, OpenInv, Unlocked,
       PublishSafeInService, RegInv, StreamInv
<1>. QED BY <1>1, <1>2, <1>3, <1>4

(* A goroutine hands its downlink to the loop of main.go. *)
LEMMA ConsumerPushIInv ==
    ASSUME IInv, NEW m \in MAC, NEW k \in Subs, ConsumerPush(m, k)
    PROVE  IInv'
<1>. USE TTNAssumption DEF IInv, ConsumerPush, ttn, down
<1>a. consumer \in [MAC -> [Subs -> Consumer]] /\ "range" \in ConsumerState
    BY DEF TypeOK, ConsumerState
<1>b. /\ consumer' \in [MAC -> [Subs -> Consumer]]
      /\ \A n \in MAC, j \in Subs :
           /\ consumer'[n][j].pc = IF n = m /\ j = k THEN "range" ELSE consumer[n][j].pc
           /\ consumer'[n][j].at = consumer[n][j].at
    BY <1>a, SetConsumer
<1>c. \A n \in MAC : downlink[n] # 0 => downlink[n] \in Subs BY LatestInSubs
<1>1. TypeOK' BY <1>b DEF TypeOK
<1>2. ServeInv' BY <1>b DEF ServeInv
<1>3. CurrentStreamServed'
    <2>1. CurrentStreamServed /\ downlink' = downlink /\ consumer[m][k].pc # "new" OBVIOUS
    <2>. QED BY ONLY <1>b, <1>c, <2>1 DEF CurrentStreamServed
<1>4. GtwInv' /\ ConfInv' /\ OpenInv' /\ PublishSafeInService' /\ RegInv' /\ StreamInv'
    BY DEF GtwInv, ConfInv, StaticConfStays, OpenInv, Unlocked,
       PublishSafeInService, RegInv, StreamInv
<1>. QED BY <1>1, <1>2, <1>3, <1>4

(* A goroutine starts: it reads the stream of the field. *)
LEMMA ConsumerStartIInv ==
    ASSUME IInv, NEW m \in MAC, NEW k \in Subs, ConsumerStart(m, k)
    PROVE  IInv'
<1>. USE TTNAssumption DEF IInv, ConsumerStart, ttn, down
<1>. DEFINE x == [pc |-> "range", at |-> downlink[m]]
<1>a. /\ consumer \in [MAC -> [Subs -> Consumer]] /\ x \in Consumer
      /\ x.pc = "range" /\ x.at = downlink[m]
    BY DEF TypeOK, Consumer, ConsumerState
<1>b. /\ consumer' \in [MAC -> [Subs -> Consumer]]
      /\ \A n \in MAC, j \in Subs :
           /\ consumer'[n][j].pc = IF n = m /\ j = k THEN "range" ELSE consumer[n][j].pc
           /\ consumer'[n][j].at = IF n = m /\ j = k THEN downlink[m] ELSE consumer[n][j].at
    <2>1. consumer' = [consumer EXCEPT ![m][k] = x] OBVIOUS
    <2>. HIDE DEF x
    <2>2. \A n \in MAC, j \in Subs :
            consumer'[n][j] = IF n = m /\ j = k THEN x ELSE consumer[n][j]
        BY ONLY <1>a, <2>1, m \in MAC, k \in Subs
    <2>3. consumer' \in [MAC -> [Subs -> Consumer]]
        BY ONLY <1>a, <2>1, <2>2, m \in MAC, k \in Subs
    <2>. QED BY <1>a, <2>2, <2>3
<1>c. \A n \in MAC : downlink[n] # 0 => downlink[n] \in Subs BY LatestInSubs
<1>1. TypeOK' BY <1>b DEF TypeOK
<1>2. ServeInv'
    <2>1. k \in Nat /\ downlink[m] \in Nat /\ k <= downlink[m]
        BY DEF Subs, TypeOK, ServeInv
    <2>2. downlink[m] \in k .. downlink[m] BY ONLY <2>1
    <2>. QED BY <1>b, <2>1, <2>2 DEF ServeInv
<1>3. CurrentStreamServed'
    <2>1. CurrentStreamServed /\ downlink' = downlink OBVIOUS
    <2>. QED BY ONLY <1>b, <1>c, <2>1 DEF CurrentStreamServed
<1>4. GtwInv' /\ ConfInv' /\ OpenInv' /\ PublishSafeInService' /\ RegInv' /\ StreamInv'
    BY DEF GtwInv, ConfInv, StaticConfStays, OpenInv, Unlocked,
       PublishSafeInService, RegInv, StreamInv
<1>. QED BY <1>1, <1>2, <1>3, <1>4

(* A goroutine takes a downlink out of its stream. *)
LEMMA ConsumerTakeIInv ==
    ASSUME IInv, NEW m \in MAC, NEW k \in Subs, ConsumerTake(m, k)
    PROVE  IInv'
<1>. USE TTNAssumption DEF IInv, ConsumerTake, ttn, down
<1>. DEFINE a == consumer[m][k].at
            buf == stream[m][a].buf
<1>a. /\ stream \in [MAC -> [Subs -> Stream]] /\ consumer \in [MAC -> [Subs -> Consumer]]
      /\ \A n \in MAC, j \in Subs : Len(stream[n][j].buf) <= BufferSize
      /\ a \in Subs
    <2>1. k \in 1 .. MaxSub /\ downlink[m] \in 0 .. MaxSub /\ a \in k .. downlink[m]
        BY DEF TypeOK, ServeInv, Subs
    <2>2. a \in Subs BY ONLY <2>1, TTNAssumption DEF Subs
    <2>. QED BY <2>2 DEF TypeOK
<1>b. /\ stream' \in [MAC -> [Subs -> Stream]]
      /\ \A n \in MAC, j \in Subs : /\ stream'[n][j].st = stream[n][j].st
                                    /\ Len(stream'[n][j].buf) <= BufferSize
    <2>. DEFINE x == Tail(buf)
    <2>1. buf \in Seq(Downlink)
        <3>1. stream[m][a] \in Stream BY <1>a
        <3>. QED BY <3>1 DEF Stream
    <2>2. stream' = [stream EXCEPT ![m][a].buf = x] /\ buf # <<>> OBVIOUS
    <2>3. Len(buf) <= BufferSize BY <1>a
    <2>. HIDE DEF a, buf
    <2>4. x \in Seq(Downlink) /\ Len(x) = Len(buf) - 1 /\ Len(buf) \in Nat BY ONLY <2>1, <2>2
    <2>5. Len(x) <= BufferSize BY ONLY <2>3, <2>4, TTNAssumption
    <2>. HIDE DEF x
    <2>6. /\ stream' \in [MAC -> [Subs -> Stream]]
          /\ \A n \in MAC, j \in Subs :
               /\ stream'[n][j].buf = IF n = m /\ j = a THEN x ELSE stream[n][j].buf
               /\ stream'[n][j].st = stream[n][j].st
        BY ONLY <1>a, <2>2, <2>4, m \in MAC, SetBuffer
    <2>. QED BY ONLY <1>a, <2>5, <2>6
<1>c. /\ consumer' \in [MAC -> [Subs -> Consumer]]
      /\ \A n \in MAC, j \in Subs :
           /\ consumer'[n][j].pc \in {"none", "new"} <=> consumer[n][j].pc \in {"none", "new"}
           /\ consumer'[n][j].pc = "new" <=> consumer[n][j].pc = "new"
           /\ consumer'[n][j].at = consumer[n][j].at
    <2>1. CASE consumer' = [consumer EXCEPT ![m][k].pc = "push"]
        <3>1. "push" \in ConsumerState BY DEF ConsumerState
        <3>2. /\ consumer' \in [MAC -> [Subs -> Consumer]]
              /\ \A n \in MAC, j \in Subs :
                   /\ consumer'[n][j].pc = IF n = m /\ j = k THEN "push" ELSE consumer[n][j].pc
                   /\ consumer'[n][j].at = consumer[n][j].at
            BY ONLY <1>a, <2>1, <3>1, m \in MAC, k \in Subs, SetConsumer
        <3>3. consumer[m][k].pc = "range" OBVIOUS
        <3>. QED BY ONLY <3>2, <3>3, m \in MAC, k \in Subs
    <2>2. CASE consumer' = consumer BY <1>a, <2>2
    <2>. QED BY <2>1, <2>2
<1>d. \A n \in MAC : downlink[n] # 0 => downlink[n] \in Subs BY LatestInSubs
<1>e. proc' \in {"running", "sendPanic", "nilPanic", "exited"} BY DEF TypeOK
<1>. HIDE DEF a, buf
<1>1. TypeOK' BY <1>b, <1>c, <1>e DEF TypeOK
<1>2. PublishSafeInService' BY DEF PublishSafeInService, Unlocked, Running
<1>3. StreamInv'
    <2>1. StreamInv /\ UNCHANGED <<registered, downlink, closer>> OBVIOUS
    <2>. QED BY ONLY <1>b, <2>1 DEF StreamInv, Unlocked
<1>4. ServeInv'
    <2>1. ServeInv /\ downlink' = downlink OBVIOUS
    <2>. QED BY ONLY <1>c, <2>1 DEF ServeInv
<1>5. CurrentStreamServed'
    <2>1. CurrentStreamServed /\ downlink' = downlink OBVIOUS
    <2>. QED BY ONLY <1>c, <1>d, <2>1 DEF CurrentStreamServed
<1>6. GtwInv' /\ ConfInv' /\ OpenInv' /\ RegInv'
    BY DEF GtwInv, ConfInv, StaticConfStays, OpenInv, Unlocked, RegInv
<1>. QED BY <1>1, <1>2, <1>3, <1>4, <1>5, <1>6

(* Send looks the gateway up. *)
LEMMA TxSendIInv ==
    ASSUME IInv, TxSend
    PROVE  IInv'
<1>. USE TTNAssumption DEF IInv, TxSend, ttn, down
<1>1. /\ TypeOK' /\ GtwInv' /\ ConfInv' /\ OpenInv' /\ PublishSafeInService'
      /\ RegInv' /\ StreamInv' /\ ServeInv' /\ CurrentStreamServed'
    BY DEF TypeOK, GtwInv, ConfInv, StaticConfStays, OpenInv, Unlocked,
       PublishSafeInService, RegInv, StreamInv, ServeInv, CurrentStreamServed
<1>. QED BY <1>1

(* The shutdown begins. *)
LEMMA SignalIInv ==
    ASSUME IInv, Signal
    PROVE  IInv'
<1>. USE TTNAssumption DEF IInv, Signal, ttn, down
<1>1. TypeOK'
    <2>1. closer' \in [pc : {"no", "lock", "next", "uplink", "downlink", "status", "done"},
                       todo : SUBSET MAC, mac : SUBSET MAC]
        BY DEF TypeOK
    <2>. QED BY <2>1 DEF TypeOK
<1>2. OpenInv' BY DEF OpenInv, Unlocked, TypeOK
<1>3. PublishSafeInService' BY DEF PublishSafeInService, Unlocked, TypeOK, Running
<1>4. StreamInv' BY DEF StreamInv, Unlocked, TypeOK
<1>5. GtwInv' /\ ConfInv' /\ RegInv' /\ ServeInv' /\ CurrentStreamServed'
    BY DEF GtwInv, ConfInv, StaticConfStays, RegInv, ServeInv, CurrentStreamServed
<1>. QED BY <1>1, <1>2, <1>3, <1>4, <1>5

(* Close takes the lock. *)
LEMMA CloseLockIInv ==
    ASSUME IInv, CloseLock
    PROVE  IInv'
<1>. USE TTNAssumption DEF IInv, CloseLock, ttn, down
<1>1. TypeOK'
    <2>1. closer' \in [pc : {"no", "lock", "next", "uplink", "downlink", "status", "done"},
                       todo : SUBSET MAC, mac : SUBSET MAC]
        BY DEF TypeOK
    <2>. QED BY <2>1 DEF TypeOK
<1>2. OpenInv' BY DEF OpenInv, Unlocked, TypeOK
<1>3. PublishSafeInService' BY DEF PublishSafeInService, Unlocked, TypeOK, Running
<1>4. StreamInv' BY DEF StreamInv, Unlocked, TypeOK
<1>5. GtwInv' /\ ConfInv' /\ RegInv' /\ ServeInv' /\ CurrentStreamServed'
    BY DEF GtwInv, ConfInv, StaticConfStays, RegInv, ServeInv, CurrentStreamServed
<1>. QED BY <1>1, <1>2, <1>3, <1>4, <1>5

(* Close goes on with the next gtw. *)
LEMMA CloseNextIInv ==
    ASSUME IInv, NEW m \in MAC, CloseNext(m)
    PROVE  IInv'
<1>. USE TTNAssumption DEF IInv, CloseNext, ttn, down
<1>1. TypeOK'
    <2>1. closer' \in [pc : {"no", "lock", "next", "uplink", "downlink", "status", "done"},
                       todo : SUBSET MAC, mac : SUBSET MAC]
        BY DEF TypeOK
    <2>. QED BY <2>1 DEF TypeOK
<1>2. OpenInv' BY DEF OpenInv, Unlocked, TypeOK
<1>3. PublishSafeInService' BY DEF PublishSafeInService, Unlocked, TypeOK, Running
<1>4. StreamInv' BY DEF StreamInv, Unlocked, TypeOK
<1>5. GtwInv' /\ ConfInv' /\ RegInv' /\ ServeInv' /\ CurrentStreamServed'
    BY DEF GtwInv, ConfInv, StaticConfStays, RegInv, ServeInv, CurrentStreamServed
<1>. QED BY <1>1, <1>2, <1>3, <1>4, <1>5

(* gtw.Close closes the uplink or the status stream. *)
LEMMA CloseOpenIInv ==
    ASSUME IInv, NEW m \in MAC, CloseUplink(m) \/ CloseStatus(m)
    PROVE  IInv'
<1>. USE TTNAssumption DEF IInv, CloseUplink, CloseStatus, ttn, down
<1>z. closer' \in [pc : {"no", "lock", "next", "uplink", "downlink", "status", "done"},
                  todo : SUBSET MAC, mac : SUBSET MAC] /\ closer'.pc \notin {"no", "lock"}
    BY DEF TypeOK
<1>1. TypeOK'
    <2>1. open' \subseteq MAC \X Nat \X Kind BY DEF TypeOK
    <2>. QED BY <1>z, <2>1 DEF TypeOK
<1>2. OpenInv' BY <1>z DEF OpenInv, Unlocked
<1>3. PublishSafeInService' BY <1>z DEF PublishSafeInService, Unlocked
<1>4. StreamInv' BY <1>z DEF StreamInv, Unlocked
<1>5. GtwInv' /\ ConfInv' /\ RegInv' /\ ServeInv' /\ CurrentStreamServed'
    BY DEF GtwInv, ConfInv, StaticConfStays, RegInv, ServeInv, CurrentStreamServed
<1>. QED BY <1>1, <1>2, <1>3, <1>4, <1>5

(* gtw.Close closes the downlink stream. *)
LEMMA CloseDownIInv ==
    ASSUME IInv, NEW m \in MAC, CloseDown(m)
    PROVE  IInv'
<1>. USE TTNAssumption DEF IInv, CloseDown, ttn, down
<1>z. closer' \in [pc : {"no", "lock", "next", "uplink", "downlink", "status", "done"},
                  todo : SUBSET MAC, mac : SUBSET MAC] /\ closer'.pc \notin {"no", "lock"}
    BY DEF TypeOK
<1>a. CloseDownlink(m) /\ TypeOK OBVIOUS
<1>b. /\ stream' \in [MAC -> [Subs -> Stream]]
      /\ \A n \in MAC, j \in Subs :
           /\ stream'[n][j].st = "open" <=>
                stream[n][j].st = "open" /\ ~(n = m /\ j = downlink[m])
           /\ stream'[n][j].buf = stream[n][j].buf
    BY <1>a, CloseDownlinkStream
<1>1. TypeOK'
    <2>1. \A n \in MAC, j \in Subs : Len(stream'[n][j].buf) <= BufferSize
        <3>1. \A n \in MAC, j \in Subs : Len(stream[n][j].buf) <= BufferSize BY DEF TypeOK
        <3>. QED BY ONLY <1>b, <3>1
    <2>. QED BY <1>z, <1>b, <2>1 DEF TypeOK
<1>2. OpenInv' BY <1>z DEF OpenInv, Unlocked
<1>3. PublishSafeInService' BY <1>z DEF PublishSafeInService, Unlocked
<1>4. StreamInv' BY <1>z DEF StreamInv, Unlocked
<1>5. GtwInv' /\ ConfInv' /\ RegInv' /\ ServeInv' /\ CurrentStreamServed'
    BY DEF GtwInv, ConfInv, StaticConfStays, RegInv, ServeInv, CurrentStreamServed
<1>. QED BY <1>1, <1>2, <1>3, <1>4, <1>5

(* The process exits. *)
LEMMA ExitIInv ==
    ASSUME IInv, Exit
    PROVE  IInv'
<1>. USE TTNAssumption DEF IInv, Exit, ttn, down
<1>z. closer' \in [pc : {"no", "lock", "next", "uplink", "downlink", "status", "done"},
                  todo : SUBSET MAC, mac : SUBSET MAC] /\ closer'.pc \notin {"no", "lock"}
    BY DEF TypeOK
<1>1. TypeOK' BY <1>z DEF TypeOK
<1>2. OpenInv' BY <1>z DEF OpenInv, Unlocked
<1>3. PublishSafeInService' BY <1>z DEF PublishSafeInService, Unlocked
<1>4. StreamInv' BY <1>z DEF StreamInv, Unlocked
<1>5. GtwInv' /\ ConfInv' /\ RegInv' /\ ServeInv' /\ CurrentStreamServed'
    BY DEF GtwInv, ConfInv, StaticConfStays, RegInv, ServeInv, CurrentStreamServed
<1>. QED BY <1>1, <1>2, <1>3, <1>4, <1>5

(* Nothing changes. *)
LEMMA StutterIInv ==
    ASSUME IInv, UNCHANGED vars
    PROVE  IInv'
<1>. USE TTNAssumption DEF IInv, vars, ttn, down
<1>1. /\ TypeOK' /\ GtwInv' /\ ConfInv' /\ OpenInv' /\ PublishSafeInService'
      /\ RegInv' /\ StreamInv' /\ ServeInv' /\ CurrentStreamServed'
    BY DEF TypeOK, GtwInv, ConfInv, StaticConfStays, OpenInv, Unlocked,
       PublishSafeInService, RegInv, StreamInv, ServeInv, CurrentStreamServed
<1>. QED BY <1>1

(* Every step keeps the invariant. *)
LEMMA NextIInv == IInv /\ [Next]_vars => IInv'
<1>. SUFFICES ASSUME IInv, [Next]_vars PROVE IInv' OBVIOUS
<1>1. ASSUME NEW p \in Publisher, Publishing(p) PROVE IInv'
    BY <1>1, PublishGetIInv, PublishNewIInv, PublishSendIInv,
       PublishPanicsIInv DEF Publishing
<1>2. ASSUME NEW p \in Publisher, NEW m \in MAC, NEW k \in Kind, Publish(p, m, k) PROVE IInv'
    BY <1>2, PublishIInv
<1>3. ASSUME NEW m \in MAC, Subscribe(m) \/ Unsubscribe(m) \/ Found(m) PROVE IInv'
    BY <1>3, CallbackIInv, FoundIInv
<1>4. ASSUME NEW m \in MAC, NEW k \in Subs, Consuming(m, k) PROVE IInv'
    BY <1>4, ConsumerStartIInv, ConsumerTakeIInv, ConsumerEndsIInv, ConsumerPushIInv
       DEF Consuming
<1>5. ASSUME NEW m \in MAC, NEW k \in Subs,
             StreamEnds(m, k) \/ \E d \in Downlink : Recv(m, k, d)
      PROVE  IInv'
    BY <1>5, StreamEndsIInv, RecvIInv
<1>6. ASSUME Callback PROVE IInv'
    BY <1>6, CallbackGetIInv, SubscribeNewIInv, SubscribeOpenIInv, UnsubscribeCloseIInv
       DEF Callback
<1>7. ASSUME TxSend \/ Signal PROVE IInv' BY <1>7, TxSendIInv, SignalIInv
<1>8. ASSUME Closing PROVE IInv'
    BY <1>8, CloseLockIInv, ExitIInv, CloseNextIInv, CloseOpenIInv,
       CloseDownIInv DEF Closing
<1>9. ASSUME Ended \/ UNCHANGED vars PROVE IInv' BY <1>9, StutterIInv DEF Ended
<1>. QED BY <1>1, <1>2, <1>3, <1>4, <1>5, <1>6, <1>7, <1>8, <1>9 DEF Next

(* The invariant holds in every reachable state. *)
THEOREM IInvHolds == Spec => []IInv
BY InitIInv, NextIInv, PTL DEF Spec

(* However uplinks, statuses and subscriptions race through getGtw and     *)
(* newGtw, a gateway gets one gtw and everyone uses it; the account server *)
(* never replaces the configuration AddGateway was given.                  *)
THEOREM OneGtw == Spec => []TTNInv
<1>1. IInv => TTNInv
    <2>. SUFFICES ASSUME IInv PROVE TTNInv OBVIOUS
    <2>1. OneGtwPerGateway BY DEF IInv, GtwInv, OneGtwPerGateway
    <2>. QED BY <2>1 DEF IInv, ConfInv, TTNInv
<1>. QED BY <1>1, IInvHolds, PTL

(* As long as Close has not taken the lock, no publishing goroutine meets  *)
(* a closed stream, however often its gateway is removed and comes back.   *)
THEOREM PublishingIsSafe == Spec => []PublishSafeInService
<1>1. IInv => PublishSafeInService BY DEF IInv
<1>. QED BY <1>1, IInvHolds, PTL

(* Until the shutdown, exactly the gateways of the registry have an open   *)
(* downlink stream, and it is their latest one.                            *)
THEOREM SubscriptionsAreRegistered == Spec => []SubscriptionFollowsRegistry
<1>1. IInv => SubscriptionFollowsRegistry
    BY DEF IInv, StreamInv, SubscriptionFollowsRegistry
<1>. QED BY <1>1, IInvHolds, PTL

(* The latest stream of a gateway has a reader, whatever the order in      *)
(* which the goroutines of its subscriptions start.                        *)
THEOREM LatestStreamHasReader == Spec => []CurrentStreamServed
<1>1. IInv => CurrentStreamServed BY DEF IInv
<1>. QED BY <1>1, IInvHolds, PTL

-----------------------------------------------------------------------------
(* The steps that touch the gtws, their configuration and their streams:   *)
(* newGtw, the answer of the account server, and Close, which only closes  *)
(* streams.                                                                *)
LEMMA GtwSteps ==
    ASSUME IInv, [Next]_vars
    PROVE  \/ \E m \in MAC : NewGtw(m) \/ Found(m)
           \/ /\ UNCHANGED <<gatewayConf, gateways, created, conf, lookup>>
              /\ open' \subseteq open
<1>. USE DEF ttn
<1>1. ASSUME NEW p \in Publisher, PublishNew(p) PROVE \E m \in MAC : NewGtw(m)
    <2>1. pub[p].mac \in MAC BY <1>1, Records DEF IInv, PublishNew, PubCall
    <2>. QED BY <1>1, <2>1 DEF PublishNew
<1>2. ASSUME SubscribeNew PROVE \E m \in MAC : NewGtw(m)
    <2>1. reg.mac \in MAC BY <1>2, Records DEF IInv, SubscribeNew, RegCall
    <2>. QED BY <1>2, <2>1 DEF SubscribeNew
<1>3. ASSUME NEW p \in Publisher, PublishGet(p) \/ PublishSend(p) \/ PublishPanics(p)
      PROVE  UNCHANGED ttn
    BY <1>3 DEF PublishGet, PublishSend, PublishPanics
<1>4. ASSUME NEW p \in Publisher, NEW m \in MAC, NEW k \in Kind, Publish(p, m, k)
      PROVE  UNCHANGED ttn
    BY <1>4 DEF Publish
<1>5. ASSUME NEW m \in MAC, Subscribe(m) \/ Unsubscribe(m) PROVE UNCHANGED ttn
    BY <1>5 DEF Subscribe, Unsubscribe
<1>6. ASSUME NEW m \in MAC, NEW k \in Subs, Consuming(m, k) \/ StreamEnds(m, k)
      PROVE  UNCHANGED ttn
    BY <1>6 DEF Consuming, ConsumerStart, ConsumerTake, ConsumerEnds, ConsumerPush, StreamEnds
<1>7. ASSUME NEW m \in MAC, NEW k \in Subs, NEW d \in Downlink, Recv(m, k, d)
      PROVE  UNCHANGED ttn
    BY <1>7 DEF Recv
<1>8. ASSUME SubscribeGet \/ SubscribeOpen \/ UnsubscribeGet \/ UnsubscribeClose
      PROVE  UNCHANGED ttn
    BY <1>8 DEF SubscribeGet, SubscribeOpen, UnsubscribeGet, UnsubscribeClose
<1>9. ASSUME TxSend \/ Signal \/ CloseLock \/ Exit \/ Ended \/ UNCHANGED vars
      PROVE  UNCHANGED ttn
    BY <1>9 DEF TxSend, Signal, CloseLock, Exit, Ended, vars
<1>10. ASSUME NEW m \in MAC, CloseNext(m) \/ CloseDown(m) PROVE UNCHANGED ttn
    BY <1>10 DEF CloseNext, CloseDown
<1>11. ASSUME NEW m \in MAC, CloseUplink(m) \/ CloseStatus(m)
       PROVE  /\ UNCHANGED <<gatewayConf, gateways, created, conf, lookup>>
              /\ open' \subseteq open
    BY <1>11 DEF CloseUplink, CloseStatus
<1>. QED BY <1>1, <1>2, <1>3, <1>4, <1>5, <1>6, <1>7, <1>8, <1>9, <1>10, <1>11
         DEF Next, Publishing, Callback, Closing

(* A gtw stays in the map until the process ends, even after Close: the    *)
(* gateway is never given another one, and a stream of it that has been    *)
(* closed is never open again.                                             *)
GtwIsKept ==
    [][\A m \in MAC : gateways[m] # 0 =>
         /\ gateways'[m] = gateways[m]
         /\ \A s \in open' : s[1] = m => s \in open]_vars

(* Expiry, return and shutdown of a gateway leave its gtw in place: what a *)
(* publishing goroutine has read from the map can not go stale.            *)
THEOREM GtwStays == Spec => GtwIsKept
<1>1. ASSUME IInv, [Next]_vars, NEW m \in MAC, gateways[m] # 0
      PROVE  gateways'[m] = gateways[m] /\ \A s \in open' : s[1] = m => s \in open
    <2>1. ASSUME NEW n \in MAC, NewGtw(n)
          PROVE  gateways'[m] = gateways[m] /\ \A s \in open' : s[1] = m => s \in open
        <3>1. CASE gateways[n] # 0 BY <2>1, <3>1 DEF NewGtw, ttn
        <3>2. CASE gateways[n] = 0
            <4>1. /\ gateways' = [gateways EXCEPT ![n] = created[n] + 1]
                  /\ open' = open \cup Streams(n, created[n] + 1)
                BY <2>1, <3>2 DEF NewGtw
            <4>2. n # m BY <1>1, <3>2
            <4>3. gateways \in [MAC -> Nat] BY <1>1 DEF IInv, TypeOK
            <4>4. \A s \in Streams(n, created[n] + 1) : s[1] = n BY DEF Streams
            <4>. QED BY ONLY <4>1, <4>2, <4>3, <4>4, m \in MAC, n \in MAC
        <3>. QED BY <3>1, <3>2
    <2>2. ASSUME NEW n \in MAC, Found(n) PROVE UNCHANGED <<gateways, open>>
        BY <2>2 DEF Found
    <2>. QED BY <1>1, <2>1, <2>2, GtwSteps
<1>2. IInv /\ [Next]_vars =>
        [\A m \in MAC : gateways[m] # 0 =>
           /\ gateways'[m] = gateways[m]
           /\ \A s \in open' : s[1] = m => s \in open]_vars
    BY <1>1
<1>. QED BY <1>2, IInvHolds, PTL DEF Spec, GtwIsKept

(* The account server is asked about a gateway that has a gtw and no       *)
(* configuration, and a gateway without gtw has no configuration.          *)
LookupInv ==
    \A m \in MAC : /\ m \in lookup => gateways[m] # 0 /\ conf[m] = "none"
                   /\ gateways[m] = 0 => conf[m] = "none"

(* newGtw asks at most once for a gateway, and the answer ends the question. *)
LEMMA NextLookupInv ==
    ASSUME IInv, LookupInv, [Next]_vars
    PROVE  LookupInv'
<1>. SUFFICES ASSUME NEW m \in MAC
              PROVE  /\ m \in lookup' => gateways'[m] # 0 /\ conf'[m] = "none"
                     /\ gateways'[m] = 0 => conf'[m] = "none"
    BY DEF LookupInv
<1>1. /\ m \in lookup => gateways[m] # 0 /\ conf[m] = "none"
      /\ gateways[m] = 0 => conf[m] = "none"
    BY DEF LookupInv
<1>2. /\ gateways \in [MAC -> Nat] /\ created \in [MAC -> Nat]
      /\ conf \in [MAC -> {"none", "static", "account"}]
    BY DEF IInv, TypeOK
<1>3. ASSUME NEW n \in MAC, NewGtw(n)
      PROVE  /\ m \in lookup' => gateways'[m] # 0 /\ conf'[m] = "none"
             /\ gateways'[m] = 0 => conf'[m] = "none"
    <2>1. CASE gateways[n] # 0 BY <1>1, <1>3, <2>1 DEF NewGtw, ttn
    <2>2. CASE gateways[n] = 0
        <3>1. /\ gateways' = [gateways EXCEPT ![n] = created[n] + 1]
              /\ conf' = [conf EXCEPT ![n] = IF n \in gatewayConf THEN "static" ELSE "none"]
              /\ lookup' = IF n \in gatewayConf THEN lookup ELSE lookup \cup {n}
            BY <1>3, <2>2 DEF NewGtw
        <3>2. created[n] + 1 # 0 BY <1>2
        <3>3. n \notin lookup BY <2>2 DEF LookupInv
        <3>. QED BY ONLY <1>1, <1>2, <3>1, <3>2, <3>3, m \in MAC, n \in MAC
    <2>. QED BY <2>1, <2>2
<1>4. ASSUME NEW n \in MAC, Found(n)
      PROVE  /\ m \in lookup' => gateways'[m] # 0 /\ conf'[m] = "none"
             /\ gateways'[m] = 0 => conf'[m] = "none"
    <2>1. gateways[n] # 0 BY <1>4 DEF LookupInv, Found
    <2>2. /\ lookup' = lookup \ {n} /\ gateways' = gateways
          /\ conf' = [conf EXCEPT ![n] = "account"] \/ conf' = conf
        BY <1>4 DEF Found
    <2>. QED BY ONLY <1>1, <1>2, <2>1, <2>2, m \in MAC, n \in MAC
<1>. QED BY <1>1, <1>3, <1>4, GtwSteps

(* A configuration is given once and never replaced, neither by the other  *)
(* source nor by another answer of the account server.                     *)
ConfIsKept == [][\A m \in MAC : conf[m] # "none" => conf'[m] = conf[m]]_vars

(* A key and token that a gtw has got, static or from the account server,  *)
(* stay in use however often the gateway comes and goes.                   *)
THEOREM ConfStays == Spec => ConfIsKept
<1>1. Init => LookupInv BY DEF Init, LookupInv
<1>2. IInv /\ LookupInv /\ [Next]_vars => LookupInv' BY NextLookupInv
<1>3. Spec => []LookupInv BY <1>1, <1>2, IInvHolds, PTL DEF Spec
<1>4. ASSUME IInv, LookupInv, [Next]_vars, NEW m \in MAC, conf[m] # "none"
      PROVE  conf'[m] = conf[m]
    <2>1. gateways[m] # 0 /\ m \notin lookup BY <1>4 DEF LookupInv
    <2>2. conf \in [MAC -> {"none", "static", "account"}] BY <1>4 DEF IInv, TypeOK
    <2>3. ASSUME NEW n \in MAC, NewGtw(n) PROVE conf'[m] = conf[m]
        <3>1. CASE gateways[n] # 0 BY <2>3, <3>1 DEF NewGtw, ttn
        <3>2. CASE gateways[n] = 0
            <4>1. n # m BY <2>1, <3>2
            <4>2. conf' = [conf EXCEPT ![n] = IF n \in gatewayConf THEN "static" ELSE "none"]
                BY <2>3, <3>2 DEF NewGtw
            <4>. QED BY ONLY <2>2, <4>1, <4>2, m \in MAC, n \in MAC
        <3>. QED BY <3>1, <3>2
    <2>4. ASSUME NEW n \in MAC, Found(n) PROVE conf'[m] = conf[m]
        BY <2>1, <2>2, <2>4 DEF Found
    <2>. QED BY <1>4, <2>3, <2>4, GtwSteps
<1>5. IInv /\ LookupInv /\ [Next]_vars
        => [\A m \in MAC : conf[m] # "none" => conf'[m] = conf[m]]_vars
    BY <1>4
<1>. QED BY <1>3, <1>5, IInvHolds, PTL DEF Spec, ConfIsKept

-----------------------------------------------------------------------------
(* One stream as a step leaves it: it is as before; a new one is opened;   *)
(* an open one is closed; a closed one ends; it gets another downlink, as  *)
(* long as it has not ended; or its oldest downlink is taken.              *)
StreamMoves(m, k) ==
    LET r == stream[m][k]
        q == stream'[m][k] IN
    \/ q.st = r.st /\ q.buf = r.buf
    \/ q.st = "open" /\ q.buf = r.buf /\ k = downlink[m] + 1 /\ downlink'[m] = k
    \/ r.st = "open" /\ q.st = "closing" /\ q.buf = r.buf
    \/ r.st = "closing" /\ q.st = "ended" /\ q.buf = r.buf
    \/ r.st \in {"open", "closing"} /\ q.st = r.st
    \/ r.buf # <<>> /\ q.st = r.st /\ q.buf = Tail(r.buf)

(* SubscribeOpen opens the next stream of its gateway. *)
LEMMA OpenMoves ==
    ASSUME IInv, SubscribeOpen, NEW n \in MAC, NEW j \in Subs
    PROVE  /\ StreamMoves(n, j)
           /\ downlink'[n] = downlink[n] \/ downlink'[n] = downlink[n] + 1
           /\ stream'[n][j].st = IF n = reg.mac /\ j = downlink[n] + 1
                                 THEN "open" ELSE stream[n][j].st
           /\ downlink'[n] = IF n = reg.mac THEN downlink[n] + 1 ELSE downlink[n]
           /\ consumer'[n][j].at = consumer[n][j].at
           /\ consumer'[n][j].pc = IF n = reg.mac /\ j = downlink[n] + 1
                                   THEN "new" ELSE consumer[n][j].pc
<1>. DEFINE m == reg.mac
            k == downlink[m] + 1
<1>1. /\ TypeOK /\ RegInv /\ reg.pc = "subOpen"
      /\ stream' = [stream EXCEPT ![m][k].st = "open"]
      /\ downlink' = [downlink EXCEPT ![m] = k]
      /\ consumer' = [consumer EXCEPT ![m][k].pc = "new"]
    BY DEF SubscribeOpen, IInv
<1>2. /\ stream \in [MAC -> [Subs -> Stream]] /\ consumer \in [MAC -> [Subs -> Consumer]]
      /\ downlink \in [MAC -> 0 .. MaxSub]
    BY ONLY <1>1 DEF TypeOK
<1>3. m \in MAC BY ONLY <1>1, Records DEF RegCall
<1>4. k \in Subs
    <2>1. downlink[m] < MaxSub BY ONLY <1>1 DEF RegInv
    <2>. QED BY ONLY <1>2, <1>3, <2>1, TTNAssumption DEF Subs
<1>5. k = downlink[m] + 1 OBVIOUS
<1>. HIDE DEF m, k
<1>6. /\ stream'[n][j].st = IF n = m /\ j = k THEN "open" ELSE stream[n][j].st
      /\ stream'[n][j].buf = stream[n][j].buf
    <2>1. "open" \in StreamState BY DEF StreamState
    <2>. QED BY ONLY <1>1, <1>2, <1>3, <1>4, <2>1, n \in MAC, j \in Subs, SetState
<1>7. /\ consumer'[n][j].pc = IF n = m /\ j = k THEN "new" ELSE consumer[n][j].pc
      /\ consumer'[n][j].at = consumer[n][j].at
    <2>1. "new" \in ConsumerState BY DEF ConsumerState
    <2>. QED BY ONLY <1>1, <1>2, <1>3, <1>4, <2>1, n \in MAC, j \in Subs, SetConsumer
<1>8. downlink'[n] = IF n = m THEN downlink[n] + 1 ELSE downlink[n]
    BY ONLY <1>1, <1>2, <1>3, <1>5, n \in MAC
<1>9. n = m => k = downlink[n] + 1 BY ONLY <1>5
<1>10. StreamMoves(n, j) BY ONLY <1>6, <1>8, <1>9 DEF StreamMoves
<1>11. m = reg.mac BY DEF m
<1>. QED BY ONLY <1>6, <1>7, <1>8, <1>9, <1>10, <1>11

(* The latest stream of a gateway is closed if it is open. *)
LEMMA CloseMoves ==
    ASSUME TypeOK, NEW m \in MAC, CloseDownlink(m), NEW n \in MAC, NEW j \in Subs
    PROVE  StreamMoves(n, j)
<1>. DEFINE k == downlink[m]
<1>1. stream \in [MAC -> [Subs -> Stream]] BY DEF TypeOK
<1>2. k # 0 => k \in Subs BY LatestInSubs
<1>3. CASE k # 0 /\ stream[m][k].st = "open"
    <2>1. stream' = [stream EXCEPT ![m][k].st = "closing"] BY <1>3 DEF CloseDownlink
    <2>2. "closing" \in StreamState BY DEF StreamState
    <2>. HIDE DEF k
    <2>3. /\ stream'[n][j].st = IF n = m /\ j = k THEN "closing" ELSE stream[n][j].st
          /\ stream'[n][j].buf = stream[n][j].buf
        BY ONLY <1>1, <1>2, <1>3, <2>1, <2>2, m \in MAC, n \in MAC, j \in Subs, SetState
    <2>. QED BY ONLY <1>3, <2>3 DEF StreamMoves
<1>4. CASE ~(k # 0 /\ stream[m][k].st = "open")
    <2>1. stream' = stream BY <1>4 DEF CloseDownlink
    <2>. QED BY ONLY <2>1 DEF StreamMoves
<1>. QED BY ONLY <1>3, <1>4

(* A downlink arrives. *)
LEMMA RecvMoves ==
    ASSUME IInv, NEW m \in MAC, NEW k \in Subs, NEW d \in Downlink, Recv(m, k, d),
           NEW n \in MAC, NEW j \in Subs
    PROVE  StreamMoves(n, j)
<1>1. stream \in [MAC -> [Subs -> Stream]] /\ stream[m][k].st \in {"open", "closing"}
    BY DEF IInv, TypeOK, Recv
<1>2. CASE Len(stream[m][k].buf) < BufferSize
    <2>. DEFINE x == Append(stream[m][k].buf, d)
    <2>1. x \in Seq(Downlink)
        <3>1. stream[m][k] \in Stream BY ONLY <1>1, m \in MAC, k \in Subs
        <3>2. stream[m][k].buf \in Seq(Downlink) BY ONLY <3>1 DEF Stream
        <3>. QED BY <3>2
    <2>2. stream' = [stream EXCEPT ![m][k].buf = x] BY <1>2 DEF Recv
    <2>. HIDE DEF x
    <2>3. /\ stream'[n][j].buf = IF n = m /\ j = k THEN x ELSE stream[n][j].buf
          /\ stream'[n][j].st = stream[n][j].st
        BY ONLY <1>1, <2>1, <2>2, m \in MAC, k \in Subs, n \in MAC, j \in Subs, SetBuffer
    <2>. QED BY ONLY <1>1, <2>3 DEF StreamMoves
<1>3. CASE ~(Len(stream[m][k].buf) < BufferSize)
    <2>1. stream' = stream BY <1>3 DEF Recv
    <2>. QED BY ONLY <2>1 DEF StreamMoves
<1>. QED BY ONLY <1>2, <1>3

(* The channel of a closed stream is closed. *)
LEMMA EndMoves ==
    ASSUME IInv, NEW m \in MAC, NEW k \in Subs, StreamEnds(m, k),
           NEW n \in MAC, NEW j \in Subs
    PROVE  StreamMoves(n, j)
<1>1. /\ stream \in [MAC -> [Subs -> Stream]] /\ stream[m][k].st = "closing"
      /\ stream' = [stream EXCEPT ![m][k].st = "ended"]
    BY DEF IInv, TypeOK, StreamEnds
<1>2. "ended" \in StreamState BY DEF StreamState
<1>3. /\ stream'[n][j].st = IF n = m /\ j = k THEN "ended" ELSE stream[n][j].st
      /\ stream'[n][j].buf = stream[n][j].buf
    BY ONLY <1>1, <1>2, m \in MAC, k \in Subs, n \in MAC, j \in Subs, SetState
<1>. QED BY ONLY <1>1, <1>3 DEF StreamMoves

(* A downlink is taken. *)
LEMMA TakeMoves ==
    ASSUME IInv, NEW m \in MAC, NEW k \in Subs, ConsumerTake(m, k),
           NEW n \in MAC, NEW j \in Subs
    PROVE  StreamMoves(n, j)
<1>. DEFINE a == consumer[m][k].at
            buf == stream[m][a].buf
            x == Tail(buf)
<1>1. /\ stream \in [MAC -> [Subs -> Stream]] /\ buf # <<>>
      /\ stream' = [stream EXCEPT ![m][a].buf = x]
      /\ downlink[m] \in 0 .. MaxSub /\ ServeInv /\ consumer[m][k].pc = "range"
    BY DEF IInv, TypeOK, ConsumerTake
<1>2. a \in Subs
    <2>1. k \in 1 .. MaxSub BY DEF Subs
    <2>2. a \in k .. downlink[m] BY ONLY <1>1, m \in MAC, k \in Subs DEF ServeInv
    <2>. QED BY ONLY <1>1, <2>1, <2>2, TTNAssumption DEF Subs
<1>3. buf \in Seq(Downlink)
    <2>. HIDE DEF a
    <2>1. stream[m][a] \in Stream BY ONLY <1>1, <1>2, m \in MAC
    <2>. QED BY ONLY <2>1 DEF Stream
<1>4. n = m /\ j = a => stream[n][j].buf = buf OBVIOUS
<1>. HIDE DEF a, buf
<1>5. x \in Seq(Downlink) BY ONLY <1>1, <1>3
<1>6. x = Tail(buf) OBVIOUS
<1>. HIDE DEF x
<1>7. /\ stream'[n][j].buf = IF n = m /\ j = a THEN x ELSE stream[n][j].buf
      /\ stream'[n][j].st = stream[n][j].st
    BY ONLY <1>1, <1>2, <1>5, m \in MAC, n \in MAC, j \in Subs, SetBuffer
<1>. QED BY ONLY <1>1, <1>4, <1>6, <1>7 DEF StreamMoves

(* The steps that touch neither a stream nor the goroutine of one. *)
LEMMA DownSteps ==
    ASSUME IInv, [Next]_vars
    PROVE  \/ UNCHANGED <<downlink, stream, consumer>>
           \/ SubscribeOpen
           \/ \E m \in MAC : CloseDownlink(m) /\ UNCHANGED <<downlink, consumer>>
           \/ \E m \in MAC, k \in Subs :
                Consuming(m, k) \/ StreamEnds(m, k) \/ \E d \in Downlink : Recv(m, k, d)
<1>. USE DEF down
<1>1. ASSUME NEW p \in Publisher, Publishing(p) PROVE UNCHANGED down
    BY <1>1 DEF Publishing, PublishGet, PublishNew, PublishSend, PublishPanics
<1>2. ASSUME NEW p \in Publisher, NEW m \in MAC, NEW k \in Kind, Publish(p, m, k)
      PROVE  UNCHANGED down
    BY <1>2 DEF Publish
<1>3. ASSUME NEW m \in MAC, Subscribe(m) \/ Unsubscribe(m) \/ Found(m) PROVE UNCHANGED down
    BY <1>3 DEF Subscribe, Unsubscribe, Found
<1>4. ASSUME SubscribeGet \/ SubscribeNew \/ UnsubscribeGet PROVE UNCHANGED down
    BY <1>4 DEF SubscribeGet, SubscribeNew, UnsubscribeGet
<1>5. ASSUME UnsubscribeClose
      PROVE  \E m \in MAC : CloseDownlink(m) /\ UNCHANGED <<downlink, consumer>>
    <2>1. reg.mac \in MAC BY <1>5, Records DEF IInv, UnsubscribeClose, RegCall
    <2>. QED BY <1>5, <2>1 DEF UnsubscribeClose
<1>6. ASSUME TxSend \/ Signal \/ CloseLock \/ Exit \/ Ended \/ UNCHANGED vars
      PROVE  UNCHANGED down
    BY <1>6 DEF TxSend, Signal, CloseLock, Exit, Ended, vars
<1>7. ASSUME NEW m \in MAC, CloseNext(m) \/ CloseUplink(m) \/ CloseStatus(m)
      PROVE  UNCHANGED down
    BY <1>7 DEF CloseNext, CloseUplink, CloseStatus
<1>8. ASSUME NEW m \in MAC, CloseDown(m)
      PROVE  CloseDownlink(m) /\ UNCHANGED <<downlink, consumer>>
    BY <1>8 DEF CloseDown
<1>. QED BY <1>1, <1>2, <1>3, <1>4, <1>5, <1>6, <1>7, <1>8 DEF Next, Callback, Closing

(* Every step moves every stream in one of these ways, and only            *)
(* SubscribeOpen assigns gtw.downlink.                                     *)
LEMMA StreamStep ==
    ASSUME IInv, [Next]_vars, NEW n \in MAC, NEW j \in Subs
    PROVE  StreamMoves(n, j) /\ (SubscribeOpen \/ downlink' = downlink)
<1>1. CASE UNCHANGED <<downlink, stream, consumer>> BY <1>1 DEF StreamMoves
<1>2. CASE SubscribeOpen BY <1>2, OpenMoves
<1>3. ASSUME NEW m \in MAC, CloseDownlink(m), UNCHANGED downlink
      PROVE  StreamMoves(n, j) /\ downlink' = downlink
    BY <1>3, CloseMoves DEF IInv
<1>4. ASSUME NEW m \in MAC, NEW k \in Subs, StreamEnds(m, k)
      PROVE  StreamMoves(n, j) /\ downlink' = downlink
    <2>1. downlink' = downlink BY <1>4 DEF StreamEnds
    <2>. QED BY <1>4, <2>1, EndMoves
<1>5. ASSUME NEW m \in MAC, NEW k \in Subs, NEW d \in Downlink, Recv(m, k, d)
      PROVE  StreamMoves(n, j) /\ downlink' = downlink
    <2>1. downlink' = downlink BY <1>5 DEF Recv
    <2>. QED BY <1>5, <2>1, RecvMoves
<1>6. ASSUME NEW m \in MAC, NEW k \in Subs, Consuming(m, k)
      PROVE  StreamMoves(n, j) /\ downlink' = downlink
    <2>1. CASE ConsumerTake(m, k)
        <3>1. downlink' = downlink BY <2>1 DEF ConsumerTake
        <3>. QED BY <2>1, <3>1, TakeMoves
    <2>2. CASE ConsumerStart(m, k) \/ ConsumerEnds(m, k) \/ ConsumerPush(m, k)
        <3>1. UNCHANGED <<downlink, stream>>
            BY <2>2 DEF ConsumerStart, ConsumerEnds, ConsumerPush
        <3>. QED BY ONLY <3>1 DEF StreamMoves
    <2>. QED BY <1>6, <2>1, <2>2 DEF Consuming
<1>. QED BY <1>1, <1>2, <1>3, <1>4, <1>5, <1>6, DownSteps

(* The streams after the latest one have not been used. *)
FreshInv == \A m \in MAC, k \in Subs : downlink[m] < k <=> stream[m][k].st = "none"

(* Only the next stream of a gateway is opened. *)
LEMMA NextFreshInv ==
    ASSUME IInv, FreshInv, [Next]_vars
    PROVE  FreshInv'
<1>. SUFFICES ASSUME NEW n \in MAC, NEW j \in Subs
              PROVE  downlink'[n] < j <=> stream'[n][j].st = "none"
    BY DEF FreshInv
<1>1. downlink[n] < j <=> stream[n][j].st = "none" BY DEF FreshInv
<1>2. downlink[n] \in Nat /\ j \in Nat BY DEF IInv, TypeOK, Subs
<1>3. CASE SubscribeOpen
    <2>1. /\ stream'[n][j].st = IF n = reg.mac /\ j = downlink[n] + 1
                                THEN "open" ELSE stream[n][j].st
          /\ downlink'[n] = IF n = reg.mac THEN downlink[n] + 1 ELSE downlink[n]
        BY <1>3, OpenMoves
    <2>. QED BY ONLY <1>1, <1>2, <2>1
<1>4. CASE downlink' = downlink
    <2>1. StreamMoves(n, j) BY StreamStep
    <2>2. downlink[n] + 1 # downlink[n] BY ONLY <1>2
    <2>. QED BY ONLY <1>1, <1>2, <1>4, <2>1, <2>2 DEF StreamMoves
<1>. QED BY <1>3, <1>4, StreamStep

(* A downlink stream is opened once.  One that is being closed ends and    *)
(* one that has ended stays so, with nothing put into its channel any      *)
(* more; the stream that is opened is a fresh one, the next of its gateway. *)
OpenedOnce(m, k) ==
    /\ stream[m][k].st = "closing" => stream'[m][k].st \in {"closing", "ended"}
    /\ stream[m][k].st = "ended" =>
         /\ stream'[m][k].st = "ended"
         /\ \/ stream'[m][k].buf = stream[m][k].buf
            \/ stream[m][k].buf # <<>> /\ stream'[m][k].buf = Tail(stream[m][k].buf)
    /\ stream'[m][k].st = "open" /\ stream[m][k].st # "open" =>
         /\ stream[m][k].st = "none"
         /\ k = downlink[m] + 1 /\ k = downlink'[m]

StreamsEnd == [][\A m \in MAC, k \in Subs : OpenedOnce(m, k)]_vars

(* A gateway that comes back gets a stream of its own, however many older  *)
(* ones of it have not ended yet.                                          *)
THEOREM StreamsOpenOnce == Spec => StreamsEnd
<1>1. Init => FreshInv
    <2>. SUFFICES ASSUME Init, NEW m \in MAC, NEW k \in Subs
                  PROVE  downlink[m] < k <=> stream[m][k].st = "none"
        BY DEF FreshInv
    <2>1. downlink[m] = 0 /\ stream[m][k] = NoStream BY DEF Init
    <2>2. 0 < k BY TTNAssumption DEF Subs
    <2>. QED BY <2>1, <2>2 DEF NoStream
<1>2. IInv /\ FreshInv /\ [Next]_vars => FreshInv' BY NextFreshInv
<1>3. Spec => []FreshInv BY <1>1, <1>2, IInvHolds, PTL DEF Spec
<1>4. ASSUME IInv, FreshInv, [Next]_vars, NEW m \in MAC, NEW k \in Subs
      PROVE  OpenedOnce(m, k)
    <2>1. StreamMoves(m, k) BY <1>4, StreamStep
    <2>2. k = downlink[m] + 1 => stream[m][k].st = "none"
        <3>1. downlink[m] \in Nat BY <1>4 DEF IInv, TypeOK
        <3>2. k = downlink[m] + 1 => downlink[m] < k BY ONLY <3>1
        <3>. QED BY <1>4, <3>2 DEF FreshInv
    <2>. QED BY ONLY <2>1, <2>2 DEF StreamMoves, OpenedOnce
<1>5. IInv /\ FreshInv /\ [Next]_vars => [\A m \in MAC, k \in Subs : OpenedOnce(m, k)]_vars
    BY ONLY <1>4
<1>. QED BY <1>3, <1>5, IInvHolds, PTL DEF Spec, StreamsEnd

-----------------------------------------------------------------------------
(* The goroutine of a subscription reads one stream for its whole life:    *)
(* the one that it found in gtw.downlink when it started.  It starts once  *)
(* and, when it has ended, stays so.                                       *)
ReadsOneStream(m, k) ==
    LET c == consumer[m][k]
        d == consumer'[m][k] IN
    /\ c.pc \in {"range", "push", "done"} =>
         d.at = c.at /\ d.pc \in {"range", "push", "done"}
    /\ c.pc = "done" => d.pc = "done"
    /\ c.pc = "new" => d.pc = "new" \/ (d.pc = "range" /\ d.at = downlink[m])

ReadersStay == [][\A m \in MAC, k \in Subs : ReadsOneStream(m, k)]_vars

(* A step of one goroutine. *)
LEMMA ConsumingReads ==
    ASSUME IInv, NEW m \in MAC, NEW k \in Subs, Consuming(m, k),
           NEW n \in MAC, NEW j \in Subs
    PROVE  ReadsOneStream(n, j)
<1>1. consumer \in [MAC -> [Subs -> Consumer]] BY DEF IInv, TypeOK
<1>2. {"push", "done", "range"} \subseteq ConsumerState BY DEF ConsumerState
<1>3. ASSUME NEW x \in {"push", "done", "range"}, consumer[m][k].pc \in {"range", "push"},
             consumer' = [consumer EXCEPT ![m][k].pc = x]
      PROVE  ReadsOneStream(n, j)
    <2>1. /\ consumer'[n][j].pc = IF n = m /\ j = k THEN x ELSE consumer[n][j].pc
          /\ consumer'[n][j].at = consumer[n][j].at
        BY ONLY <1>1, <1>2, <1>3, m \in MAC, k \in Subs, n \in MAC, j \in Subs,
           x \in {"push", "done", "range"}, SetConsumer
    <2>. QED BY ONLY <1>3, <2>1, x \in {"push", "done", "range"} DEF ReadsOneStream
<1>4. CASE consumer' = consumer BY ONLY <1>4 DEF ReadsOneStream
<1>5. CASE ConsumerTake(m, k) BY <1>3, <1>4, <1>5 DEF ConsumerTake
<1>6. CASE ConsumerEnds(m, k) BY <1>3, <1>6 DEF ConsumerEnds
<1>7. CASE ConsumerPush(m, k) BY <1>3, <1>7 DEF ConsumerPush
<1>8. CASE ConsumerStart(m, k)
    <2>1. /\ consumer[m][k].pc = "new"
          /\ consumer' = [consumer EXCEPT ![m][k] = [pc |-> "range", at |-> downlink[m]]]
        BY <1>8 DEF ConsumerStart
    <2>2. consumer'[n][j] = IF n = m /\ j = k THEN [pc |-> "range", at |-> downlink[m]]
                                              ELSE consumer[n][j]
        BY ONLY <1>1, <2>1, m \in MAC, k \in Subs, n \in MAC, j \in Subs
    <2>. QED BY ONLY <2>1, <2>2 DEF ReadsOneStream
<1>. QED BY <1>5, <1>6, <1>7, <1>8 DEF Consuming

(* However the gateway goes and comes back while its goroutines read, none *)
(* of them moves on to the stream of another subscription.                 *)
THEOREM ReadersReadOneStream == Spec => ReadersStay
<1>1. ASSUME IInv, [Next]_vars, NEW n \in MAC, NEW j \in Subs
      PROVE  ReadsOneStream(n, j)
    <2>1. CASE UNCHANGED consumer BY ONLY <2>1 DEF ReadsOneStream
    <2>2. CASE SubscribeOpen
        <3>1. /\ consumer'[n][j].at = consumer[n][j].at
              /\ consumer'[n][j].pc = IF n = reg.mac /\ j = downlink[n] + 1
                                      THEN "new" ELSE consumer[n][j].pc
            BY <1>1, <2>2, OpenMoves
        <3>2. j = downlink[n] + 1 => consumer[n][j].pc = "none"
            <4>1. /\ consumer[n][j].pc # "none" => j <= downlink[n]
                  /\ downlink[n] \in Nat
                BY <1>1 DEF IInv, ServeInv, TypeOK
            <4>. QED BY ONLY <4>1
        <3>. QED BY ONLY <3>1, <3>2 DEF ReadsOneStream
    <2>3. ASSUME NEW m \in MAC, NEW k \in Subs, Consuming(m, k) PROVE ReadsOneStream(n, j)
        BY <1>1, <2>3, ConsumingReads
    <2>4. ASSUME NEW m \in MAC, NEW k \in Subs,
                 StreamEnds(m, k) \/ \E d \in Downlink : Recv(m, k, d)
          PROVE  UNCHANGED consumer
        BY <2>4 DEF StreamEnds, Recv
    <2>. QED BY <1>1, <2>1, <2>2, <2>3, <2>4, DownSteps
<1>2. IInv /\ [Next]_vars => [\A m \in MAC, k \in Subs : ReadsOneStream(m, k)]_vars
    BY <1>1
<1>. QED BY <1>2, IInvHolds, PTL DEF Spec, ReadersStay
=============================================================================
