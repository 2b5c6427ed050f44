-------------------------- MODULE RateLimit_proofs --------------------------
(* Proofs about RateLimit, for any limit, any precision of the average and *)
(* any number of publishers.                                               *)
EXTENDS RateLimit, TLAPS

(* The numbers of the model as integers. *)
LEMMA Numbers ==
    ASSUME TypeOK
    PROVE  /\ MaxBurst \in Nat /\ Limit \in Nat
           /\ uncounted \in Nat /\ credit \in Nat /\ rate \in Nat
           /\ burst \in Nat /\ burst <= MaxBurst /\ count \in Nat /\ count <= MaxBurst
BY RateAssumption DEF TypeOK

-----------------------------------------------------------------------------
(* The invariant holds initially. *)
LEMMA InitInv == Init => RateInv
<1>. SUFFICES ASSUME Init PROVE RateInv OBVIOUS
<1>. USE RateAssumption DEF Init
<1>1. TypeOK
    <2>1. started \in BOOLEAN OBVIOUS
    <2>2. pub \in [Publisher -> {"idle", "check"}] OBVIOUS
    <2>3. /\ uncounted \in 0 .. 2 * MaxBurst /\ rate \in Nat /\ count \in 0 .. MaxBurst
          /\ credit \in 0 .. 2 * MaxBurst /\ burst \in 0 .. MaxBurst
        OBVIOUS
    <2>. QED BY <2>1, <2>2, <2>3 DEF TypeOK
<1>2. EveryEventCountedOnce /\ CounterIsBurst
    BY DEF EveryEventCountedOnce, CounterIsBurst
<1>. QED BY <1>1, <1>2 DEF RateInv

(* A publisher counts an uplink. *)
LEMMA UpdateInv ==
    ASSUME RateInv, NEW p \in Publisher, Update(p)
    PROVE  RateInv'
<1>. USE DEF Update
<1>1. TypeOK /\ EveryEventCountedOnce /\ CounterIsBurst BY DEF RateInv
<1>2. EveryEventCountedOnce' BY <1>1 DEF EveryEventCountedOnce
<1>3. CounterIsBurst' BY <1>1, Numbers DEF CounterIsBurst
<1>4. TypeOK'
    <2>1. pub' \in [Publisher -> {"idle", "check"}] BY <1>1 DEF TypeOK
    <2>2. burst' \in 0 .. MaxBurst BY <1>1, Numbers
    <2>3. uncounted' \in 0 .. 2 * MaxBurst
        <3>1. ticker' = "add" => uncounted' = burst' + count BY <1>3 DEF CounterIsBurst
        <3>2. ticker' # "add" => uncounted' = burst' BY <1>3 DEF CounterIsBurst
        <3>. QED BY <1>1, <2>2, <3>1, <3>2, Numbers
    <2>4. credit' \in 0 .. 2 * MaxBurst BY <1>2, <2>3 DEF EveryEventCountedOnce
    <2>. QED BY <1>1, <2>1, <2>2, <2>3, <2>4 DEF TypeOK
<1>. QED BY <1>2, <1>3, <1>4 DEF RateInv

(* A publisher looks at the average. *)
LEMMA CheckInv ==
    ASSUME RateInv, NEW p \in Publisher, Pass(p) \/ Drop(p)
    PROVE  RateInv'
<1>. USE DEF RateInv, Pass, Drop
<1>1. EveryEventCountedOnce' BY DEF EveryEventCountedOnce
<1>2. CounterIsBurst' BY DEF CounterIsBurst
<1>3. TypeOK'
    <2>1. pub' \in [Publisher -> {"idle", "check"}] BY DEF TypeOK
    <2>. QED BY <2>1 DEF TypeOK
<1>. QED BY <1>1, <1>2, <1>3

(* The ticker reads the counter and lowers it. *)
LEMMA TickCountInv ==
    ASSUME RateInv, WakeUp \/ TickLoad \/ TickAdd
    PROVE  RateInv'
<1>1. TypeOK /\ EveryEventCountedOnce /\ CounterIsBurst BY DEF RateInv
<1>2. CASE WakeUp
    BY <1>2 DEF WakeUp, RateInv, TypeOK, EveryEventCountedOnce, CounterIsBurst
<1>3. CASE TickLoad
    <2>1. count' = burst /\ burst' = 0 /\ ticker' = "add"
        BY <1>1, <1>3 DEF CounterIsBurst, TickLoad
    <2>2. TypeOK'
        <3>1. count' \in 0 .. MaxBurst /\ burst' \in 0 .. MaxBurst
            BY <1>1, <2>1, Numbers DEF TypeOK
        <3>. QED BY <1>1, <1>3, <2>1, <3>1 DEF TypeOK, TickLoad
    <2>3. EveryEventCountedOnce' BY <1>1, <1>3 DEF EveryEventCountedOnce, TickLoad
    <2>4. CounterIsBurst' BY <1>1, <1>3, Numbers DEF CounterIsBurst, TickLoad
    <2>. QED BY <2>2, <2>3, <2>4 DEF RateInv
<1>4. CASE TickAdd
    <2>1. uncounted' = burst /\ credit' = burst /\ ticker' = "rate"
        <3>1. burst \in Nat /\ count \in Nat /\ uncounted \in Nat BY <1>1, Numbers
        <3>2. uncounted = burst + count /\ credit = burst + count
            BY <1>1, <1>4 DEF CounterIsBurst, EveryEventCountedOnce, TickAdd
        <3>3. uncounted - count = burst /\ credit - count = burst BY <3>1, <3>2
        <3>. QED BY <1>4, <3>3 DEF TickAdd
    <2>2. burst \in 0 .. 2 * MaxBurst BY <1>1, Numbers
    <2>3. TypeOK' BY <1>1, <1>4, <2>1, <2>2 DEF TypeOK, TickAdd
    <2>4. EveryEventCountedOnce' BY <2>1 DEF EveryEventCountedOnce
    <2>5. CounterIsBurst' BY <1>4, <2>1 DEF CounterIsBurst, TickAdd
    <2>. QED BY <2>3, <2>4, <2>5 DEF RateInv
<1>. QED BY <1>2, <1>3, <1>4

(* The ticker moves the average, which never becomes negative. *)
LEMMA TickRateInv ==
    ASSUME RateInv, TickRate
    PROVE  RateInv'
<1>. USE DEF RateInv, TickRate
<1>1. rate' \in Nat
    <2>1. count \in Nat /\ Scale \div 5 \in Nat BY Numbers, RateAssumption
    <2>2. InstantRate \in Nat BY <2>1 DEF InstantRate, TickSeconds
    <2>. QED BY <2>2 DEF Moved
<1>2. TypeOK'
    <2>1. started' \in BOOLEAN OBVIOUS
    <2>. QED BY <1>1, <2>1, RateAssumption DEF TypeOK
<1>3. EveryEventCountedOnce' /\ CounterIsBurst'
    BY DEF EveryEventCountedOnce, CounterIsBurst
<1>. QED BY <1>2, <1>3

(* Every step keeps the invariant. *)
LEMMA NextInv == RateInv /\ [Next]_vars => RateInv'
<1>. SUFFICES ASSUME RateInv, [Next]_vars PROVE RateInv' OBVIOUS
<1>1. CASE Next
    BY <1>1, UpdateInv, CheckInv, TickCountInv, TickRateInv DEF Next, Ticker
<1>2. CASE UNCHANGED vars
    BY <1>2 DEF vars, RateInv, TypeOK, EveryEventCountedOnce, CounterIsBurst
<1>. QED BY <1>1, <1>2

(* No uplink is lost or counted twice, wherever its Update falls into a    *)
(* Tick.                                                                   *)
THEOREM EventsCounted == Spec => []RateInv
BY InitInv, NextInv, PTL DEF Spec
=============================================================================
