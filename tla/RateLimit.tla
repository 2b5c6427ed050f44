------------------------------ MODULE RateLimit ------------------------------
(***************************************************************************)
(* The rate limit of one gateway in the TTN backend: PublishGatewayRX      *)
(* counts every uplink in an exponentially weighted moving average and     *)
(* drops it if the average is above the limit; a ticker of the backend     *)
(* moves the average every five seconds.                                   *)
(*                                                                         *)
(* The average is a float of events per second in the code.  Here rate is  *)
(* any integer that is less than one unit, 1/Scale events per second, away *)
(* from it: a tick may round either way, and a comparison with the limit   *)
(* may go either way within a unit.  The weight of a tick, 1 - exp(-5/60), *)
(* is between 79/1000 and 80/1000.                                         *)
(*                                                                         *)
(* The limit is taken as the code takes it, in events per second: Rate()   *)
(* returns that, although the comment on SetRxRateLimit says per minute.   *)
(***************************************************************************)
EXTENDS Integers, FiniteSetsExt

CONSTANTS
    Publisher,  \* goroutines that publish uplinks
    Limit,      \* Backend.rxRateLimit, positive
    Scale,      \* units of the average per event and second
    MaxBurst    \* bound on the uplinks between two ticks

ASSUME RateAssumption ==
    /\ Limit \in Nat \ {0}
    /\ Scale \in Nat \ {0} /\ Scale % 5 = 0
    /\ MaxBurst \in Nat

TickSeconds == 5

VARIABLES
    uncounted,  \* StandardEWMA.uncounted
    rate,       \* StandardEWMA.rate
    started,    \* StandardEWMA.init
    ticker,     \* where the ticker is: sleep, load, add or rate
    count,      \* the events the ticker has read
    pub,        \* where each publisher is
    credit,     \* history: events published and not yet taken by a tick
    burst       \* history: events published since the ticker last read

vars == <<uncounted, rate, started, ticker, count, pub, credit, burst>>

(* Every variable stays in its type. *)
TypeOK ==
    /\ uncounted \in 0 .. 2 * MaxBurst
    /\ rate \in Nat
    /\ started \in BOOLEAN
    /\ ticker \in {"sleep", "load", "add", "rate"}
    /\ count \in 0 .. MaxBurst
    /\ pub \in [Publisher -> {"idle", "check"}]
    /\ credit \in 0 .. 2 * MaxBurst
    /\ burst \in 0 .. MaxBurst

(* newGtw: NewEWMA1 *)
Init ==
    /\ uncounted = 0
    /\ rate = 0
    /\ started = FALSE
    /\ ticker = "sleep"
    /\ count = 0
    /\ pub = [p \in Publisher |-> "idle"]
    /\ credit = 0
    /\ burst = 0

-----------------------------------------------------------------------------
(* rxRate.Update(1), an atomic addition *)
Update(p) ==
    /\ pub[p] = "idle"
    /\ burst < MaxBurst
    /\ pub' = [pub EXCEPT ![p] = "check"]
    /\ uncounted' = uncounted + 1
    /\ credit' = credit + 1
    /\ burst' = burst + 1
    /\ UNCHANGED <<rate, started, ticker, count>>

(* rxRate.Rate() > b.rxRateLimit may be false, and may be true. *)
MayPass == rate - 1 < Limit * Scale
MayDrop == rate + 1 > Limit * Scale

Pass(p) ==
    /\ pub[p] = "check"
    /\ MayPass
    /\ pub' = [pub EXCEPT ![p] = "idle"]
    /\ UNCHANGED <<uncounted, rate, started, ticker, count, credit, burst>>

Drop(p) ==
    /\ pub[p] = "check"
    /\ MayDrop
    /\ pub' = [pub EXCEPT ![p] = "idle"]
    /\ UNCHANGED <<uncounted, rate, started, ticker, count, credit, burst>>

-----------------------------------------------------------------------------
(* Tick: the events are read, subtracted, and the average is moved. *)

WakeUp ==
    /\ ticker = "sleep"
    /\ ticker' = "load"
    /\ UNCHANGED <<uncounted, rate, started, count, pub, credit, burst>>

TickLoad ==
    /\ ticker = "load"
    /\ count' = uncounted
    /\ burst' = 0
    /\ ticker' = "add"
    /\ UNCHANGED <<uncounted, rate, started, pub, credit>>

(* Mutant: the counter is set to zero, not lowered by what was read. *)
TickAddReset ==
    /\ ticker = "add"
    /\ uncounted' = 0
    /\ credit' = credit - count
    /\ ticker' = "rate"
    /\ UNCHANGED <<rate, started, count, pub, burst>>

TickAdd ==
    /\ ticker = "add"
    /\ uncounted' = uncounted - count
    /\ credit' = credit - count
    /\ ticker' = "rate"
    /\ UNCHANGED <<rate, started, count, pub, burst>>

InstantRate == count * (Scale \div TickSeconds)

(* Where the average may be after a tick, in thousandths of a unit. *)
Reach == {1000 * r + w * (InstantRate - r) : r \in {rate - 1, rate + 1}, w \in {79, 80}}

(* Mutant: the average never comes down. *)
MovedUp == {IF started /\ InstantRate < rate THEN rate ELSE InstantRate}

(* a.rate += a.alpha * (instantRate - a.rate), or the first rate: the      *)
(* integers less than a unit away from the result.                         *)
Moved ==
    IF started THEN (Min(Reach) \div 1000 .. (Max(Reach) + 999) \div 1000) \cap Nat
               ELSE {InstantRate}

TickRate ==
    /\ ticker = "rate"
    /\ rate' \in Moved
    /\ started' = TRUE
    /\ count' = 0
    /\ ticker' = "sleep"
    /\ UNCHANGED <<uncounted, pub, credit, burst>>

Ticker == WakeUp \/ TickLoad \/ TickAdd \/ TickRate

Next == Ticker \/ \E p \in Publisher : Update(p) \/ Pass(p) \/ Drop(p)

Spec == Init /\ [][Next]_vars

(* Fairness: the ticker runs for ever. *)
FairSpec == Spec /\ WF_vars(Ticker)

-----------------------------------------------------------------------------
(* No event is lost or counted twice when a publisher's Update falls       *)
(* between the two atomic operations of a Tick.                            *)
EveryEventCountedOnce == uncounted = credit

(* The counter holds the events since the ticker last read it, and until   *)
(* the ticker has subtracted them the ones it read.                        *)
CounterIsBurst == uncounted = IF ticker = "add" THEN burst + count ELSE burst

(* The type of the variables, every event counted once, and counted in the *)
(* interval in which it came.                                              *)
RateInv == TypeOK /\ EveryEventCountedOnce /\ CounterIsBurst

(* A gateway that was too fast is let in again once it has been silent     *)
(* for long enough, although dropped uplinks keep the average up: in the   *)
(* end no uplink of it would be dropped.                                   *)
QuietGatewayReadmitted == <>[](burst = 0) => <>[]~MayDrop
=============================================================================
