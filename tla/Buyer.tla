-------------------------------- MODULE Buyer --------------------------------
(***************************************************************************)
(* The payer's side of one peering (tollgate-core/src/buyer): the channels *)
(* it funded, its own count of the budget it holds with the provider, the  *)
(* one purchase it can undo, and the decision to buy.  Pure operators on a *)
(* buyer record; module Peering applies them.                              *)
(*                                                                         *)
(* The provider's terms, as its Offer carries them, are the constants of   *)
(* module Grant.  A purchase's legs have the form of a TopUp's updates.    *)
(***************************************************************************)
EXTENDS Grant

CONSTANTS
    BuyerPolicies,      \* policies the operator may buy under
    THRESHOLD_PCT,      \* NodePolicy.rollover_threshold_pct
    MARGIN,             \* NodePolicy.safety_margin_ms
    FUNDING_TIMEOUT,    \* FUNDING_TIMEOUT_MS
    INITIAL_CAPACITY, MIN_CAPACITY, MAX_CAPACITY, GROWTH_PCT

BuyerPolicy ==
    [demand : U64, reserve : BOOLEAN, headroom_pct : U64, min_rate : U64,
     max_rate : U64, window : U64, budget : U64, renew_lead : U64, cap_hold : U64]

ASSUME BuyerAssumption ==
    /\ BuyerPolicies \subseteq BuyerPolicy
    /\ THRESHOLD_PCT \in 0 .. 100
    /\ MARGIN \in U64 /\ FUNDING_TIMEOUT \in U64
    /\ INITIAL_CAPACITY \in U64 /\ MIN_CAPACITY \in U64 /\ MAX_CAPACITY \in U64
    /\ GROWTH_PCT \in Nat

\* Half the margin before expiry the receiver settles a channel.
SettleLead == MARGIN \div 2

ClampCapacity(n) == Least(Greatest(n, MIN_CAPACITY), MAX_CAPACITY)
FirstCapacity    == ClampCapacity(INITIAL_CAPACITY)
GrownCapacity(n) == ClampCapacity(Least((n * GROWTH_PCT) \div 100, U64_MAX))

\* Whether a policy buys anything at all.
IsBuying(pol) == IF pol.reserve THEN pol.max_rate > 0 ELSE pol.budget > 0

-----------------------------------------------------------------------------
(* State. *)

ChannelBuyer ==
    [id : Channels, capacity : U64, cumulative : U64, expires : U64 \cup {None}]

NewChannel(c) ==
    [id |-> c, capacity |-> Capacity[c], cumulative |-> 0, expires |-> ExpiresAt[c]]

Headroom(ch)  == SatSub(ch.capacity, ch.cumulative)
Exhausted(ch) == ch.cumulative >= ch.capacity
ChannelExpiring(ch, now, margin) ==
    ch.expires # None /\ SatAdd(now, margin) >= ch.expires

\* FundingRequests: every id from first to latest is open; the last is waited
\* on since then.
FundingRequests == [first : Nat, latest : Nat, since : U64 \cup {None}]

Prior ==
    [active : ChannelBuyer \cup {None}, next : ChannelBuyer \cup {None},
     deadline : U64, reserved : U64, started : BOOLEAN, resumed : U64, grant : U64]

BuyerState ==
    [active     : ChannelBuyer \cup {None},
     next       : ChannelBuyer \cup {None},
     pending    : ChannelBuyer \cup {None},
     funding    : FundingRequests \cup {None},
     remaining  : U64,
     deadline   : U64,
     reserved   : U64,
     second     : Second \cup {None},
     last_topup : U64 \cup {None},
     started    : BOOLEAN,
     resumed    : U64,
     capped_at  : [rate : U64, until : U64] \cup {None},
     last_grant : U64,
     prior      : Prior \cup {None}]

NewBuyer ==
    [active |-> None, next |-> None, pending |-> None, funding |-> None,
     remaining |-> 0, deadline |-> 0, reserved |-> 0, second |-> None,
     last_topup |-> None, started |-> FALSE, resumed |-> 0, capped_at |-> None,
     last_grant |-> 0, prior |-> None]

BuyerRemaining(b, now) == IF now >= b.deadline THEN 0 ELSE b.remaining

\* The rate to reserve again at once in a session resumed with a budget.
ResumeRate(b, now) ==
    IF b.started \/ BuyerRemaining(b, now) = 0 THEN 0 ELSE b.resumed

IsActive(b, c) == b.active # None /\ b.active.id = c

-----------------------------------------------------------------------------
(* The budget. *)

\* Off our own count; the reservation ends with the budget.
BuyerTake(b, drawn) ==
    LET left == SatSub(b.remaining, drawn)
    IN  [b EXCEPT !.remaining = left, !.reserved = IF left = 0 THEN 0 ELSE @]

\* What crossed the link, by the provider's rule.
BuyerDraw(b, moved, now) ==
    IF now >= b.deadline
    THEN [b EXCEPT !.remaining = 0, !.reserved = 0, !.second = None]
    ELSE LET sec == IF b.second = None THEN SecondStarting(now) ELSE b.second
         IN  BuyerTake([b EXCEPT !.second = SecondAfterRead(sec, moved, now)],
                       OwedByRead(sec, moved, now, b.reserved))

\* A buyer with no count of its own learns it from the provider.
NoteBalance(b, remaining, expires_in, now) ==
    IF remaining = 0 \/ expires_in = 0 \/ b.started \/ BuyerRemaining(b, now) # 0
    THEN b
    ELSE [b EXCEPT !.remaining = remaining,
                   !.deadline = Greatest(@, SatAdd(now, expires_in))]

\* start_over: no channel, only the rate to reserve again.
StartOver(b) == [NewBuyer EXCEPT !.resumed = b.resumed]

\* restart: a new session over the channels and budget kept.
BuyerRestart(b) ==
    LET closed == IF b.second = None THEN b
                  ELSE BuyerTake(b, OwedByClose(b.second, b.second.at, b.reserved))
    IN  [NewBuyer EXCEPT
           !.resumed = IF b.started THEN closed.reserved ELSE b.resumed,
           !.active = b.active, !.next = b.next, !.pending = b.pending,
           !.funding = b.funding, !.last_grant = b.last_grant,
           !.remaining = closed.remaining, !.deadline = b.deadline]

-----------------------------------------------------------------------------
(* Channels. *)

ForgetPending(b) == [b EXCEPT !.pending = None]

\* A request is marked the moment it is made, and closes no earlier one.
FundingRequested(b, request, now) ==
    [b EXCEPT !.funding =
        [first |-> IF b.funding = None THEN request ELSE b.funding.first,
         latest |-> request, since |-> now]]

FundingFailed(b, request) ==
    IF b.funding # None /\ b.funding.latest = request
    THEN [b EXCEPT !.funding = [@ EXCEPT !.since = None]]
    ELSE b

FundingInFlight(b, now) ==
    /\ b.funding # None
    /\ b.funding.since # None
    /\ SatSub(now, b.funding.since) < FUNDING_TIMEOUT

\* answers: the first channel to come back for any open request is taken.
Answers(b, request) ==
    /\ b.pending = None
    /\ b.funding # None
    /\ request \in b.funding.first .. b.funding.latest

\* Mutants: it is used before the peer has confirmed it; the requests still
\* open stay open.
FundedInUse(b, c) ==
    IF b.active = None THEN [b EXCEPT !.funding = None, !.active = NewChannel(c)]
    ELSE [b EXCEPT !.funding = None, !.next = NewChannel(c)]
FundedKeepsOpen(b, c) == [b EXCEPT !.pending = NewChannel(c)]

Funded(b, c) == [b EXCEPT !.funding = None, !.pending = NewChannel(c)]

\* confirmed: the peer names the channel it verified.
Confirmed(b, c) ==
    IF b.pending = None THEN b
    ELSE LET ch == [b.pending EXCEPT !.id = c]
         IN  IF b.active = None \/ Exhausted(b.active)
             THEN [b EXCEPT !.pending = None, !.active = ch]
             ELSE [b EXCEPT !.pending = None, !.next = ch]

\* A replacement is wanted before the channel in use cannot carry two more
\* purchases like the last, or past the threshold.
NeedsRollover(b) ==
    /\ b.next = None /\ b.pending = None /\ b.active # None
    /\ b.active.capacity # 0
    /\ \/ Headroom(b.active) <= 2 * b.last_grant
       \/ b.active.cumulative * 100 >= b.active.capacity * THRESHOLD_PCT

RolloverDue(b, now) ==
    CASE FundingInFlight(b, now) -> "None"
      [] ~FundingInFlight(b, now) /\ NeedsRollover(b) -> "Capacity"
      [] /\ ~FundingInFlight(b, now) /\ ~NeedsRollover(b)
         /\ b.next = None /\ b.pending = None
         /\ b.active # None /\ ChannelExpiring(b.active, now, MARGIN) -> "Expiry"
      [] OTHER -> "None"

\* Mutant: the channel in use is kept to its expiry.
RetireNever(b, now) == b

\* retire_expiring: inside the margin the replacement takes over; without one
\* the channel is given up when the receiver settles it.
RetireExpiring(b, now) ==
    IF b.active = None THEN b
    ELSE IF ~ChannelExpiring(b.active, now, MARGIN) THEN b
    ELSE IF b.next # None
    THEN [b EXCEPT !.active = b.next, !.next = None, !.prior = None]
    ELSE IF ChannelExpiring(b.active, now, SettleLead)
    THEN [b EXCEPT !.active = None, !.prior = None]
    ELSE b

-----------------------------------------------------------------------------
(* The decision to buy. *)

\* The cap a refusal named, while it is held to.
CapOf(b, now) ==
    IF b.capped_at # None /\ now < b.capped_at.until THEN b.capped_at.rate ELSE None

\* fit_rate: None when nothing fits.
FitRate(b, pol, rate, now) ==
    LET wanted  == IF pol.reserve THEN Greatest(rate, pol.min_rate) ELSE 0
        bounded == Least(Greatest(wanted, MIN_RESERVED), pol.max_rate)
        cap     == CapOf(b, now)
        fitted  == IF cap = None THEN bounded ELSE Least(bounded, cap)
    IN  IF (pol.reserve /\ fitted = 0) \/ fitted < MIN_RESERVED THEN None ELSE fitted

\* reserved_rate
ReservedRate(b, pol, wanted, now) ==
    FitRate(b, pol, IF pol.reserve
                    THEN Least((wanted * pol.headroom_pct) \div 100, U64_MAX)
                    ELSE 0, now)

ClampWindow(want) == Least(Greatest(want, MIN_WINDOW), Greatest(MAX_WINDOW, MIN_WINDOW))
LeadWithin(pol, window) == Least(pol.renew_lead, window \div 2)

Leg(ch, total) == [channel |-> ch.id, cumulative |-> total]

\* How a purchase is signed: on the channel in use, across it and its
\* replacement, or as much as the channel in use still takes.
LegsFor(b, wanted) ==
    LET room == Headroom(b.active) IN
    IF wanted <= room
    THEN [legs |-> <<Leg(b.active, b.active.cumulative + wanted)>>, grant |-> wanted]
    ELSE IF b.next # None
    THEN LET over == Least(wanted - room, Headroom(b.next))
         IN  [legs |-> <<Leg(b.active, b.active.capacity),
                         Leg(b.next, b.next.cumulative + over)>>,
              grant |-> room + over]
    ELSE [legs |-> <<Leg(b.active, b.active.capacity)>>, grant |-> room]

\* Whether something is to be bought now, to reserve `rate`.
IsDue(b, pol, observed, rate, window, now) ==
    LET wanted == Greatest(Greatest(observed, pol.demand),
                           IF pol.reserve THEN ResumeRate(b, now) ELSE 0)
        lead   == LeadWithin(pol, window)
    IN  \/ rate > b.reserved /\ wanted > b.reserved         \* First, Rebuy, RateRose
        \/ ~pol.reserve /\ b.reserved > rate                \* StopReserving
        \/ BuyerRemaining(b, now) <=                        \* Renewal
               units_in(Greatest(b.reserved, observed), lead)
        \/ SatAdd(now, lead) >= b.deadline

\* poll: the purchase to make, or None to hold.
Poll(b, pol, observed, now) ==
    LET wanted == Greatest(observed, pol.demand)
        resume == IF pol.reserve THEN ResumeRate(b, now) ELSE 0
        tooSoon == b.last_topup # None /\ SatSub(now, b.last_topup) < MIN_GAP
        rate   == IF wanted > 0 THEN ReservedRate(b, pol, wanted, now)
                  ELSE FitRate(b, pol, resume, now)
        window == ClampWindow(pol.window)
        size   == IF pol.reserve THEN units_in(rate, window) ELSE pol.budget
        split  == LegsFor(b, Greatest(SatSub(size, BuyerRemaining(b, now)), 1))
    IN  IF \/ b.active = None \/ (wanted = 0 /\ resume = 0) \/ tooSoon
           \/ rate = None
        THEN None
        ELSE IF ~IsDue(b, pol, observed, rate, window, now) \/ split.grant = 0
        THEN None
        ELSE [legs |-> split.legs, window |-> window, rate |-> rate,
              grant |-> split.grant]

-----------------------------------------------------------------------------
(* Purchases made and refused. *)

\* Move on from a channel drained to its capacity, if there is another.
RetireExhausted(b) ==
    IF b.active # None /\ Exhausted(b.active) /\ b.next # None
    THEN [b EXCEPT !.active = b.next, !.next = None] ELSE b

\* record, before the channel it exhausts is retired.
Recorded(b, p, now) ==
    LET prior == [active |-> b.active, next |-> b.next, deadline |-> b.deadline,
                  reserved |-> b.reserved, started |-> b.started,
                  resumed |-> b.resumed, grant |-> p.grant]
        split == IF p.rate # b.reserved /\ b.second # None
                 THEN BuyerTake([b EXCEPT !.second = None],
                                OwedByClose(b.second, now, b.reserved))
                 ELSE b
    IN  [split EXCEPT
           !.prior = prior,
           !.active = [@ EXCEPT !.cumulative = p.legs[1].cumulative],
           !.next = IF Len(p.legs) = 2 THEN [@ EXCEPT !.cumulative = p.legs[2].cumulative]
                    ELSE @,
           !.remaining = SatAdd(BuyerRemaining(split, now), p.grant),
           !.deadline = Greatest(@, SatAdd(now, p.window)),
           !.reserved = p.rate, !.started = TRUE, !.resumed = 0,
           !.last_topup = now, !.last_grant = p.grant,
           !.second = IF @ = None THEN SecondStarting(now) ELSE @]

Record(b, p, now) == RetireExhausted(Recorded(b, p, now))

\* Mutant: any refusal is taken for that of the last purchase.
HoldsAny(ch, refused) == ch # None

\* Whether one of the totals a refusal names is one held now.
Holds(ch, refused) ==
    ch # None /\ \E i \in DOMAIN refused :
        refused[i].channel = ch.id /\ refused[i].cumulative = ch.cumulative

\* The cap a refusal for capacity names is held to.
Capped(b, reason, rate, now, hold) ==
    IF reason = "RateExceedsCapacity"
    THEN [b EXCEPT !.capped_at = [rate |-> rate, until |-> SatAdd(now, hold)]] ELSE b

\* record_reject: one step is undone, if it is the one refused.
RecordReject(b, refused, reason, rate, now, hold) ==
    LET capped == Capped(b, reason, rate, now, hold)
        p      == b.prior
    IN  IF (~Holds(b.active, refused) /\ ~Holds(b.next, refused)) \/ p = None
        THEN capped
        ELSE [capped EXCEPT
                !.prior = None, !.active = p.active, !.next = p.next,
                !.remaining = SatSub(@, p.grant), !.deadline = p.deadline,
                !.reserved = p.reserved, !.started = p.started, !.resumed = p.resumed]
=============================================================================
