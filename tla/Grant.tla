-------------------------------- MODULE Grant --------------------------------
(***************************************************************************)
(* The provider's view of one payer: the budget the payer has bought, what *)
(* it has drawn, its reservation, and the channels it pays on              *)
(* (tollgate-core/src/grant/state.rs), and the decision whether to honour  *)
(* a purchase (grant/core.rs).  Pure operators on a grant record; the      *)
(* state machine that applies them is in module Provider.                  *)
(*                                                                         *)
(* A channel's capacity and expiry come with its funding and are fixed, so *)
(* they are constant functions of the channel.                             *)
(***************************************************************************)
EXTENDS Limits, Sequences, FiniteSets

CONSTANTS
    Channels,                   \* channels payers may fund to pay on
    Capacity,                   \* units each can carry
    ExpiresAt,                  \* when its refund path opens, None if it has none
    None,                       \* Option::None
    MAX_VERIFICATION_FAILURES,  \* failures in a row that close a channel
    MIN_WINDOW, MAX_WINDOW,     \* GrantPolicy: windows a TopUp may carry
    MIN_RESERVED,               \* GrantPolicy: smallest reserved rate
    MIN_GAP,                    \* GrantPolicy: shortest time between TopUps
    MAX_RATE,                   \* GrantPolicy: rate reserved over all payers
    BURST, UNRESERVED,          \* BurstPolicy.rate and .unreserved_rate
    MINIMUM_FLOW,               \* the allowance of a payer with no budget
    TICK                        \* NodePolicy.tick_ms

ASSUME ChannelAssumption ==
    /\ IsFiniteSet(Channels)
    /\ Capacity \in [Channels -> U64 \ {0}]
    /\ ExpiresAt \in [Channels -> U64 \cup {None}]
    /\ None \notin U64 /\ None \notin Second /\ None \notin Channels
    /\ MAX_VERIFICATION_FAILURES \in Nat \ {0}

\* window_range_valid: a node refuses to start with any other range.
ASSUME PolicyAssumption ==
    /\ MIN_WINDOW \in U64 /\ MAX_WINDOW \in U64 /\ MIN_GAP \in U64
    /\ MIN_WINDOW <= MAX_WINDOW /\ MIN_WINDOW >= MIN_GAP
    /\ MIN_RESERVED \in U64 /\ MAX_RATE \in U64
    /\ BURST \in U64 /\ UNRESERVED \in U64 /\ MINIMUM_FLOW \in U64 /\ TICK \in U64

-----------------------------------------------------------------------------
(* Budgets as the host keeps them between sessions. *)

Budget == [remaining : U64, deadline : U64]
NoBudget == [remaining |-> 0, deadline |-> 0]

\* What is left of a budget at `now`: nothing once the deadline has passed.
BudgetAt(b, now) ==
    IF b.remaining = 0 \/ now >= b.deadline THEN NoBudget ELSE b

-----------------------------------------------------------------------------
(* The grant. *)

GrantState ==
    [open       : SUBSET Channels,       \* channels recognised
     signed     : [Channels -> U64],     \* cumulative total signed on each
     failures   : [Channels -> 0 .. (MAX_VERIFICATION_FAILURES - 1)],
     authorized : U64,
     consumed   : U64,
     deadline   : U64,
     reserved   : U64,
     last_topup : U64 \cup {None},
     second     : Second \cup {None}]

NewGrant ==
    [open |-> {}, signed |-> [c \in Channels |-> 0],
     failures |-> [c \in Channels |-> 0],
     authorized |-> 0, consumed |-> 0, deadline |-> 0, reserved |-> 0,
     last_topup |-> None, second |-> None]

Remaining(g) == SatSub(g.authorized, g.consumed)
IsLive(g, now) == now < g.deadline /\ Remaining(g) > 0

\* Never overdrawn, and nothing reserved without a budget to reserve against
\* (short of a count that has saturated, which a purchase no longer raises).
GrantSound(g) ==
    /\ g.consumed <= g.authorized
    /\ g.reserved > 0 => Remaining(g) > 0 \/ g.authorized = U64_MAX

\* The budget as it stands at `now`.
BudgetOf(g, now) ==
    BudgetAt([remaining |-> Remaining(g), deadline |-> g.deadline], now)

\* Mutant: an emptied budget keeps its reservation.
TakeKeepsReservation(g, owed) ==
    [g EXCEPT !.consumed = SatAdd(@, Least(owed, Remaining(g)))]

\* Draw `owed`, never past zero; a budget that empties ends its reservation.
Take(g, owed) ==
    LET drawn == Least(owed, Remaining(g))
        taken == [g EXCEPT !.consumed = SatAdd(@, drawn)]
    IN  IF Remaining(taken) = 0 THEN [taken EXCEPT !.reserved = 0] ELSE taken

\* Stop drawing: the part second up to the last reading is drawn.
Pause(g) ==
    IF g.second = None THEN g
    ELSE Take([g EXCEPT !.second = None],
              OwedByClose(g.second, g.second.at, g.reserved))

\* Draw a meter reading.
Draw(g, moved, now) ==
    IF g.second = None
    THEN Take([g EXCEPT !.second = SecondAfterRead(SecondStarting(now), moved, now)],
              moved)
    ELSE Take([g EXCEPT !.second = SecondAfterRead(@, moved, now)],
              OwedByRead(g.second, moved, now, g.reserved))

\* What is left is forfeit once the deadline has passed.
ExpireIfDue(g, now) ==
    IF now < g.deadline THEN g
    ELSE [g EXCEPT !.reserved = 0, !.consumed = Greatest(@, g.authorized)]

EndReservation(g) == [Pause(g) EXCEPT !.reserved = 0]

\* Take up a budget left behind in an earlier session.
Restore(g, budget, now) ==
    LET b == BudgetAt(budget, now) IN
    [g EXCEPT !.authorized = b.remaining, !.consumed = 0,
              !.deadline = b.deadline, !.reserved = 0, !.second = None]

\* Mutants: the ratchet starts again at zero; what was drawn is given back.
RestartForgetsRatchet(g, now) ==
    Restore([NewGrant EXCEPT !.open = g.open], BudgetOf(Pause(g), now), now)
RestartRefills(g, now) ==
    Restore([NewGrant EXCEPT !.open = g.open, !.signed = g.signed],
            [remaining |-> g.authorized, deadline |-> g.deadline], now)

\* Start a new session over the channels and budget of the last one.
Restart(g, now) ==
    LET paused == Pause(g) IN
    Restore([NewGrant EXCEPT !.open = g.open, !.signed = g.signed],
            BudgetOf(paused, now), now)

-----------------------------------------------------------------------------
(* Channels. *)

\* A channel already recognised keeps its ratchet.
OpenChannel(g, c) ==
    IF c \in g.open THEN g
    ELSE [g EXCEPT !.open = @ \cup {c}, !.signed[c] = 0, !.failures[c] = 0]

\* Stop recognising channels; the budget they paid for is not touched.
CloseChannels(g, cs) ==
    [g EXCEPT !.open = @ \ cs,
              !.signed = [c \in Channels |-> IF c \in cs THEN 0 ELSE @[c]],
              !.failures = [c \in Channels |-> IF c \in cs THEN 0 ELSE @[c]]]

ExhaustedChannels(g) == {c \in g.open : g.signed[c] >= Capacity[c]}

ExpiringChannels(g, now, lead) ==
    {c \in g.open : ExpiresAt[c] # None /\ SatAdd(now, lead) >= ExpiresAt[c]}

\* Mutant: one failure more than the limit is let through.
FailedPastLimit(g, cs) ==
    {c \in cs \cap g.open : g.failures[c] + 1 > MAX_VERIFICATION_FAILURES}

\* Channels that a failed verification on `cs` takes to the limit, and the
\* count on the rest.
FailedChannels(g, cs) ==
    {c \in cs \cap g.open : g.failures[c] + 1 >= MAX_VERIFICATION_FAILURES}
RecordFailures(g, cs) ==
    [g EXCEPT !.failures = [c \in Channels |->
        IF c \in (cs \cap g.open) \ FailedChannels(g, cs) THEN @[c] + 1 ELSE @[c]]]

-----------------------------------------------------------------------------
(* Purchases.  A TopUp's updates are a sequence of channel and total.  The *)
(* payer signs across at most two channels, the one in use and its         *)
(* replacement, which bounds the sequence.                                 *)

MAX_UPDATES == 2
Update == [channel : Channels, cumulative : U64]
Updates == UNION {[1 .. n -> Update] : n \in 0 .. MAX_UPDATES}

\* The channels a purchase ratchets, and the total it takes each to.
Named(us) == {us[i].channel : i \in DOMAIN us}
TotalOn(us, c) == us[CHOOSE i \in DOMAIN us : us[i].channel = c].cumulative

TooSoon(g, now) == g.last_topup # None /\ SatSub(now, g.last_topup) < MIN_GAP

\* What is wrong with the i-th update, if anything, checked in this order.
Fault(g, us, i) ==
    LET u == us[i] IN
    IF u.channel \notin g.open THEN "FundingInvalid"
    ELSE IF u.cumulative <= g.signed[u.channel] THEN "GrantInvalid"
    ELSE IF u.cumulative > Capacity[u.channel] THEN "GrantExceedsChannel"
    ELSE IF \E j \in 1 .. (i - 1) : us[j].channel = u.channel THEN "GrantInvalid"
    ELSE "None"

Faulty(g, us) == {i \in DOMAIN us : Fault(g, us, i) # "None"}

\* evaluate_topup: the whole purchase is honoured, or refused with the first
\* reason met.
Verdict(g, available, us, window, rate) ==
    IF DOMAIN us = {} THEN "GrantInvalid"
    ELSE IF Faulty(g, us) # {}
    THEN Fault(g, us, CHOOSE i \in Faulty(g, us) : \A j \in Faulty(g, us) : i <= j)
    ELSE IF window \notin MIN_WINDOW .. MAX_WINDOW \/ rate < MIN_RESERVED
    THEN "OutOfRange"
    ELSE IF rate > g.reserved /\ rate > available THEN "RateExceedsCapacity"
    ELSE "Accept"

\* Mutant: the totals are bought again in full.
IncreaseFromZero(g, us) ==
    IF 2 \in DOMAIN us THEN SatAdd(us[1].cumulative, us[2].cumulative)
    ELSE us[1].cumulative

\* The combined increase: what the purchase buys.
Increase(g, us) ==
    LET inc(i) == us[i].cumulative - g.signed[us[i].channel]
    IN  IF 2 \in DOMAIN us THEN SatAdd(inc(1), inc(2)) ELSE inc(1)

\* Channels a refused purchase failed to ratchet.
NotIncreasing(g, us) ==
    {c \in g.open : \E i \in DOMAIN us :
        /\ us[i].channel = c
        /\ \/ us[i].cumulative <= g.signed[c]
           \/ \E j \in 1 .. (i - 1) : us[j].channel = c}

\* Mutant: a purchase replaces what was left instead of adding to it.
ApplyReplaces(g, us, window, rate, now) ==
    [g EXCEPT
       !.signed = [c \in Channels |-> IF c \in Named(us) THEN TotalOn(us, c) ELSE @[c]],
       !.authorized = SatAdd(g.consumed, Increase(g, us)),
       !.deadline = Greatest(@, SatAdd(now, window)),
       !.reserved = rate,
       !.second = IF @ = None THEN SecondStarting(now) ELSE @]

\* Apply a validated purchase.  A changed rate splits the second being drawn.
Apply(g, us, window, rate, now) ==
    LET ratcheted ==
            [g EXCEPT
               !.signed = [c \in Channels |->
                    IF c \in Named(us) THEN TotalOn(us, c) ELSE @[c]],
               !.failures = [c \in Channels |-> IF c \in Named(us) THEN 0 ELSE @[c]]]
        unexpired == ExpireIfDue(ratcheted, now)
        split     ==
            IF rate # unexpired.reserved /\ unexpired.second # None
            THEN Take([unexpired EXCEPT !.second = None],
                      OwedByClose(unexpired.second, now, unexpired.reserved))
            ELSE unexpired
    IN  [split EXCEPT !.authorized = SatAdd(@, Increase(g, us)),
                      !.deadline = Greatest(@, SatAdd(now, window)),
                      !.reserved = rate,
                      !.second = IF @ = None THEN SecondStarting(now) ELSE @]

-----------------------------------------------------------------------------
(* The rate the payer is shaped at. *)

UnreservedSpeed == IF UNRESERVED = 0 THEN U64_MAX ELSE UNRESERVED

ShapingRate(g, now) ==
    IF ~IsLive(g, now) THEN MINIMUM_FLOW
    ELSE LET speed == IF g.reserved > 0 THEN Greatest(g.reserved, BURST)
                      ELSE UnreservedSpeed
         IN  Greatest(Least(speed, per_tick_ceiling(Remaining(g), TICK)), MINIMUM_FLOW)
=============================================================================
