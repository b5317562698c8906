------------------------------- MODULE Peering -------------------------------
(***************************************************************************)
(* A payer and a provider over a link: the buying half of Sessions         *)
(* (session/core.rs) at one end, its provider half at the other, the       *)
(* payer's host funding channels in its own time, the provider's host      *)
(* verifying them, and everything that can go wrong between: a full outbox *)
(* drops a message, the link is cut with messages in flight, each end      *)
(* notices when it does, fundings fail, hang or come back after another    *)
(* was asked for, and either process dies.                                 *)
(*                                                                         *)
(* The provider end applies the operators of module Grant, as module       *)
(* Provider does; what other payers have reserved is an input here.        *)
(***************************************************************************)
EXTENDS Buyer, Sums, SequencesExt

CONSTANTS
    Demands,        \* rates the payer's host observes
    Availables,     \* rates the provider has to give, as others leave them
    MAX_MOVED,      \* units that can move between two readings
    MAX_NOW,        \* the clock stops here, and nothing more moves
    Allowances,     \* bounds on what goes wrong or changes in a behaviour, by kind
    Late            \* whether a funding asked for or sent on one connection may
                    \* still be with a worker when the next one is made

Allowance ==
    [lost      : Nat,   \* messages dropped by a full outbox
     cuts      : Nat,   \* links cut, by themselves or by an end that dies
     failed    : Nat,   \* fundings that fail
     revisions : Nat,   \* Offers revised
     settings  : Nat]   \* buyer policies set while running

ASSUME PeeringAssumption ==
    /\ Demands \subseteq U64 /\ Availables \subseteq U64
    /\ {MAX_MOVED, MAX_NOW} \subseteq U64
    /\ Allowances \subseteq Allowance
    /\ Late \in BOOLEAN

VARIABLES
    now,        \* the clock both ends read
    due,        \* ends whose timer has a tick to deliver
    link,       \* whether a connection carries messages
    toP, toB,   \* messages in flight to the provider and to the buyer
    bs,         \* the buyer's end of the session
    b,          \* its Buyer
    policy,     \* the BuyerPolicy in force
    requests,   \* fundings asked of the payer's host
    next_request,
    funded,     \* channels the payer's host has funded
    reclaimed,  \* those handed back unused
    signedOn,   \* the highest total the payer has signed on each channel
    ps,         \* where the provider keeps the session
    charging,   \* whether its Offer charges us
    g,          \* its grant
    kept,       \* the budget it keeps on disk
    verifying,  \* fundings its host is checking
    recorded,   \* the total its channel backend holds for each channel
    spare       \* what of its Allowance is left to the behaviour

buyerVars    == <<bs, b, policy, requests, next_request, funded, reclaimed, signedOn>>
providerVars == <<ps, charging, g, kept, verifying, recorded>>
vars == <<now, due, link, toP, toB, buyerVars, providerVars, spare>>

BuyerSession ==
    [phase  : {"none", "open", "parked"},
     offer  : {"none", "charge", "free"},
     kept   : BOOLEAN,      \* kept_by_peer
     demand : U64]

NoBuyerSession == [phase |-> "none", offer |-> "none", kept |-> FALSE, demand |-> 0]

Fault1(kind) == spare' = [spare EXCEPT ![kind] = @ - 1]

\* Where a session can be heard.
BuyerInPeers    == bs.phase = "open"
ProviderInPeers == ps = "peers"

-----------------------------------------------------------------------------
(* Sending.  Nothing reaches a dead link, and a full outbox may drop one.   *)

Put(queue, msgs) == IF link THEN queue \o msgs ELSE queue

\* `msgs` as they leave, with at most one dropped.
Leaves(msgs, left) ==
    \/ left = msgs /\ UNCHANGED spare
    \/ /\ link /\ spare.lost > 0
       /\ \E i \in DOMAIN msgs : left = RemoveAt(msgs, i)
       /\ Fault1("lost")

-----------------------------------------------------------------------------
(* The buyer's handlers work on an outcome: the buyer, the messages it      *)
(* sends, the capacities it asks the host to fund, and the totals it signs. *)

BuyerStart == [b |-> b, msgs |-> <<>>, ask |-> <<>>]

Accept(c)       == [type |-> "Accept", funding |-> c]
RolloverInit(c) == [type |-> "RolloverInit", funding |-> c]
TopUp(p) == [type |-> "TopUp", updates |-> p.legs, window |-> p.window, rate |-> p.rate]

\* poll_buyer
PollBuyer(o, session) ==
    LET unexpiring == RetireExpiring(o.b, now)
        p          == Poll(unexpiring, policy, session.demand, now)
    IN  IF session.offer # "charge" THEN o
        ELSE IF p = None THEN [o EXCEPT !.b = unexpiring]
        ELSE [o EXCEPT !.b = Record(unexpiring, p, now), !.msgs = Append(@, TopUp(p))]

\* request_funding: the request is marked at once.
RequestFunding(o, capacity) ==
    [o EXCEPT !.b = FundingRequested(@, next_request + Len(o.ask), now),
              !.ask = Append(@, capacity)]

\* poll_rollover.  It asks whatever the Offer charges.
PollRollover(o, session) ==
    LET why == RolloverDue(o.b, now) IN
    IF session.offer = "none" \/ why = "None" THEN o
    ELSE RequestFunding(o, IF why = "Capacity" THEN GrownCapacity(o.b.active.capacity)
                           ELSE ClampCapacity(o.b.active.capacity))

\* Mutant: a request that failed or hung is never made again.
OpeningOnce(o, session) == o

\* poll_opening: a channel is wanted and there is none of any kind.
PollOpening(o, session) ==
    IF \/ session.offer # "charge" \/ ~IsBuying(policy)
       \/ o.b.active # None \/ o.b.next # None \/ o.b.pending # None
       \/ FundingInFlight(o.b, now)
    THEN o ELSE RequestFunding(o, FirstCapacity)

\* The payer's host signs what a TopUp carries, sent or not.
Signs(msgs) ==
    [c \in Channels |->
        Max({signedOn[c]} \cup {u.cumulative : u \in {u \in UNION {ToSet(m.updates) :
                m \in {m \in ToSet(msgs) : m.type = "TopUp"}} : u.channel = c}})]

\* Put a buyer's outcome in place: what it asks for, signs and sends.
BuyerCommit(o, session) ==
    /\ bs' = session
    /\ b' = o.b
    /\ signedOn' = Signs(o.msgs)
    /\ requests' = requests \cup
          {[id |-> next_request + i - 1, capacity |-> o.ask[i]] : i \in DOMAIN o.ask}
    /\ next_request' = next_request + Len(o.ask)
    /\ \E left \in {o.msgs} \cup {RemoveAt(o.msgs, i) : i \in DOMAIN o.msgs} :
         Leaves(o.msgs, left) /\ toP' = Put(toP, left)
    /\ UNCHANGED <<now, link, policy, funded, reclaimed, providerVars>>

\* The head of the queue is a message of this type; a session that is not in
\* `peers` drops what it hears.
BuyerHears(type) ==
    /\ toB # <<>> /\ Head(toB).type = type /\ BuyerInPeers
    /\ toB' = Tail(toB)
    /\ UNCHANGED due

\* on_offer.  The opening one decides between carrying on with a channel the
\* peer still holds and starting over; a later one revises the terms.
RecvOffer ==
    LET charge  == Head(toB).charge
        session == [bs EXCEPT !.offer = IF charge THEN "charge" ELSE "free"]
        buying  == charge /\ IsBuying(policy)
        over    == [BuyerStart EXCEPT !.b = StartOver(b)]
    IN  /\ BuyerHears("Offer")
        /\ BuyerCommit(
             IF bs.offer # "none" THEN PollOpening(BuyerStart, session)
             ELSE IF b.active # None /\ bs.kept /\ buying
             THEN PollBuyer([BuyerStart EXCEPT !.b = ForgetPending(b)], session)
             ELSE IF buying THEN RequestFunding(over, FirstCapacity)
             ELSE [over EXCEPT !.msgs = <<Accept(None)>>],
             session)

\* ChannelReady: confirms a funding, or says the peer still holds the channel
\* we are draining.
RecvChannelReady ==
    LET c == Head(toB).channel
        confirmed == IF IsActive(b, c) THEN b ELSE Confirmed(b, c)
        session   == [bs EXCEPT !.kept = @ \/ IsActive(confirmed, c)]
    IN  /\ BuyerHears("ChannelReady")
        /\ BuyerCommit(PollBuyer([BuyerStart EXCEPT !.b = confirmed], session), session)

RecvRolloverReady ==
    /\ BuyerHears("RolloverReady")
    /\ BuyerCommit(PollBuyer([BuyerStart EXCEPT !.b = Confirmed(b, Head(toB).channel)], bs),
                   bs)

RecvTopUpReject ==
    LET m == Head(toB)
        rejected == RecordReject(b, m.refused, m.reason, m.rate, now, policy.cap_hold)
    IN  /\ BuyerHears("TopUpReject")
        /\ BuyerCommit(PollBuyer([BuyerStart EXCEPT !.b = rejected], bs), bs)

\* Information only, but for a buyer with no count of its own.
RecvBalance ==
    LET m == Head(toB) IN
    /\ BuyerHears("Balance")
    /\ BuyerCommit([BuyerStart EXCEPT !.b = NoteBalance(b, m.remaining, m.expires_in, now)],
                   bs)

\* Our own reading of the link, then core's tick.
BuyerTick(moved) ==
    LET drawn == [BuyerStart EXCEPT !.b =
                    IF bs.offer = "charge" THEN BuyerDraw(b, moved, now) ELSE b]
    IN  /\ "buyer" \in due
        /\ due' = due \ {"buyer"}
        /\ UNCHANGED toB
        /\ IF BuyerInPeers
           THEN BuyerCommit(PollOpening(PollRollover(PollBuyer(drawn, bs), bs), bs), bs)
           ELSE BuyerCommit(BuyerStart, bs)

\* The host measures what is wanted of the peer.
DemandObserved(rate) ==
    LET session == [bs EXCEPT !.demand = rate] IN
    /\ BuyerInPeers /\ rate # bs.demand
    /\ BuyerCommit(PollBuyer(BuyerStart, session), session)
    /\ UNCHANGED <<due, toB>>

\* set_buyer_policy: the operator changes how the node buys.
SetBuyerPolicy(pol) ==
    /\ spare.settings > 0 /\ pol # policy
    /\ policy' = pol
    /\ Fault1("settings")
    /\ UNCHANGED <<now, due, link, toP, toB, bs, b, requests, next_request, funded,
                   reclaimed, signedOn, providerVars>>

-----------------------------------------------------------------------------
(* The payer's host funds channels, one mint round trip each, in its own    *)
(* time and in any order.                                                   *)

\* OutgoingChannelFunded: an answer core no longer waits for is handed back.
FundAnswered(r, c) ==
    LET taken == BuyerInPeers /\ Answers(b, r.id)
        o     == [BuyerStart EXCEPT !.b = Funded(b, c),
                    !.msgs = <<IF b.active = None THEN Accept(c) ELSE RolloverInit(c)>>]
    IN  /\ r \in requests /\ c \notin funded /\ Capacity[c] = r.capacity
        /\ requests' = requests \ {r}
        /\ funded' = funded \cup {c}
        /\ reclaimed' = IF taken THEN reclaimed ELSE reclaimed \cup {c}
        /\ b' = IF taken THEN o.b ELSE b
        /\ IF taken
           THEN \E left \in {o.msgs, <<>>} : Leaves(o.msgs, left) /\ toP' = Put(toP, left)
           ELSE UNCHANGED <<toP, spare>>
        /\ UNCHANGED <<now, due, link, toB, bs, policy, next_request, signedOn,
                       providerVars>>

FundFailed(r) ==
    /\ r \in requests /\ spare.failed > 0
    /\ requests' = requests \ {r}
    /\ b' = IF BuyerInPeers THEN FundingFailed(b, r.id) ELSE b
    /\ Fault1("failed")
    /\ UNCHANGED <<now, due, link, toP, toB, bs, policy, next_request, funded,
                   reclaimed, signedOn, providerVars>>

-----------------------------------------------------------------------------
(* The provider's handlers, with the outcome of each: its grant, what it    *)
(* keeps on disk, what its backend records, and what it sends.              *)

ProviderStart == [g |-> g, kept |-> kept, recorded |-> recorded, msgs |-> <<>>]

Say(o, msg) == [o EXCEPT !.msgs = Append(@, msg)]

\* save_budget: only of a peer it charges.
Keep(o) == IF charging THEN [o EXCEPT !.kept = BudgetOf(o.g, now)] ELSE o

Balance(o) == [type |-> "Balance", remaining |-> BudgetOf(o.g, now).remaining,
               expires_in |-> SatSub(o.g.deadline, now)]

Offer(charge) == [type |-> "Offer", charge |-> charge]

ProviderCommit(o) ==
    /\ g' = o.g /\ kept' = o.kept /\ recorded' = o.recorded
    /\ \E left \in {o.msgs} \cup {RemoveAt(o.msgs, i) : i \in DOMAIN o.msgs} :
         Leaves(o.msgs, left) /\ toB' = Put(toB, left)
    /\ UNCHANGED <<now, link, buyerVars>>

ProviderHears(type) ==
    /\ toP # <<>> /\ Head(toP).type = type /\ ProviderInPeers
    /\ toP' = Tail(toP)
    /\ UNCHANGED <<due, ps, charging>>

\* on_accept: the payment stream starts from nothing.
RecvAccept ==
    /\ ProviderHears("Accept")
    /\ ProviderCommit([ProviderStart EXCEPT !.g = CloseChannels(@, @.open)])
    /\ verifying' = verifying \cup ({Head(toP).funding} \ {None})

RecvRolloverInit ==
    /\ ProviderHears("RolloverInit")
    /\ ProviderCommit(ProviderStart)
    /\ verifying' = verifying \cup {Head(toP).funding}

\* on_incoming_verified, to whatever session there is by then.
Verified(c) ==
    LET ready == [type |-> IF g.open \ {c} = {} THEN "ChannelReady" ELSE "RolloverReady",
                  channel |-> c]
    IN  /\ c \in verifying
        /\ verifying' = verifying \ {c}
        /\ ProviderCommit(IF ProviderInPeers
                          THEN Say([ProviderStart EXCEPT !.g = OpenChannel(@, c)], ready)
                          ELSE ProviderStart)
        /\ UNCHANGED <<due, toP, ps, charging>>

\* A purchase honoured: recorded, its drained channels settled, and saved.
Bought(m) ==
    LET applied == Apply([g EXCEPT !.last_topup = now], m.updates, m.window, m.rate, now)
        o == Keep([ProviderStart EXCEPT
                !.g = CloseChannels(applied, ExhaustedChannels(applied)),
                !.recorded = [c \in Channels |-> IF c \in Named(m.updates)
                                THEN TotalOn(m.updates, c) ELSE @[c]]])
    IN  Say(o, Balance(o))

Refusal(m, reason, rate) ==
    [type |-> "TopUpReject", refused |-> m.updates, reason |-> reason, rate |-> rate]

\* on_topup.  A total that does not increase counts against its channel.
RecvTopUp(available) ==
    LET m       == Head(toP)
        checked == [ProviderStart EXCEPT !.g = [@ EXCEPT !.last_topup = now]]
        verdict == Verdict(g, available, m.updates, m.window, m.rate)
        stale   == NotIncreasing(g, m.updates)
    IN  /\ ProviderHears("TopUp")
        /\ ProviderCommit(
             IF TooSoon(g, now) THEN Say(ProviderStart, Refusal(m, "TooSoon", available))
             ELSE IF verdict = "Accept" THEN Bought(m)
             ELSE IF verdict = "GrantInvalid"
             THEN [checked EXCEPT !.g = CloseChannels(RecordFailures(@, stale),
                                                      FailedChannels(g, stale))]
             ELSE Say(checked, Refusal(m, verdict, available)))
        /\ UNCHANGED verifying

\* set_peer_policy: a change to whether it charges is sent at once.
ReviseOffer ==
    /\ spare.revisions > 0
    /\ charging' = ~charging
    /\ toB' = IF ProviderInPeers THEN Put(toB, <<Offer(~charging)>>) ELSE toB
    /\ Fault1("revisions")
    /\ UNCHANGED <<now, due, link, toP, buyerVars, ps, g, kept, verifying, recorded>>

\* A reading drawn, then core's tick.  A budget that has run out is kept no
\* longer; the notice of it says nothing a buyer acts on.
ProviderTick(moved) ==
    LET carried == charging /\ (g.open # {} \/ Remaining(g) > 0)
        ticked  == ExpireIfDue(IF carried THEN Draw(g, moved, now) ELSE Pause(g), now)
        held    == CloseChannels(ticked, ExpiringChannels(ticked, now, SettleLead))
        spent   == charging /\ Remaining(g) > 0 /\ ~IsLive(held, now)
    IN  /\ "provider" \in due
        /\ due' = due \ {"provider"}
        /\ ProviderCommit(IF ProviderInPeers
              THEN [ProviderStart EXCEPT !.g = held, !.kept = IF spent THEN NoBudget ELSE @]
              ELSE IF ps = "parked"
              THEN [ProviderStart EXCEPT
                      !.g = CloseChannels(@, ExpiringChannels(@, now, SettleLead))]
              ELSE ProviderStart)
        /\ UNCHANGED <<toP, ps, charging, verifying>>

-----------------------------------------------------------------------------
(* Connections. *)

\* Both ends start a session, over what each kept of the last.  The provider
\* says which channels it still holds before its Offer.
Connect ==
    LET restarted == IF ps # "none" THEN Restart(g, now) ELSE Restore(NewGrant, kept, now)
        held == CloseChannels(restarted, ExpiringChannels(restarted, now, SettleLead))
        o    == [ProviderStart EXCEPT !.g = held]
    IN  /\ ~link /\ link' = TRUE
        /\ Late \/ (requests = {} /\ verifying = {})
        /\ bs' = [NoBuyerSession EXCEPT !.phase = "open"]
        /\ b' = IF bs.phase = "none" THEN NewBuyer ELSE BuyerRestart(b)
        /\ ps' = "peers" /\ g' = held
        /\ toP' = <<>>
        /\ \E order \in SetToSeqs(held.open) :
             toB' = [i \in DOMAIN order |-> [type |-> "ChannelReady", channel |-> order[i]]]
                    \o <<Offer(charging)>> \o (IF charging THEN <<Balance(o)>> ELSE <<>>)
        /\ UNCHANGED <<now, due, policy, requests, next_request, funded, reclaimed,
                       signedOn, charging, kept, verifying, recorded, spare>>

\* The link goes, with everything in flight.
Cut ==
    /\ link /\ spare.cuts > 0
    /\ link' = FALSE /\ toP' = <<>> /\ toB' = <<>>
    /\ Fault1("cuts")
    /\ UNCHANGED <<now, due, buyerVars, providerVars>>

\* PeerDown, or silence, at each end: the session is held.
BuyerDown ==
    /\ ~link /\ BuyerInPeers
    /\ bs' = [bs EXCEPT !.phase = "parked"]
    /\ UNCHANGED <<now, due, link, toP, toB, b, policy, requests, next_request, funded,
                   reclaimed, signedOn, providerVars, spare>>

ProviderDown ==
    LET o == Keep([ProviderStart EXCEPT !.g = EndReservation(@)]) IN
    /\ ~link /\ ProviderInPeers
    /\ ps' = "parked" /\ g' = o.g /\ kept' = o.kept
    /\ UNCHANGED <<now, due, link, toP, toB, buyerVars, charging, verifying, recorded,
                   spare>>

\* expire_parked: the grace period ends without a return.
BuyerGraceOver ==
    /\ ~link /\ bs.phase = "parked"
    /\ bs' = NoBuyerSession /\ b' = NewBuyer
    /\ UNCHANGED <<now, due, link, toP, toB, policy, requests, next_request, funded,
                   reclaimed, signedOn, providerVars, spare>>

ProviderGraceOver ==
    /\ ~link /\ ps = "parked"
    /\ ps' = "none" /\ g' = NewGrant
    /\ UNCHANGED <<now, due, link, toP, toB, buyerVars, charging, kept, verifying,
                   recorded, spare>>

\* A process dies, and the link with it; the other end has to notice.
BuyerCrash ==
    /\ spare.cuts > 0 /\ bs.phase # "none"
    /\ link' = FALSE /\ toP' = <<>> /\ toB' = <<>>
    /\ bs' = NoBuyerSession /\ b' = NewBuyer /\ requests' = {}
    /\ Fault1("cuts")
    /\ UNCHANGED <<now, due, policy, next_request, funded, reclaimed, signedOn, providerVars>>

ProviderCrash ==
    /\ spare.cuts > 0 /\ ps # "none"
    /\ link' = FALSE /\ toP' = <<>> /\ toB' = <<>>
    /\ ps' = "none" /\ g' = NewGrant /\ verifying' = {}
    /\ Fault1("cuts")
    /\ UNCHANGED <<now, due, buyerVars, charging, kept, recorded>>

\* Time passes and both timers fire; each tick is handled before the next.
Elapse ==
    /\ due = {}
    /\ now' = Least(now + 1, MAX_NOW)
    /\ due' = {"buyer", "provider"}
    /\ UNCHANGED <<link, toP, toB, buyerVars, providerVars, spare>>

-----------------------------------------------------------------------------

Init ==
    /\ now = 0 /\ due = {} /\ link = FALSE /\ toP = <<>> /\ toB = <<>>
    /\ bs = NoBuyerSession /\ b = NewBuyer /\ policy \in BuyerPolicies
    /\ requests = {} /\ next_request = 1 /\ funded = {} /\ reclaimed = {}
    /\ signedOn = [c \in Channels |-> 0]
    /\ ps = "none" /\ charging = TRUE /\ g = NewGrant /\ kept = NoBudget
    /\ verifying = {} /\ recorded = [c \in Channels |-> 0]
    /\ spare \in Allowances

\* What a reading may show since the one before it.
Moves == IF now < MAX_NOW THEN 0 .. MAX_MOVED ELSE {0}

BuyerReceives ==
    RecvOffer \/ RecvChannelReady \/ RecvRolloverReady \/ RecvTopUpReject \/ RecvBalance

ProviderReceives ==
    RecvAccept \/ RecvRolloverInit \/ \E available \in Availables : RecvTopUp(available)

Ticks == \E moved \in Moves : BuyerTick(moved) \/ ProviderTick(moved)

HostStep ==
    \/ \E r \in requests, c \in Channels : FundAnswered(r, c)
    \/ \E c \in Channels : Verified(c)

\* What happens to the two ends rather than by them.
Environment ==
    \/ \E rate \in Demands : DemandObserved(rate)
    \/ \E pol \in BuyerPolicies : SetBuyerPolicy(pol)
    \/ \E r \in requests : FundFailed(r)
    \/ ReviseOffer \/ Cut
    \/ BuyerDown \/ ProviderDown \/ BuyerGraceOver \/ ProviderGraceOver
    \/ BuyerCrash \/ ProviderCrash

Next ==
    \/ BuyerReceives \/ ProviderReceives \/ Ticks \/ HostStep
    \/ Connect \/ Elapse \/ Environment

Spec == Init /\ [][Next]_vars

-----------------------------------------------------------------------------
(* Properties. *)

\* The channels the buyer knows of.
Held == {ch.id : ch \in {b.active, b.next, b.pending} \ {None}}

\* Every variable has its type.
TypeOK ==
    /\ now \in 0 .. MAX_NOW /\ due \subseteq {"buyer", "provider"}
    /\ link \in BOOLEAN
    /\ bs \in BuyerSession /\ policy \in BuyerPolicies
    /\ {b.active, b.next, b.pending} \subseteq ChannelBuyer \cup {None}
    /\ b.funding # None => b.funding \in FundingRequests /\ b.funding.first <= b.funding.latest
    /\ \A r \in requests : r.id < next_request
    /\ reclaimed \subseteq funded /\ funded \subseteq Channels
    /\ ps \in {"none", "peers", "parked"} /\ charging \in BOOLEAN
    /\ g.open \subseteq Channels /\ kept \in Budget
    /\ verifying \subseteq funded
    /\ signedOn \in [Channels -> U64] /\ recorded \in [Channels -> U64]

\* On a channel both ends know, the payer's own total is never behind the one
\* the provider has taken: a payer behind would sign totals that do not
\* increase, which the provider counts as failed verifications until it closes
\* the channel (Buyer::record_reject, Buyer::confirmed, GrantState::restart).
BuyerNotBehind ==
    \A ch \in {b.active, b.next} \ {None} :
        ch.id \in g.open => g.signed[ch.id] <= ch.cumulative

\* The channel awaiting confirmation is taken for another: one the provider
\* still held when it came back.
Mistaken ==
    b.pending # None /\ b'.pending = None /\ b.pending.id \notin Held'

\* No purchase, refusal, retirement, return or loss puts the payer behind, in
\* whatever order refusals arrive and whatever was dropped before them: only
\* taking one channel for another does (Buyer::record_reject, Buyer::restart).
KeepsUp == [][BuyerNotBehind => BuyerNotBehind' \/ Mistaken]_vars

\* Nothing is signed on a channel whose funding the provider is still checking,
\* nor on one that was handed back (poll and confirmed in buyer/,
\* ReclaimChannel in Sessions::handle).
SignedOnConfirmed ==
    \A c \in Channels : signedOn[c] > 0 => c \in funded \ (verifying \cup reclaimed)

\* While a funding request is open no channel awaits confirmation, however often
\* requests time out, fail or are answered late: what comes back displaces no
\* channel the peer has been sent (rollover_due, poll_opening, funded and
\* answers); and the variables have their types.
OneFunding == TypeOK /\ (b.funding # None => b.pending = None)

\* A channel leaves the buyer's hands only when it is drained, is about to be
\* settled by the peer, or the whole session starts over: money is not stranded
\* in a channel nobody will sign on (record, confirmed, funded, retire_expiring,
\* record_reject).
NothingStranded ==
    [][\A c \in Held : c \in Held'
         \/ signedOn[c] = Capacity[c] \/ signedOn'[c] = Capacity[c]
         \/ (ExpiresAt[c] # None /\ SatAdd(now, MARGIN) >= ExpiresAt[c])
         \/ bs'.phase # bs.phase \/ (bs.offer = "none" /\ bs'.offer # "none")]_vars

\* Nothing more is signed on the channel in use, or on its replacement, once the
\* peer is due to settle it: what is signed later could be neither used nor
\* claimed (retire_expiring before every purchase, on a return and on a policy
\* set again too).  A channel confirmed that late had no life to begin with.
SignedBeforeSettling ==
    [][\A ch \in {b.active, b.next} \ {None} : signedOn'[ch.id] > signedOn[ch.id] =>
          ch.expires = None \/ SatAdd(now, SettleLead) < ch.expires]_vars

\* What is signed for, credited and left, as module Account has them.
TotalOver(f) == SumOver(f, Channels)
LeftWith ==
    IF ps = "none" THEN BudgetAt(kept, now).remaining ELSE BudgetOf(g, now).remaining

Acct == INSTANCE Account WITH
            signed <- TotalOver(signedOn), credited <- TotalOver(recorded),
            left <- LeftWith, saved <- BudgetAt(kept, now).remaining

\* The two ends, with their channels, losses, returns and crashes, implement the
\* account: credit only for what was signed, and budget only by credit.
ImplementsAccount == Acct!Spec

\* The two ends are connected and the provider takes payment on the channel the
\* buyer signs on.
Paying ==
    /\ BuyerInPeers /\ ProviderInPeers /\ b.active # None
    /\ b.active.id \in g.open

\* Unless every channel there is has been funded, the buyer ends up able to pay:
\* fundings that fail, superseded ones, cuts and crashes only delay it
\* (poll_opening, confirmed, and ChannelReady on a return).
EventuallyPaying == <>[](Paying \/ funded = Channels)

\* The event loops take what arrives and every tick, workers answer, and a lost
\* connection is made again: weak fairness of each, with the condition that
\* enables it written out.
CanFund    == \E r \in requests, c \in Channels \ funded : Capacity[c] = r.capacity
CanConnect == ~link /\ (Late \/ (requests = {} /\ verifying = {}))

FairSpec ==
    /\ Spec
    /\ WF_vars(Elapse)
    /\ []<>(toB = <<>> \/ ~BuyerInPeers) \/ []<><<BuyerReceives>>_vars
    /\ []<>(toP = <<>> \/ ~ProviderInPeers) \/ []<><<ProviderReceives>>_vars
    /\ []<>(due = {}) \/ []<><<Ticks>>_vars
    /\ []<>(~CanFund /\ verifying = {}) \/ []<><<HostStep>>_vars
    /\ []<>~CanConnect \/ []<><<Connect>>_vars
=============================================================================
