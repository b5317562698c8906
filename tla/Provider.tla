------------------------------ MODULE Provider ------------------------------
(***************************************************************************)
(* The half of tollgate-core's Sessions in which peers pay this node       *)
(* (session/core.rs and session/state.rs), with the parts of its host that *)
(* feed it events and carry out its actions: the node's event loop         *)
(* (tollgate-net/src/node.rs) and its budget file (budgets.rs).            *)
(*                                                                         *)
(* The event loop handles one event at a time and carries out every action *)
(* core answers with before it takes the next, so each handler is one      *)
(* atomic step.  What interleaves is everything outside the loop: the      *)
(* peers' messages, connections coming and going, fundings verified on     *)
(* another thread, the clock, and the node's own crash.                    *)
(*                                                                         *)
(* A peer is in `peers` or in `parked`, never in both: every insertion in  *)
(* one follows a removal from the other.  So there is one session record   *)
(* per payer, and `place` says where it is.  Of the phases only Closing is *)
(* read by this half, and `closing` stands for it.  The buying half is     *)
(* seen through the two places where it reaches this one: the peer's       *)
(* opening Offer and the host's answer to a funding request.               *)
(***************************************************************************)
EXTENDS Grant, Sums

CONSTANTS
    Payers,
    Owner,          \* the payer that funds each channel
    LEAD,           \* NodePolicy.settle_lead_ms
    MIN_EXPIRY,     \* shortest expiry the channel backend takes on a funding
    STALE,          \* NodePolicy.stale_timeout_ms, 0 for none
    Purchases,      \* update sequences payers sign
    Windows, Rates, \* windows and reserved rates they ask for
    MAX_MOVED,      \* units that can move between two readings
    MAX_NOW,        \* bound on the clock
    Buying,         \* whether this node buys from its peers as well
    Overrides,      \* policies the operator may set while the node runs
    MAX_CLOSES,     \* bound on the settlements peers ask for with ChannelClose
                    \* or CloseAck, per channel; 0 if they send neither
    Overlap         \* whether a peer may be back before the end of the
                    \* connection of a session it ended has reached us

ASSUME ProviderAssumption ==
    /\ IsFiniteSet(Payers)
    /\ Owner \in [Channels -> Payers]
    /\ LEAD \in U64 /\ STALE \in U64
    \* A node refuses to start with a TTL under twice its safety margin; the
    \* lead is half of that margin and the shortest expiry half of that TTL.
    /\ MIN_EXPIRY \in U64 /\ 2 * LEAD <= MIN_EXPIRY
    /\ Purchases \subseteq Updates
    /\ Windows \subseteq U64 /\ Rates \subseteq U64
    /\ MAX_MOVED \in U64 /\ MAX_NOW \in U64
    /\ Overrides \subseteq {"charge", "no_charge", "blocked"}
    /\ MAX_CLOSES \in Nat /\ Overlap \in BOOLEAN /\ Buying \in BOOLEAN

VARIABLES
    now,        \* the host's clock
    tickDue,    \* whether the interval timer has a tick to deliver
    sess,       \* the session held for each payer, live or parked
    overrides,  \* Sessions.overrides
    disk,       \* BudgetStore: the budget kept for each payer
    verifying,  \* channels whose funding a worker is verifying
    announced,  \* channels whose funding a payer has sent
    recorded,   \* the total the channel backend holds for each channel
    settled     \* how often each channel was handed to the settler

vars == <<now, tickDue, sess, overrides, disk, verifying, announced, recorded, settled>>

-----------------------------------------------------------------------------
(* Sessions. *)

Policies == {"charge", "no_charge", "blocked"}
Places   == {"none", "peers", "parked"}
Access   == {"None", "Active", "Free"}

Session ==
    [place       : Places,
     closing     : BOOLEAN,            \* phase = Closing
     resumed     : BOOLEAN,            \* resumed, with the peer's Offer still to come
     linked      : BOOLEAN,            \* the host holds a link and the enforcer the peer
     policy      : Policies,
     access      : Access,
     budget_live : BOOLEAN,
     applied     : U64 \cup {None},    \* applied_rate
     grant       : GrantState,
     last_seen   : U64,
     since       : U64]                \* Parked.since

NoSession ==
    [place |-> "none", closing |-> FALSE, resumed |-> FALSE, linked |-> FALSE,
     policy |-> "charge",
     access |-> "None", budget_live |-> FALSE, applied |-> None,
     grant |-> NewGrant, last_seen |-> 0, since |-> 0]

\* PeerSession::new, on a fresh connection.
NewSession(policy, grant) ==
    [NoSession EXCEPT !.place = "peers", !.linked = TRUE, !.policy = policy,
                      !.grant = grant, !.last_seen = now]

\* What a handler leaves behind for one payer: its session, the budget kept
\* for it, and the channels handed to the settler.
Outcome == [s : Session, kept : Budget, settle : SUBSET Channels]

Start(p) == [s |-> sess[p], kept |-> disk[p], settle |-> {}]

\* Only for a peer we charge: one carried free has no budget.
SaveBudget(o) ==
    IF o.s.policy = "no_charge" THEN o
    ELSE [o EXCEPT !.kept = BudgetOf(o.s.grant, now)]

\* Mutant: a settled channel is still recognised.
SettleKeepsOpen(o, cs) == [o EXCEPT !.settle = @ \cup cs]

\* Stop recognising channels and hand them to the settler.
Settle(o, cs) ==
    [o EXCEPT !.s = [o.s EXCEPT !.grant = CloseChannels(@, cs)], !.settle = @ \cup cs]

\* discard: every channel of a session given up for good is settled.
Discard(o) == Settle(o, o.s.grant.open)

\* settle_expiring_in
SettleExpiring(o) == Settle(o, ExpiringChannels(o.s.grant, now, LEAD))

\* refresh: the access level, the shaping rate, and the notice that the
\* budget has run out.
AccessOf(s) ==
    IF s.policy = "no_charge" THEN "Free"
    ELSE IF s.grant.open # {} \/ IsLive(s.grant, now) THEN "Active"
    ELSE "None"

Refresh(o) ==
    LET access == AccessOf(o.s)
        live   == IsLive(o.s.grant, now)
        spent  == o.s.budget_live /\ ~live /\ access # "Free"
        rate   == IF access = "Free" THEN U64_MAX ELSE ShapingRate(o.s.grant, now)
    IN  [o EXCEPT !.s = [o.s EXCEPT !.access = access, !.budget_live = live,
                                  !.applied = rate],
                  !.kept = IF spent THEN NoBudget ELSE @]

\* The session is dropped from `peers` for good.
Gone(o) == [o EXCEPT !.s = NoSession]

\* park: held for the grace period, which is the stale timeout, or let go.
Park(o) ==
    LET ended == SaveBudget([o EXCEPT !.s.grant = EndReservation(@)]) IN
    IF STALE = 0 THEN Gone(Discard(ended))
    ELSE [ended EXCEPT !.s = [@ EXCEPT !.place = "parked", !.linked = FALSE,
                                       !.since = now]]

-----------------------------------------------------------------------------
(* Putting an outcome in place. *)

CountSettled(cs) == [c \in Channels |-> settled[c] + (IF c \in cs THEN 1 ELSE 0)]

Commit(p, o) ==
    /\ sess' = [sess EXCEPT ![p] = o.s]
    /\ disk' = [disk EXCEPT ![p] = o.kept]
    /\ settled' = CountSettled(o.settle)

\* One outcome for every payer.
CommitAll(os) ==
    /\ sess' = [p \in Payers |-> os[p].s]
    /\ disk' = [p \in Payers |-> os[p].kept]
    /\ settled' = CountSettled(UNION {os[p].settle : p \in Payers})

InPeers(p) == sess[p].place = "peers"

\* The session with something just heard from the peer.
Heard(p) == [Start(p) EXCEPT !.s.last_seen = now]

-----------------------------------------------------------------------------
(* Connections. *)

\* The session a new connection starts from: the one kept, if it was not
\* ending and is within its grace, else what the host kept on disk.
Kept(p) ==
    LET s == sess[p] IN
    \/ s.place = "peers" /\ ~s.closing
    \/ s.place = "parked" /\ SatSub(now, s.since) <= STALE

\* Mutant: the channels of a replaced session go with it.
OverUnsettled(p) == IF InPeers(p) THEN SaveBudget(Start(p)) ELSE Start(p)

\* A session that is over: its budget is saved if it was ending, and what the
\* peer paid on it is settled.
Over(p) ==
    LET o == IF InPeers(p) THEN SaveBudget(Start(p)) ELSE Start(p)
    IN  Discard(o)

Resumed(p) ==
    LET s == NewSession(overrides[p], Restart(sess[p].grant, now))
    IN  [Start(p) EXCEPT !.s = [s EXCEPT !.resumed = Buying]]

\* The budget is the one the host read from its store before core was asked.
Fresh(p) ==
    [Over(p) EXCEPT !.s = NewSession(overrides[p], Restore(NewGrant, disk[p], now))]

\* PeerUp: the host reads the budget from its store, then core starts the
\* session.  on_connected ends in a refresh.
PeerUp(p) ==
    LET started == IF Kept(p) THEN SettleExpiring(Resumed(p)) ELSE Fresh(p)
        told    == [started EXCEPT !.s.budget_live =
                        overrides[p] # "no_charge" /\ IsLive(started.s.grant, now)]
    IN  /\ overrides[p] # "blocked"
        /\ InPeers(p) /\ sess[p].closing => Overlap
        /\ Commit(p, Refresh(told))
        /\ UNCHANGED <<now, tickDue, overrides, verifying, announced, recorded>>

\* A peer we refuse entirely: its new connection is dropped at once, and the
\* link it replaced with it.
PeerUpBlocked(p) ==
    /\ overrides[p] = "blocked"
    /\ Commit(p, [Start(p) EXCEPT !.s = [sess[p] EXCEPT !.linked = FALSE]])
    /\ UNCHANGED <<now, tickDue, overrides, verifying, announced, recorded>>

\* PeerDown: an ended session goes, any other is held.
PeerDown(p) ==
    /\ InPeers(p)
    /\ Commit(p, IF sess[p].closing THEN Gone(Discard(SaveBudget(Start(p))))
                 ELSE Park(Start(p)))
    /\ UNCHANGED <<now, tickDue, overrides, verifying, announced, recorded>>

\* on_offer.  The peer may have affirmed the channel we pay it on, if this
\* session resumed one that had it, and then the phase is Established.
Opened(o, affirmed) ==
    Refresh([o EXCEPT !.s = [o.s EXCEPT !.resumed = FALSE, !.closing = @ /\ ~affirmed]])

\* The opening Offer of a session; a later one revises the terms we buy on and
\* is among RecvOther.  How many have come is the buying half's to know: here
\* an Offer that affirms nothing may come at any time.
RecvOffer(p) ==
    /\ InPeers(p)
    /\ \E affirmed \in {FALSE, sess[p].resumed} : Commit(p, Opened(Heard(p), affirmed))
    /\ UNCHANGED <<now, tickDue, overrides, verifying, announced, recorded>>

\* on_outgoing_funded: the host funded a channel for us to pay the peer on.
OutgoingFunded(p) ==
    /\ InPeers(p) /\ Buying
    /\ Commit(p, Refresh(Start(p)))
    /\ UNCHANGED <<now, tickDue, overrides, verifying, announced, recorded>>

\* reject, a Disconnect received, and an Announce of another version or unit:
\* the session ends and its link is dropped.
Ended(o) == [o EXCEPT !.s = [o.s EXCEPT !.closing = TRUE, !.linked = FALSE]]

RecvDisconnect(p) ==
    /\ InPeers(p)
    /\ Commit(p, Ended(Heard(p)))
    /\ UNCHANGED <<now, tickDue, overrides, verifying, announced, recorded>>

-----------------------------------------------------------------------------
(* Fundings.  A payer sends the funding of a channel once: a connection     *)
(* neither repeats nor reorders messages.                                   *)

\* An Accept that carries funding starts the payment stream from nothing.
RecvAccept(p, c) ==
    /\ InPeers(p) /\ Owner[c] = p /\ c \notin announced
    /\ Commit(p, Discard(Heard(p)))
    /\ announced' = announced \cup {c}
    /\ verifying' = verifying \cup {c}
    /\ UNCHANGED <<now, tickDue, overrides, recorded>>

\* An Accept that funds nothing.
RecvEmptyAccept(p) ==
    /\ InPeers(p)
    /\ Commit(p, Refresh(Discard(Heard(p))))
    /\ UNCHANGED <<now, tickDue, overrides, verifying, announced, recorded>>

\* Mutant: the replacement is recognised before its funding has verified.
RolloverTrusted(p, c) ==
    /\ InPeers(p) /\ Owner[c] = p /\ c \notin announced
    /\ Commit(p, [Heard(p) EXCEPT !.s.grant = OpenChannel(@, c)])
    /\ announced' = announced \cup {c}
    /\ verifying' = verifying \cup {c}
    /\ UNCHANGED <<now, tickDue, overrides, recorded>>

RecvRolloverInit(p, c) ==
    /\ InPeers(p) /\ Owner[c] = p /\ c \notin announced
    /\ Commit(p, Heard(p))
    /\ announced' = announced \cup {c}
    /\ verifying' = verifying \cup {c}
    /\ UNCHANGED <<now, tickDue, overrides, recorded>>

\* on_incoming_verified: the channel is recognised and the phase is Established.
Verified(o, c) ==
    Refresh([o EXCEPT !.s = [o.s EXCEPT !.grant = OpenChannel(@, c), !.closing = FALSE]])

\* The worker answers, whatever has become of the session since.  The backend
\* refuses funding whose refund path opens too soon.  A worker's check and the
\* event loop's reading of its answer are taken as one moment of the clock:
\* what passes between them is small beside MIN_EXPIRY.
FundingVerified(p, c) ==
    /\ c \in verifying /\ Owner[c] = p
    /\ ExpiresAt[c] # None => SatAdd(now, MIN_EXPIRY) <= ExpiresAt[c]
    /\ verifying' = verifying \ {c}
    /\ Commit(p, IF InPeers(p) THEN Verified(Start(p), c) ELSE Start(p))
    /\ UNCHANGED <<now, tickDue, overrides, announced, recorded>>

\* Funding that does not verify, or is in a mint we do not list.
FundingRejected(p, c) ==
    /\ c \in verifying /\ Owner[c] = p
    /\ verifying' = verifying \ {c}
    /\ Commit(p, IF InPeers(p) THEN Ended(Start(p)) ELSE Start(p))
    /\ UNCHANGED <<now, tickDue, overrides, announced, recorded>>

-----------------------------------------------------------------------------
(* Purchases. *)

\* Mutant: each payer is admitted as if it were alone.
ReservedByNobody(p) == 0

\* What every other connected payer has reserved.
ReservedElsewhere(p) ==
    SumOver([q \in Payers |-> sess[q].grant.reserved],
            {q \in Payers \ {p} : InPeers(q) /\ ~sess[q].closing})

Available(p) == SatSub(MAX_RATE, ReservedElsewhere(p))

\* topup_checked: the signatures were checked, so the TopUp counts for the gap.
Checked(p) == [Heard(p) EXCEPT !.s.grant = [@ EXCEPT !.last_topup = now]]

\* on_unverified_topup: failures are counted, and a channel with too many in
\* a row is settled at the last state that did verify.
Unverified(o, cs) ==
    LET failed == FailedChannels(o.s.grant, cs)
    IN  Refresh(Settle([o EXCEPT !.s.grant = RecordFailures(@, cs)], failed))

\* Mutant: an honoured purchase is not saved.
BoughtUnsaved(o, us, window, rate) ==
    LET applied == [o EXCEPT !.s.grant = Apply(@, us, window, rate, now)]
        done    == Settle(applied, ExhaustedChannels(applied.s.grant))
    IN  Refresh([done EXCEPT !.s.budget_live = IsLive(done.s.grant, now)])

\* A purchase core honours.
Bought(o, us, window, rate) ==
    LET applied == [o EXCEPT !.s.grant = Apply(@, us, window, rate, now)]
        done    == SaveBudget(Settle(applied, ExhaustedChannels(applied.s.grant)))
    IN  Refresh([done EXCEPT !.s.budget_live = IsLive(done.s.grant, now)])

\* A TopUp whose signatures verified.  The host, then core, refuse one that
\* comes too soon; that changes nothing.
RecvTopUp(p, us, window, rate) ==
    LET checked == Checked(p)
        verdict == Verdict(checked.s.grant, Available(p), us, window, rate)
    IN  /\ InPeers(p)
        /\ \A c \in Named(us) : Owner[c] = p
        /\ ~TooSoon(sess[p].grant, now)
        /\ CASE verdict = "Accept" ->
                  /\ Commit(p, Bought(checked, us, window, rate))
                  /\ recorded' = [c \in Channels |->
                        IF c \in Named(us) THEN TotalOn(us, c) ELSE recorded[c]]
             [] verdict = "GrantInvalid" ->
                  /\ Commit(p, Unverified(checked, NotIncreasing(checked.s.grant, us)))
                  /\ UNCHANGED recorded
             [] OTHER ->
                  /\ Commit(p, Refresh(checked))
                  /\ UNCHANGED recorded
        /\ UNCHANGED <<now, tickDue, overrides, verifying, announced>>

\* A TopUp with a signature the host could not verify, on any channel.
RecvBadSignature(p, c) ==
    /\ InPeers(p)
    /\ ~TooSoon(sess[p].grant, now)
    /\ Commit(p, Unverified(Checked(p), {c}))
    /\ UNCHANGED <<now, tickDue, overrides, verifying, announced, recorded>>

\* ChannelClose and CloseAck hand the channel to the settler, and leave the
\* session as it is.
RecvChannelClose(p, c) ==
    /\ InPeers(p) /\ c \in announced /\ settled[c] < MAX_CLOSES
    /\ Commit(p, [Heard(p) EXCEPT !.settle = {c}])
    /\ UNCHANGED <<now, tickDue, overrides, verifying, announced, recorded>>

\* Any other message: for this half it only shows the peer is there.
RecvOther(p) ==
    /\ InPeers(p) /\ sess[p].last_seen # now
    /\ Commit(p, Heard(p))
    /\ UNCHANGED <<now, tickDue, overrides, verifying, announced, recorded>>

-----------------------------------------------------------------------------
(* The operator, the clock and the process. *)

\* Mutant: access is left as the old policy had it.
SetPolicyUnrefreshed(p, policy) ==
    /\ overrides[p] # policy
    /\ overrides' = [overrides EXCEPT ![p] = policy]
    /\ Commit(p, IF ~InPeers(p) THEN Start(p)
                 ELSE [Start(p) EXCEPT !.s = [sess[p] EXCEPT !.policy = policy]])
    /\ UNCHANGED <<now, tickDue, verifying, announced, recorded>>

SetPeerPolicy(p, policy) ==
    /\ overrides[p] # policy
    /\ overrides' = [overrides EXCEPT ![p] = policy]
    /\ LET o == [Start(p) EXCEPT !.s = [sess[p] EXCEPT !.policy = policy]] IN
       Commit(p, IF ~InPeers(p) THEN Start(p)
                 ELSE IF o.s.closing THEN o ELSE Refresh(o))
    /\ UNCHANGED <<now, tickDue, verifying, announced, recorded>>

\* Time passes; the timer fires before it passes again.
Elapse ==
    /\ now < MAX_NOW /\ ~tickDue
    /\ now' = now + 1
    /\ tickDue' = TRUE
    /\ UNCHANGED <<sess, overrides, disk, verifying, announced, recorded, settled>>

\* on_metered: drawn only while carried and metered.
Metered(o, moved, carried) ==
    Refresh([o EXCEPT !.s.grant =
        IF carried /\ o.s.access = "Active" THEN Draw(@, moved, now) ELSE Pause(@)])

\* Core's tick for a live session.
Ticked(o) ==
    IF STALE > 0 /\ SatSub(now, o.s.last_seen) > STALE
    THEN Park(o)
    ELSE Refresh(SettleExpiring([o EXCEPT !.s.grant = ExpireIfDue(@, now)]))

\* Mutant: a held session's channels are not watched for their expiry.
HeldUnwatched(o) ==
    IF SatSub(now, o.s.since) > STALE THEN Gone(Discard(o)) ELSE o

\* expire_parked, for one held session.
HeldOn(o) ==
    IF SatSub(now, o.s.since) > STALE THEN Gone(Discard(o)) ELSE SettleExpiring(o)

\* on_tick: every meter is read, then core is ticked.
TickOutcome(p, moved, carried) ==
    LET o    == Start(p)
        read == IF o.s.linked THEN Metered(o, moved, carried) ELSE o
        live == IF InPeers(p) THEN Ticked(read) ELSE o
    IN  IF live.s.place = "parked" THEN HeldOn(live) ELSE live

Tick ==
    /\ tickDue
    /\ tickDue' = FALSE
    /\ \E moved \in [Payers -> 0 .. MAX_MOVED], carried \in [Payers -> BOOLEAN] :
         /\ \A p \in Payers : ~(sess[p].linked /\ carried[p]) => moved[p] = 0
         /\ \A p \in Payers : ~sess[p].linked => carried[p]
         /\ CommitAll([p \in Payers |-> TickOutcome(p, moved[p], carried[p])])
    /\ UNCHANGED <<now, overrides, verifying, announced, recorded>>

\* shutdown: every budget is saved and every channel settled, and the process
\* ends.  A new one starts with what is on disk.
Shutdown ==
    /\ CommitAll([p \in Payers |->
            IF sess[p].place = "none" THEN Start(p)
            ELSE Gone(Discard(SaveBudget(Start(p))))])
    /\ verifying' = {}
    /\ UNCHANGED <<now, tickDue, overrides, announced, recorded>>

\* The process dies with nothing said or saved.
Crash ==
    /\ sess' = [p \in Payers |-> NoSession]
    /\ verifying' = {}
    /\ UNCHANGED <<now, tickDue, overrides, disk, announced, recorded, settled>>

-----------------------------------------------------------------------------
Init ==
    /\ now = 0 /\ tickDue = FALSE
    /\ sess = [p \in Payers |-> NoSession]
    /\ overrides = [p \in Payers |-> "charge"]
    /\ disk = [p \in Payers |-> NoBudget]
    /\ verifying = {} /\ announced = {}
    /\ recorded = [c \in Channels |-> 0]
    /\ settled = [c \in Channels |-> 0]

Next ==
    \/ Elapse
    \/ Tick
    \/ Shutdown
    \/ Crash
    \/ \E p \in Payers :
         \/ PeerUp(p)
         \/ PeerUpBlocked(p)
         \/ PeerDown(p)
         \/ RecvDisconnect(p)
         \/ RecvOffer(p)
         \/ OutgoingFunded(p)
         \/ RecvEmptyAccept(p)
         \/ RecvOther(p)
         \/ \E c \in Channels :
              \/ RecvAccept(p, c)
              \/ RecvRolloverInit(p, c)
              \/ FundingVerified(p, c)
              \/ FundingRejected(p, c)
              \/ RecvBadSignature(p, c)
              \/ RecvChannelClose(p, c)
         \/ \E us \in Purchases, w \in Windows, r \in Rates : RecvTopUp(p, us, w, r)
         \/ \E policy \in Overrides : SetPeerPolicy(p, policy)

Spec == Init /\ [][Next]_vars
-----------------------------------------------------------------------------
(* What must hold. *)

\* Every count stays within its width, and no failure count of a channel core
\* still recognises reaches the limit at which it is closed.
TypeOK ==
    /\ now \in U64
    /\ tickDue \in BOOLEAN
    /\ sess \in [Payers -> Session]
    /\ overrides \in [Payers -> Policies]
    /\ disk \in [Payers -> Budget]
    /\ verifying \subseteq Channels
    /\ announced \subseteq Channels
    /\ recorded \in [Channels -> U64]
    /\ settled \in [Channels -> Nat]

\* A budget is never overdrawn, a rate is reserved only against a budget that
\* has something left, and only a live session reserves or draws: take and
\* expire_if_due end the reservation with the budget, park with the session.
BudgetSound ==
    \A p \in Payers : LET g == sess[p].grant IN
        /\ GrantSound(g)
        /\ sess[p].place # "peers" => g.reserved = 0 /\ g.second = None

\* Admission control: the rates reserved by all connected payers together
\* never pass max_rate, whatever the order of their purchases, disconnects
\* and returns (evaluate_topup, reserved_elsewhere).
ReservedFits ==
    SumOver([p \in Payers |-> sess[p].grant.reserved],
            {p \in Payers : sess[p].linked}) <= MAX_RATE

\* The channel backend holds exactly what was granted on each channel core
\* recognises, through parking, resuming and refused purchases, so what is
\* settled is what was paid for (RecordUpdates comes only with an accept).
RecordedIsGranted ==
    \A p \in Payers : \A c \in sess[p].grant.open :
        /\ Owner[c] = p
        /\ sess[p].grant.signed[c] = recorded[c]
        /\ recorded[c] < Capacity[c]

\* No channel is paid on before its funding has verified: one still with the
\* worker is not recognised and nothing is recorded on it, even when the
\* session that asked for the check has since been replaced.
PaidAfterVerified ==
    /\ verifying \subseteq announced
    /\ \A p \in Payers : sess[p].grant.open \subseteq announced \ verifying
    /\ \A c \in Channels : recorded[c] # 0 => c \in announced \ verifying

\* A channel is handed to the settler at most once, and is not one core still
\* takes payment on after that.
SettledOnce ==
    \A c \in Channels :
        /\ settled[c] <= 1
        /\ settled[c] = 1 => \A p \in Payers : c \notin sess[p].grant.open

IsOpen(c) == \E p \in Payers : c \in sess[p].grant.open

\* Nothing a peer paid is lost: a channel core stops recognising is handed to
\* the settler in the same step, however the session ended.  A crash is the
\* exception, since channel state is kept in memory.
ClosedIsSettled ==
    [][Crash \/ \A c \in Channels :
            IsOpen(c) /\ ~IsOpen(c)' => settled'[c] = settled[c] + 1]_vars

\* No channel is still being paid on when its refund path opens, live or held:
\* its funder could take back what it already paid (settle_expiring).
RefundSafe ==
    \A p \in Payers : \A c \in sess[p].grant.open :
        ExpiresAt[c] # None => now < ExpiresAt[c]

\* What a payer could still spend: in its session, or kept for its return.
Held(p) ==
    IF sess[p].place = "none" THEN BudgetAt(disk[p], now).remaining
    ELSE BudgetOf(sess[p].grant, now).remaining

\* What a payer has paid in all.
Paid(p) == SumOver(recorded, {c \in Channels : Owner[c] = p})

\* A budget grows only by what is paid: no order of parking, returning,
\* settling, expiry or restart gives a payer back units it has drawn
\* ("authorized becomes what was left").  Only a crash restores the budget
\* kept at the last purchase, in the payer's favour.
NoFreeBudget ==
    [][Crash \/ \A p \in Payers :
         Held(p)' - Held(p) <= Paid(p)' - Paid(p)]_vars

\* What the reservation still costs for the second being drawn, beyond what
\* has moved in it.
Owing(p) ==
    LET g == sess[p].grant IN
    IF g.second = None THEN 0 ELSE OwedByClose(g.second, now, g.reserved)

\* Everything paid for is carried or kept: a step costs a payer at most what
\* its reservation owes for the second being drawn and, on a tick it is
\* metered in, what moved.  Nothing is forfeit by renewing early, losing the
\* link, coming back, settling channels or a crash; only the deadline ends a
\* budget early (draw, pause, park, restart, restore).
BudgetKept ==
    [][\A p \in Payers :
         \/ now' # now /\ Held(p)' = 0
         \/ LET metered == tickDue /\ ~tickDue' /\ sess[p].linked
                moved   == IF metered THEN MAX_MOVED ELSE 0
            IN  Held(p) + Paid(p)' <= Held(p)' + Paid(p) + Owing(p) + moved]_vars

\* What is kept on disk for a charged payer covers its live budget, so a
\* crash never costs the payer anything (save_budget at every purchase).
DiskCovers ==
    \A p \in Payers : InPeers(p) /\ sess[p].policy # "no_charge" =>
        BudgetAt(disk[p], now).remaining >= Held(p)

\* A connected payer that holds a live budget is never gated, and one that is
\* charged is never shaped so fast that it could move more than its budget in
\* one tick, above the allowance (refresh after every change, shaping_rate).
GateFollowsBudget ==
    \A p \in Payers : InPeers(p) /\ ~sess[p].closing => LET s == sess[p] IN
        /\ IsLive(s.grant, now) => s.access # "None"
        /\ s.access = "Free" <=> s.policy = "no_charge"
        /\ s.access # "Free" =>
              units_in(s.applied, TICK) <=
                  Greatest(Remaining(s.grant), units_in(MINIMUM_FLOW, TICK))
=============================================================================
