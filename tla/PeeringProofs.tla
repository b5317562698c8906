---------------------------- MODULE PeeringProofs ----------------------------
(***************************************************************************)
(* Proofs about Peering, for any channels, policies, widths and bounds on  *)
(* what goes wrong: what is proved of the payer's fundings and signatures, *)
(* and that the two ends implement the account.                            *)
(*                                                                         *)
(* A channel is usable once its funding is neither on its way to the       *)
(* provider nor being checked there, and was not handed back.  Whatever    *)
(* happens, a usable channel stays usable; the provider recognises, the    *)
(* buyer holds and the payer signs only on usable ones.  Since a funding   *)
(* announced is not usable, a channel is recognised at most once with a    *)
(* ratchet of zero, which is what keeps the ratchet at what was credited.  *)
(*                                                                         *)
(* First, what the operators of module Buyer keep: the types of a buyer's  *)
(* fields, the channels it may come to sign on, and, while a funding       *)
(* request is open, that no channel awaits confirmation.                   *)
(***************************************************************************)
EXTENDS Peering, GrantProofs

\* The channels a buyer may come to sign on, those a refusal puts back included.
IdsOf(k) ==
    {ch.id : ch \in {k.active, k.next} \ {None}}
BuyerIds(k) == IdsOf(k) \cup IF k.prior = None THEN {} ELSE IdsOf(k.prior)

\* A buyer with its types, whose open requests are among the first n, and which
\* waits for no confirmation while one is open.
SoundBuyer(k, n) ==
    /\ k \in BuyerState
    /\ k.funding # None =>
          /\ k.funding.first <= k.funding.latest /\ k.funding.latest < n
          /\ k.pending = None

\* h comes after k: it may sign on no further channel, and waits for the same.
Succeeds(k, h) ==
    /\ h \in BuyerState
    /\ BuyerIds(h) \subseteq BuyerIds(k)
    /\ h.funding = k.funding /\ h.pending = k.pending

(* What comes after a sound buyer is sound, and so is what comes after that. *)
LEMMA SucceedsOn ==
    ASSUME NEW k, NEW h, NEW n, SoundBuyer(k, n), Succeeds(k, h)
    PROVE  /\ SoundBuyer(h, n)
           /\ \A j : Succeeds(h, j) => Succeeds(k, j)
BY DEF SoundBuyer, Succeeds

(* A buyer comes after itself. *)
LEMMA SucceedsSelf ==
    ASSUME NEW k \in BuyerState
    PROVE  Succeeds(k, k)
BY DEF Succeeds

(* A buyer whose channels are those of another, or fewer, may sign on no more. *)
LEMMA FewerIds ==
    ASSUME NEW k, NEW h,
           h.active \in {k.active, k.next, None}, h.next \in {k.active, k.next, None},
           h.prior \in {k.prior, None}
    PROVE  BuyerIds(h) \subseteq BuyerIds(k)
BY DEF BuyerIds, IdsOf

(* take leaves a buyer's count within the width, and its channels alone. *)
LEMMA BuyerTakeSound ==
    ASSUME NEW k \in BuyerState, NEW owed \in Nat
    PROVE  /\ Succeeds(k, BuyerTake(k, owed))
           /\ \A h \in {BuyerTake(k, owed)} : h.active = k.active /\ h.next = k.next
                /\ h.second = k.second /\ h.prior = k.prior
<1> DEFINE left == SatSub(k.remaining, owed)
           res  == IF left = 0 THEN 0 ELSE k.reserved
           h    == [k EXCEPT !.remaining = left, !.reserved = res]
<1>1. k.remaining \in U64 /\ k.reserved \in U64
  BY DEF BuyerState
<1>2. left \in U64 /\ res \in U64
  BY <1>1, WidthAssumption DEF SatSub, U64
<1>3. BuyerTake(k, owed) = h
  BY DEF BuyerTake, BuyerState
<1> HIDE DEF left, res
<1>4. h \in BuyerState
  BY <1>2 DEF BuyerState
<1>5. h.active = k.active /\ h.next = k.next /\ h.second = k.second /\ h.prior = k.prior
      /\ h.funding = k.funding /\ h.pending = k.pending
  BY DEF BuyerState
<1>6. BuyerIds(h) \subseteq BuyerIds(k)
  <2> HIDE DEF h
  <2> QED BY <1>5, FewerIds
<1> QED BY <1>3, <1>4, <1>5, <1>6 DEF Succeeds

(* A reading leaves a buyer sound (draw). *)
LEMMA BuyerDrawSound ==
    ASSUME NEW k \in BuyerState, NEW moved \in U64, NEW moment \in U64
    PROVE  Succeeds(k, BuyerDraw(k, moved, moment))
<1>1. CASE moment >= k.deadline
  <2> DEFINE h == [k EXCEPT !.remaining = 0, !.reserved = 0, !.second = None]
  <2>1. BuyerDraw(k, moved, moment) = h
    BY <1>1 DEF BuyerDraw
  <2>2. h \in BuyerState
    BY WidthNat DEF BuyerState
  <2>3. h.active = k.active /\ h.next = k.next /\ h.prior = k.prior
        /\ h.funding = k.funding /\ h.pending = k.pending
    BY DEF BuyerState
  <2> HIDE DEF h
  <2>4. BuyerIds(h) \subseteq BuyerIds(k)
    BY <2>3, FewerIds
  <2> QED BY <2>1, <2>2, <2>3, <2>4 DEF Succeeds
<1>2. CASE ~(moment >= k.deadline)
  <2> DEFINE sec   == IF k.second = None THEN SecondStarting(moment) ELSE k.second
             after == SecondAfterRead(sec, moved, moment)
             owed  == OwedByRead(sec, moved, moment, k.reserved)
             h     == [k EXCEPT !.second = after]
  <2>1. BuyerDraw(k, moved, moment) = BuyerTake(h, owed)
    BY <1>2 DEF BuyerDraw
  <2>2. sec \in Second /\ k.reserved \in U64
    BY StartingType DEF BuyerState
  <2> HIDE DEF sec
  <2>3. after \in Second /\ owed \in Nat
    BY <2>2, ReadType
  <2> HIDE DEF after, owed
  <2>4. h \in BuyerState
    BY <2>3 DEF BuyerState
  <2>5. h.active = k.active /\ h.next = k.next /\ h.prior = k.prior
        /\ h.funding = k.funding /\ h.pending = k.pending
    BY DEF BuyerState
  <2> HIDE DEF h
  <2>6. BuyerIds(h) \subseteq BuyerIds(k)
    BY <2>5, FewerIds
  <2>7. Succeeds(h, BuyerTake(h, owed))
    BY <2>3, <2>4, BuyerTakeSound
  <2> QED BY <2>1, <2>4, <2>5, <2>6, <2>7 DEF Succeeds
<1> QED BY <1>1, <1>2

(* A balance learnt from the provider is within the width (note_balance). *)
LEMMA NoteBalanceSound ==
    ASSUME NEW k \in BuyerState, NEW remaining \in U64, NEW expires_in \in U64,
           NEW moment \in U64
    PROVE  Succeeds(k, NoteBalance(k, remaining, expires_in, moment))
<1> DEFINE until == Greatest(k.deadline, SatAdd(moment, expires_in))
           h     == [k EXCEPT !.remaining = remaining, !.deadline = until]
<1>1. NoteBalance(k, remaining, expires_in, moment) \in {k, h}
  BY DEF NoteBalance
<1>2. until \in U64
  <2>1. k.deadline \in U64 /\ SatAdd(moment, expires_in) \in U64
    BY WidthNat, SaturationType DEF BuyerState
  <2> QED BY <2>1 DEF Greatest
<1> HIDE DEF until
<1>3. h \in BuyerState
  BY <1>2 DEF BuyerState
<1>4. h.active = k.active /\ h.next = k.next /\ h.prior = k.prior
      /\ h.funding = k.funding /\ h.pending = k.pending
  BY DEF BuyerState
<1> HIDE DEF h
<1>5. BuyerIds(h) \subseteq BuyerIds(k)
  BY <1>4, FewerIds
<1>6. Succeeds(k, h)
  BY <1>3, <1>4, <1>5 DEF Succeeds
<1> QED BY <1>1, <1>6, SucceedsSelf

(* An expiring channel gives way to its replacement or is given up *)
(* (retire_expiring).                                              *)
LEMMA RetireExpiringSound ==
    ASSUME NEW k \in BuyerState, NEW moment \in U64
    PROVE  Succeeds(k, RetireExpiring(k, moment))
<1> DEFINE h == [k EXCEPT !.active = k.next, !.next = None, !.prior = None]
           j == [k EXCEPT !.active = None, !.prior = None]
<1>1. RetireExpiring(k, moment) \in {k, h, j}
  BY DEF RetireExpiring
<1>2. h \in BuyerState /\ j \in BuyerState
  BY DEF BuyerState
<1>3. /\ h.active = k.next /\ h.next = None /\ h.prior = None
      /\ h.funding = k.funding /\ h.pending = k.pending
      /\ j.active = None /\ j.next = k.next /\ j.prior = None
      /\ j.funding = k.funding /\ j.pending = k.pending
  BY DEF BuyerState
<1> HIDE DEF h, j
<1>4. BuyerIds(h) \subseteq BuyerIds(k) /\ BuyerIds(j) \subseteq BuyerIds(k)
  BY <1>3, FewerIds
<1>5. Succeeds(k, h) /\ Succeeds(k, j)
  BY <1>2, <1>3, <1>4 DEF Succeeds
<1> QED BY <1>1, <1>5, SucceedsSelf

(* A session that starts over keeps no channel and no request (start_over). *)
LEMMA StartOverSound ==
    ASSUME NEW k \in BuyerState, NEW n
    PROVE  /\ SoundBuyer(StartOver(k), n) /\ BuyerIds(StartOver(k)) = {}
           /\ StartOver(k).funding = None /\ StartOver(k).pending = None
           /\ SoundBuyer(NewBuyer, n) /\ BuyerIds(NewBuyer) = {}
<1> DEFINE h == StartOver(k)
<1>1. k.resumed \in U64
  BY DEF BuyerState
<1>2. NewBuyer \in BuyerState
  BY WidthNat DEF NewBuyer, BuyerState
<1>3. h \in BuyerState
  BY <1>1, WidthNat DEF StartOver, NewBuyer, BuyerState
<1>4. /\ h.active = None /\ h.next = None /\ h.prior = None /\ h.funding = None
      /\ h.pending = None
      /\ NewBuyer.active = None /\ NewBuyer.next = None /\ NewBuyer.prior = None
      /\ NewBuyer.funding = None
  BY DEF StartOver, NewBuyer
<1> HIDE DEF h
<1>5. BuyerIds(h) = {} /\ BuyerIds(NewBuyer) = {}
  BY <1>4 DEF BuyerIds, IdsOf
<1>6. SoundBuyer(h, n) /\ SoundBuyer(NewBuyer, n)
  BY <1>2, <1>3, <1>4 DEF SoundBuyer
<1> QED BY <1>4, <1>5, <1>6 DEF h

(* A new session keeps channels, requests and the count (restart). *)
LEMMA BuyerRestartSound ==
    ASSUME NEW k \in BuyerState
    PROVE  Succeeds(k, BuyerRestart(k))
<1> DEFINE owed   == OwedByClose(k.second, k.second.at, k.reserved)
           closed == IF k.second = None THEN k ELSE BuyerTake(k, owed)
           res    == IF k.started THEN closed.reserved ELSE k.resumed
           h      == [NewBuyer EXCEPT
                       !.resumed = res,
                       !.active = k.active, !.next = k.next, !.pending = k.pending,
                       !.funding = k.funding, !.last_grant = k.last_grant,
                       !.remaining = closed.remaining, !.deadline = k.deadline]
<1>1. BuyerRestart(k) = h
  BY DEF BuyerRestart
<1>2. closed \in BuyerState
  <2>1. CASE k.second = None
    BY <2>1
  <2>2. CASE k.second # None
    <3>1. k.second \in Second /\ k.second.at \in U64 /\ k.reserved \in U64
      BY <2>2 DEF BuyerState, Second
    <3>2. owed \in Nat
      BY <3>1, CloseType
    <3> HIDE DEF owed
    <3>3. BuyerTake(k, owed) \in BuyerState
      BY <3>2, BuyerTakeSound DEF Succeeds
    <3> QED BY <2>2, <3>3
  <2> QED BY <2>1, <2>2
<1> HIDE DEF closed
<1>3. res \in U64 /\ closed.remaining \in U64
  BY <1>2 DEF BuyerState
<1> HIDE DEF res
<1>4. h \in BuyerState
  BY <1>3, WidthNat, ZenonT(30) DEF NewBuyer, BuyerState
<1>5. h.active = k.active /\ h.next = k.next /\ h.prior = None
      /\ h.funding = k.funding /\ h.pending = k.pending
  BY DEF NewBuyer
<1> HIDE DEF h
<1>6. BuyerIds(h) \subseteq BuyerIds(k)
  BY <1>5, FewerIds
<1> QED BY <1>1, <1>4, <1>5, <1>6 DEF Succeeds

(* A channel whose confirmation is no longer waited for (forget_pending). *)
LEMMA ForgetPendingSound ==
    ASSUME NEW k, NEW n, SoundBuyer(k, n)
    PROVE  SoundBuyer(ForgetPending(k), n) /\ BuyerIds(ForgetPending(k)) = BuyerIds(k)
<1> DEFINE h == ForgetPending(k)
<1>1. k \in BuyerState
  BY DEF SoundBuyer
<1>2. h \in BuyerState /\ h.pending = None /\ h.funding = k.funding
      /\ h.active = k.active /\ h.next = k.next /\ h.prior = k.prior
  BY <1>1 DEF ForgetPending, BuyerState
<1> HIDE DEF h
<1>3. BuyerIds(h) = BuyerIds(k)
  BY <1>2 DEF BuyerIds, IdsOf
<1>4. SoundBuyer(h, n)
  BY <1>2 DEF SoundBuyer
<1> QED BY <1>3, <1>4 DEF h

(* A request made while nothing awaits confirmation (funding_requested). *)
LEMMA FundingRequestedSound ==
    ASSUME NEW k, NEW n \in Nat, SoundBuyer(k, n), k.pending = None, NEW moment \in U64
    PROVE  /\ SoundBuyer(FundingRequested(k, n, moment), n + 1)
           /\ BuyerIds(FundingRequested(k, n, moment)) = BuyerIds(k)
           /\ FundingRequested(k, n, moment).active = k.active
<1> DEFINE req == [first |-> IF k.funding = None THEN n ELSE k.funding.first,
                   latest |-> n, since |-> moment]
           h   == [k EXCEPT !.funding = req]
<1>1. k \in BuyerState
  BY DEF SoundBuyer
<1>2. FundingRequested(k, n, moment) = h
  BY DEF FundingRequested
<1>3. req \in FundingRequests /\ req.first <= req.latest /\ req.latest = n
  BY <1>1 DEF SoundBuyer, FundingRequests, BuyerState
<1> HIDE DEF req
<1>4. h \in BuyerState /\ h.funding = req /\ h.pending = None
      /\ h.active = k.active /\ h.next = k.next /\ h.prior = k.prior
  BY <1>1, <1>3 DEF BuyerState
<1> HIDE DEF h
<1>5. BuyerIds(h) = BuyerIds(k)
  BY <1>4 DEF BuyerIds, IdsOf
<1>6. SoundBuyer(h, n + 1)
  BY <1>3, <1>4 DEF SoundBuyer
<1> QED BY <1>2, <1>4, <1>5, <1>6

(* A request that failed is open still, but not waited on (funding_failed). *)
LEMMA FundingFailedSound ==
    ASSUME NEW k, NEW n, SoundBuyer(k, n), NEW request
    PROVE  /\ SoundBuyer(FundingFailed(k, request), n)
           /\ BuyerIds(FundingFailed(k, request)) = BuyerIds(k)
<1>1. k \in BuyerState
  BY DEF SoundBuyer
<1>2. CASE k.funding # None
  <2> DEFINE req == [k.funding EXCEPT !.since = None]
             h   == [k EXCEPT !.funding = req]
  <2>1. FundingFailed(k, request) \in {k, h}
    BY <1>1 DEF FundingFailed, BuyerState
  <2>2. k.funding \in FundingRequests
    BY <1>1, <1>2 DEF BuyerState
  <2>3. req \in FundingRequests /\ req.first = k.funding.first
        /\ req.latest = k.funding.latest
    BY <2>2 DEF FundingRequests
  <2> HIDE DEF req
  <2>4. h \in BuyerState /\ h.funding = req /\ h.pending = k.pending
        /\ h.active = k.active /\ h.next = k.next /\ h.prior = k.prior
    BY <1>1, <2>3 DEF BuyerState
  <2> HIDE DEF h
  <2>5. BuyerIds(h) = BuyerIds(k)
    BY <2>4 DEF BuyerIds, IdsOf
  <2>6. SoundBuyer(h, n)
    BY <1>2, <2>3, <2>4 DEF SoundBuyer
  <2> QED BY <2>1, <2>5, <2>6
<1>3. CASE k.funding = None
  BY <1>3 DEF FundingFailed
<1> QED BY <1>2, <1>3

(* A channel funded closes every request, and is not signed on yet (funded). *)
LEMMA FundedSound ==
    ASSUME NEW k \in BuyerState, NEW c \in Channels, NEW n
    PROVE  SoundBuyer(Funded(k, c), n) /\ BuyerIds(Funded(k, c)) = BuyerIds(k)
<1> DEFINE h == Funded(k, c)
<1>1. NewChannel(c) \in ChannelBuyer
  BY ChannelAssumption, WidthNat DEF NewChannel, ChannelBuyer
<1>2. h \in BuyerState /\ h.funding = None
      /\ h.active = k.active /\ h.next = k.next /\ h.prior = k.prior
  BY <1>1 DEF Funded, BuyerState
<1> HIDE DEF h
<1>3. BuyerIds(h) = BuyerIds(k)
  BY <1>2 DEF BuyerIds, IdsOf
<1>4. SoundBuyer(h, n)
  BY <1>2 DEF SoundBuyer
<1> QED BY <1>3, <1>4 DEF h

(* A confirmation adds the channel it names, and no other (confirmed). *)
LEMMA ConfirmedSound ==
    ASSUME NEW k, NEW n, SoundBuyer(k, n), NEW c \in Channels
    PROVE  /\ SoundBuyer(Confirmed(k, c), n)
           /\ BuyerIds(Confirmed(k, c)) \subseteq BuyerIds(k) \cup {c}
<1>1. k \in BuyerState
  BY DEF SoundBuyer
<1>2. CASE k.pending = None
  BY <1>2 DEF Confirmed
<1>3. CASE k.pending # None
  <2> DEFINE ch == [k.pending EXCEPT !.id = c]
             h  == [k EXCEPT !.pending = None, !.active = ch]
             j  == [k EXCEPT !.pending = None, !.next = ch]
  <2>1. Confirmed(k, c) \in {h, j}
    BY <1>3 DEF Confirmed
  <2>2. ch \in ChannelBuyer /\ ch.id = c
    BY <1>1, <1>3 DEF BuyerState, ChannelBuyer
  <2> HIDE DEF ch
  <2>3. /\ h \in BuyerState /\ h.funding = k.funding /\ h.pending = None
        /\ h.active = ch /\ h.next = k.next /\ h.prior = k.prior
        /\ j \in BuyerState /\ j.funding = k.funding /\ j.pending = None
        /\ j.active = k.active /\ j.next = ch /\ j.prior = k.prior
    BY <1>1, <2>2, ZenonT(30) DEF BuyerState
  <2> HIDE DEF h, j
  <2>4. BuyerIds(h) \subseteq BuyerIds(k) \cup {c} /\ BuyerIds(j) \subseteq BuyerIds(k) \cup {c}
    BY <2>2, <2>3 DEF BuyerIds, IdsOf
  <2>5. SoundBuyer(h, n) /\ SoundBuyer(j, n)
    BY <2>3 DEF SoundBuyer
  <2> QED BY <2>1, <2>4, <2>5
<1> QED BY <1>2, <1>3

(* A buyer given another budget keeps its types. *)
LEMMA WithBudget ==
    ASSUME NEW k \in BuyerState, NEW left \in U64, NEW deadline \in U64,
           NEW reserved \in U64, NEW started \in BOOLEAN, NEW resumed \in U64
    PROVE  [k EXCEPT !.remaining = left, !.deadline = deadline, !.reserved = reserved,
                     !.started = started, !.resumed = resumed] \in BuyerState
BY DEF BuyerState

(* So does one given other channels, to use or to go back to. *)
LEMMA WithChannels ==
    ASSUME NEW k \in BuyerState, NEW prior \in Prior \cup {None},
           NEW active \in ChannelBuyer \cup {None}, NEW next \in ChannelBuyer \cup {None}
    PROVE  [k EXCEPT !.prior = prior, !.active = active, !.next = next] \in BuyerState
BY DEF BuyerState

(* A refusal puts back the channels of before the purchase (record_reject). *)
LEMMA RecordRejectSound ==
    ASSUME NEW k \in BuyerState, NEW refused, NEW reason, NEW rate \in U64,
           NEW moment \in U64, NEW hold \in U64
    PROVE  Succeeds(k, RecordReject(k, refused, reason, rate, moment, hold))
<1> DEFINE cap    == [rate |-> rate, until |-> SatAdd(moment, hold)]
           with   == [k EXCEPT !.capped_at = cap]
           capped == Capped(k, reason, rate, moment, hold)
           p      == k.prior
           left   == SatSub(k.remaining, p.grant)
           h      == [capped EXCEPT
                        !.prior = None, !.active = p.active, !.next = p.next,
                        !.remaining = left, !.deadline = p.deadline,
                        !.reserved = p.reserved, !.started = p.started,
                        !.resumed = p.resumed]
<1>1. SatAdd(moment, hold) \in U64
  BY SaturationType, WidthNat
<1>2. /\ with \in BuyerState /\ with.active = k.active /\ with.next = k.next
      /\ with.prior = k.prior /\ with.funding = k.funding /\ with.pending = k.pending
      /\ with.remaining = k.remaining
  BY <1>1 DEF BuyerState
<1>3. capped \in {k, with}
  BY DEF Capped
<1> HIDE DEF with
<1>4. /\ capped \in BuyerState /\ capped.active = k.active /\ capped.next = k.next
      /\ capped.prior = k.prior /\ capped.funding = k.funding
      /\ capped.pending = k.pending /\ capped.remaining = k.remaining
  BY <1>2, <1>3
<1> HIDE DEF capped
<1>5. Succeeds(k, capped)
  <2>1. BuyerIds(capped) \subseteq BuyerIds(k)
    BY <1>4, FewerIds
  <2> QED BY <1>4, <2>1 DEF Succeeds
<1>6. ASSUME p # None
      PROVE  Succeeds(k, h)
  <2>1. p \in Prior /\ k.remaining \in U64
    BY <1>6 DEF BuyerState
  <2>2. left \in U64
    BY <2>1, WidthAssumption DEF Prior, SatSub, U64
  <2>3. /\ p.active \in ChannelBuyer \cup {None} /\ p.next \in ChannelBuyer \cup {None}
        /\ p.deadline \in U64 /\ p.reserved \in U64 /\ p.started \in BOOLEAN
        /\ p.resumed \in U64
    BY <2>1 DEF Prior
  <2> HIDE DEF left, p
  <2> DEFINE part == [capped EXCEPT !.prior = None, !.active = p.active, !.next = p.next]
  <2>4. h \in BuyerState
    <3>1. part \in BuyerState
      BY <1>4, <2>3, WithChannels
    <3>2. h = [part EXCEPT !.remaining = left, !.deadline = p.deadline,
                 !.reserved = p.reserved, !.started = p.started, !.resumed = p.resumed]
      OBVIOUS
    <3> HIDE DEF part, h
    <3> QED BY <2>2, <2>3, <3>1, <3>2, WithBudget
  <2>5. h.active = p.active /\ h.next = p.next /\ h.prior = None
        /\ h.funding = k.funding /\ h.pending = k.pending
    BY <1>4 DEF BuyerState
  <2> HIDE DEF h
  <2>6. BuyerIds(h) \subseteq BuyerIds(k)
    BY <1>6, <2>5 DEF BuyerIds, IdsOf, p
  <2> QED BY <2>4, <2>5, <2>6 DEF Succeeds
<1>7. RecordReject(k, refused, reason, rate, moment, hold) = capped
      \/ (p # None /\ RecordReject(k, refused, reason, rate, moment, hold) = h)
  BY <1>4 DEF RecordReject, capped
<1> QED BY <1>5, <1>6, <1>7

-----------------------------------------------------------------------------
(* Purchases. *)

\* A purchase the buyer can make: signed on the channel in use, and on its
\* replacement if on a second one.
SoundPurchase(k, p) ==
    /\ p.legs \in Updates /\ p.window \in U64 /\ p.rate \in U64 /\ p.grant \in U64
    /\ Named(p.legs) \subseteq IdsOf(k)
    /\ k.active # None /\ Len(p.legs) \in {1, 2}
    /\ Len(p.legs) = 2 => k.next # None

(* One or two updates are a TopUp's updates. *)
LEMMA OneOrTwo ==
    ASSUME NEW u \in Update, NEW v \in Update
    PROVE  /\ <<u>> \in Updates /\ Len(<<u>>) = 1 /\ DOMAIN <<u>> = {1} /\ <<u>>[1] = u
           /\ <<u, v>> \in Updates /\ Len(<<u, v>>) = 2 /\ DOMAIN <<u, v>> = {1, 2}
           /\ <<u, v>>[1] = u /\ <<u, v>>[2] = v
<1>1. 1 \in 0 .. MAX_UPDATES /\ 2 \in 0 .. MAX_UPDATES
  BY DEF MAX_UPDATES
<1>2. <<u>> \in [1 .. 1 -> Update] /\ <<u, v>> \in [1 .. 2 -> Update]
  OBVIOUS
<1>3. <<u>> \in Updates /\ <<u, v>> \in Updates
  BY <1>1, <1>2 DEF Updates
<1> QED BY <1>3

(* How a purchase is split over the channels. *)
LEMMA LegsSound ==
    ASSUME NEW k \in BuyerState, k.active # None, NEW wanted \in U64, wanted > 0
    PROVE  LET split == LegsFor(k, wanted) IN
           /\ split.legs \in Updates /\ split.grant \in U64
           /\ Named(split.legs) \subseteq IdsOf(k)
           /\ Len(split.legs) \in {1, 2}
           /\ Len(split.legs) = 2 => k.next # None
<1> DEFINE a     == k.active
           room  == Headroom(a)
           split == LegsFor(k, wanted)
<1>1. /\ a \in ChannelBuyer /\ a.id \in Channels /\ a.capacity \in U64
      /\ a.cumulative \in U64 /\ a.id \in IdsOf(k)
  BY DEF BuyerState, ChannelBuyer, IdsOf
<1>2. room \in U64 /\ (wanted <= room => a.cumulative + wanted \in U64)
  BY <1>1, WidthAssumption DEF Headroom, SatSub, U64
<1>3. CASE wanted <= room
  <2> DEFINE u == [channel |-> a.id, cumulative |-> a.cumulative + wanted]
  <2>1. split.legs = <<u>> /\ split.grant = wanted
    BY <1>3 DEF LegsFor, Leg
  <2>2. u \in Update /\ u.channel = a.id
    BY <1>1, <1>2, <1>3 DEF Update
  <2> HIDE DEF u, split
  <2>3. split.legs \in Updates /\ Len(split.legs) = 1
    BY <2>1, <2>2, OneOrTwo, ZenonT(30)
  <2>4. Named(split.legs) = {a.id}
    BY <2>1, <2>2, OneOrTwo DEF Named
  <2> QED BY <1>1, <2>1, <2>3, <2>4 DEF split
<1>4. CASE ~(wanted <= room) /\ k.next # None
  <2> DEFINE n    == k.next
             over == Least(wanted - room, Headroom(n))
             u    == [channel |-> a.id, cumulative |-> a.capacity]
             v    == [channel |-> n.id, cumulative |-> n.cumulative + over]
  <2>1. split.legs = <<u, v>> /\ split.grant = room + over
    BY <1>4 DEF LegsFor, Leg
  <2>2. /\ n \in ChannelBuyer /\ n.id \in Channels /\ n.capacity \in U64
        /\ n.cumulative \in U64 /\ n.id \in IdsOf(k)
    BY <1>4 DEF BuyerState, ChannelBuyer, IdsOf
  <2>3. n.cumulative + over \in U64 /\ room + over \in U64
    BY <1>2, <1>4, <2>2, WidthAssumption DEF Headroom, SatSub, Least, U64
  <2> HIDE DEF over
  <2>4. u \in Update /\ v \in Update /\ u.channel = a.id /\ v.channel = n.id
    BY <1>1, <2>2, <2>3 DEF Update
  <2> HIDE DEF u, v, split
  <2>5. split.legs \in Updates /\ Len(split.legs) = 2
    <3>1. <<u, v>> \in Updates
      BY <2>4, OneOrTwo
    <3> QED BY <2>1, <3>1
  <2>6. Named(split.legs) \subseteq {a.id, n.id}
    BY <2>1, <2>4, OneOrTwo DEF Named
  <2> QED BY <1>1, <1>4, <2>1, <2>2, <2>3, <2>5, <2>6 DEF split
<1>5. CASE ~(wanted <= room) /\ k.next = None
  <2> DEFINE u == [channel |-> a.id, cumulative |-> a.capacity]
  <2>1. split.legs = <<u>> /\ split.grant = room
    BY <1>5 DEF LegsFor, Leg
  <2>2. u \in Update /\ u.channel = a.id
    BY <1>1 DEF Update
  <2> HIDE DEF u, split
  <2>3. split.legs \in Updates /\ Len(split.legs) = 1
    BY <2>1, <2>2, OneOrTwo, ZenonT(30)
  <2>4. Named(split.legs) = {a.id}
    BY <2>1, <2>2, OneOrTwo DEF Named
  <2> QED BY <1>1, <1>2, <2>1, <2>3, <2>4 DEF split
<1> QED BY <1>3, <1>4, <1>5

(* A rate fitted to the terms is within the width (fit_rate). *)
LEMMA FitRateType ==
    ASSUME NEW k \in BuyerState, NEW pol \in BuyerPolicy, NEW rate \in U64, NEW moment \in U64
    PROVE  FitRate(k, pol, rate, moment) \in U64 \cup {None}
<1> DEFINE wanted  == IF pol.reserve THEN Greatest(rate, pol.min_rate) ELSE 0
           bounded == Least(Greatest(wanted, MIN_RESERVED), pol.max_rate)
           cap     == CapOf(k, moment)
           fitted  == IF cap = None THEN bounded ELSE Least(bounded, cap)
<1>1. pol.min_rate \in U64 /\ pol.max_rate \in U64 /\ MIN_RESERVED \in U64
  BY PolicyAssumption DEF BuyerPolicy
<1>2. wanted \in U64
  BY <1>1, WidthNat DEF Greatest
<1> HIDE DEF wanted
<1>3. bounded \in U64
  BY <1>1, <1>2 DEF Greatest, Least
<1> HIDE DEF bounded
<1>4. cap \in U64 \cup {None}
  BY DEF CapOf, BuyerState
<1> HIDE DEF cap
<1>5. fitted \in U64
  BY <1>3, <1>4 DEF Least
<1> HIDE DEF fitted
<1>6. FitRate(k, pol, rate, moment) \in {fitted, None}
  BY DEF FitRate, fitted, cap, bounded, wanted
<1> QED BY <1>5, <1>6

(* The rate asked for with headroom is within the width (reserved_rate). *)
LEMMA ReservedRateType ==
    ASSUME NEW k \in BuyerState, NEW pol \in BuyerPolicy, NEW wanted \in U64, NEW moment \in U64
    PROVE  ReservedRate(k, pol, wanted, moment) \in U64 \cup {None}
<1> DEFINE part == (wanted * pol.headroom_pct) \div 100
           rate == IF pol.reserve THEN Least(part, U64_MAX) ELSE 0
<1>1. pol.headroom_pct \in Nat /\ wanted \in Nat
  BY WidthNat DEF BuyerPolicy
<1>2. wanted * pol.headroom_pct \in Nat
  BY <1>1
<1>3. part \in Nat
  BY <1>2
<1> HIDE DEF part
<1>4. rate \in U64
  BY <1>3, WidthAssumption DEF Least, U64
<1>5. ReservedRate(k, pol, wanted, moment) = FitRate(k, pol, rate, moment)
  BY DEF ReservedRate, part
<1> HIDE DEF rate
<1> QED BY <1>4, <1>5, FitRateType

(* A purchase poll decides on is one the buyer can make. *)
LEMMA PollSound ==
    ASSUME NEW k \in BuyerState, NEW pol \in BuyerPolicy, NEW observed \in U64,
           NEW moment \in U64, Poll(k, pol, observed, moment) # None
    PROVE  SoundPurchase(k, Poll(k, pol, observed, moment))
<1> DEFINE wanted == Greatest(observed, pol.demand)
           resume == IF pol.reserve THEN ResumeRate(k, moment) ELSE 0
           rate   == IF wanted > 0 THEN ReservedRate(k, pol, wanted, moment)
                     ELSE FitRate(k, pol, resume, moment)
           window == ClampWindow(pol.window)
           size   == IF pol.reserve THEN units_in(rate, window) ELSE pol.budget
           lacks  == Greatest(SatSub(size, BuyerRemaining(k, moment)), 1)
           split  == LegsFor(k, lacks)
           p      == [legs |-> split.legs, window |-> window, rate |-> rate,
                      grant |-> split.grant]
<1>1. /\ pol.demand \in U64 /\ pol.window \in U64 /\ pol.budget \in U64
      /\ k.resumed \in U64 /\ k.remaining \in U64
  BY DEF BuyerPolicy, BuyerState
<1>2. wanted \in U64 /\ resume \in U64 /\ BuyerRemaining(k, moment) \in U64
  BY <1>1, WidthNat DEF Greatest, ResumeRate, BuyerRemaining
<1>3. window \in U64
  BY <1>1, PolicyAssumption DEF ClampWindow, Least, Greatest
<1>4. Poll(k, pol, observed, moment) = p /\ k.active # None /\ rate # None
  BY DEF Poll
<1> HIDE DEF wanted, resume, window
<1>5. rate \in U64
  BY <1>2, <1>4, ReservedRateType, FitRateType
<1> HIDE DEF rate
<1>6. size \in U64
  BY <1>1, <1>3, <1>5, UnitsType, WidthNat
<1> HIDE DEF size
<1>7. lacks \in U64 /\ lacks > 0
  BY <1>2, <1>6, WidthAssumption DEF Greatest, SatSub, U64
<1> HIDE DEF lacks
<1>8. /\ split.legs \in Updates /\ split.grant \in U64
      /\ Named(split.legs) \subseteq IdsOf(k)
      /\ Len(split.legs) \in {1, 2}
      /\ Len(split.legs) = 2 => k.next # None
  BY <1>4, <1>7, LegsSound
<1> HIDE DEF split
<1>9. SoundPurchase(k, p)
  BY <1>3, <1>4, <1>5, <1>8 DEF SoundPurchase
<1> QED BY <1>4, <1>9

(* Moving on from a drained channel (retire_exhausted). *)
LEMMA RetireExhaustedSound ==
    ASSUME NEW k \in BuyerState
    PROVE  Succeeds(k, RetireExhausted(k))
<1> DEFINE h == [k EXCEPT !.active = k.next, !.next = None]
<1>1. RetireExhausted(k) \in {k, h}
  BY DEF RetireExhausted
<1>2. h \in BuyerState
  BY DEF BuyerState
<1>3. h.active = k.next /\ h.next = None /\ h.prior = k.prior
      /\ h.funding = k.funding /\ h.pending = k.pending
  BY DEF BuyerState
<1> HIDE DEF h
<1>4. BuyerIds(h) \subseteq BuyerIds(k)
  BY <1>3, FewerIds
<1> QED BY <1>1, <1>2, <1>3, <1>4, SucceedsSelf DEF Succeeds

(* A purchase made is signed for and counted (record). *)
LEMMA RecordSound ==
    ASSUME NEW k \in BuyerState, NEW p, SoundPurchase(k, p), NEW moment \in U64
    PROVE  Succeeds(k, Record(k, p, moment))
<1> DEFINE prior  == [active |-> k.active, next |-> k.next, deadline |-> k.deadline,
                      reserved |-> k.reserved, started |-> k.started,
                      resumed |-> k.resumed, grant |-> p.grant]
           bare   == [k EXCEPT !.second = None]
           owed   == OwedByClose(k.second, moment, k.reserved)
           split  == IF p.rate # k.reserved /\ k.second # None
                     THEN BuyerTake(bare, owed) ELSE k
           active == [split.active EXCEPT !.cumulative = p.legs[1].cumulative]
           next   == IF Len(p.legs) = 2
                     THEN [split.next EXCEPT !.cumulative = p.legs[2].cumulative]
                     ELSE split.next
           total  == SatAdd(BuyerRemaining(split, moment), p.grant)
           until  == Greatest(split.deadline, SatAdd(moment, p.window))
           second == IF split.second = None THEN SecondStarting(moment) ELSE split.second
           h      == [split EXCEPT
                        !.prior = prior, !.active = active, !.next = next,
                        !.remaining = total, !.deadline = until,
                        !.reserved = p.rate, !.started = TRUE, !.resumed = 0,
                        !.last_topup = moment, !.last_grant = p.grant, !.second = second]
<1>1. /\ p.legs \in Updates /\ p.window \in U64 /\ p.rate \in U64 /\ p.grant \in U64
      /\ k.active # None /\ Len(p.legs) \in {1, 2}
      /\ Len(p.legs) = 2 => k.next # None
  BY DEF SoundPurchase
<1>2. prior \in Prior
  BY <1>1 DEF Prior, BuyerState
<1>3. /\ split \in BuyerState /\ split.active = k.active /\ split.next = k.next
      /\ split.funding = k.funding /\ split.pending = k.pending
  <2>1. CASE ~(p.rate # k.reserved /\ k.second # None)
    BY <2>1
  <2>2. CASE p.rate # k.reserved /\ k.second # None
    <3>1. k.second \in Second /\ k.reserved \in U64
      BY <2>2 DEF BuyerState
    <3>2. owed \in Nat
      BY <3>1, CloseType
    <3>3. bare \in BuyerState /\ bare.active = k.active /\ bare.next = k.next
          /\ bare.funding = k.funding /\ bare.pending = k.pending
      BY DEF BuyerState
    <3> HIDE DEF owed, bare
    <3> DEFINE t == BuyerTake(bare, owed)
    <3>4. Succeeds(bare, t) /\ t.active = bare.active /\ t.next = bare.next
      BY <3>2, <3>3, BuyerTakeSound
    <3>5. split = t
      BY <2>2
    <3> HIDE DEF t, split
    <3> QED BY <3>3, <3>4, <3>5 DEF Succeeds
  <2> QED BY <2>1, <2>2
<1> HIDE DEF split
<1>4. p.legs[1].cumulative \in U64 /\ (Len(p.legs) = 2 => p.legs[2].cumulative \in U64)
  <2>1. PICK n \in 0 .. MAX_UPDATES : p.legs \in [1 .. n -> Update]
    BY <1>1 DEF Updates
  <2>2. Len(p.legs) = n
    BY <2>1 DEF MAX_UPDATES
  <2> QED BY <1>1, <2>1, <2>2 DEF Update
<1>5. active \in ChannelBuyer /\ active.id = k.active.id
  BY <1>1, <1>3, <1>4 DEF BuyerState, ChannelBuyer
<1>6. /\ next \in ChannelBuyer \cup {None}
      /\ next # None => k.next # None /\ next.id = k.next.id
  <2>1. CASE Len(p.legs) = 2
    BY <1>1, <1>3, <1>4, <2>1 DEF BuyerState, ChannelBuyer
  <2>2. CASE Len(p.legs) # 2
    BY <1>3, <2>2 DEF BuyerState
  <2> QED BY <2>1, <2>2
<1>7. total \in U64 /\ until \in U64 /\ second \in Second
  <2>1. split.remaining \in U64 /\ split.deadline \in U64 /\ split.second \in Second \cup {None}
    BY <1>3 DEF BuyerState
  <2>2. BuyerRemaining(split, moment) \in U64
    BY <2>1, WidthNat DEF BuyerRemaining
  <2>3. total \in U64 /\ SatAdd(moment, p.window) \in U64
    BY <1>1, <2>2, WidthNat, SaturationType
  <2>4. until \in U64
    BY <2>1, <2>3 DEF Greatest
  <2> QED BY <2>1, <2>3, <2>4, StartingType
<1>8. Recorded(k, p, moment) = h
  BY DEF Recorded, split
<1> DEFINE one == [split EXCEPT !.prior = prior, !.active = active, !.next = next]
           two == [one EXCEPT !.remaining = total, !.deadline = until,
                     !.reserved = p.rate, !.started = TRUE, !.resumed = 0]
<1> HIDE DEF prior, active, next, total, until, second
<1>9. one \in BuyerState
  BY <1>2, <1>3, <1>5, <1>6, WithChannels
<1>10. two \in BuyerState
  <2> HIDE DEF one
  <2> QED BY <1>1, <1>7, <1>9, WithBudget, WidthNat
<1>11. h = [two EXCEPT !.last_topup = moment, !.last_grant = p.grant, !.second = second]
  OBVIOUS
<1>12. /\ h.active = active /\ h.next = next /\ h.prior = prior
       /\ h.funding = k.funding /\ h.pending = k.pending
  BY <1>3 DEF BuyerState
<1> HIDE DEF two, h
<1>13. h \in BuyerState
  BY <1>1, <1>7, <1>10, <1>11 DEF BuyerState
<1>14. BuyerIds(h) \subseteq BuyerIds(k)
  <2>1. prior.active = k.active /\ prior.next = k.next
    BY DEF prior
  <2> QED BY <1>1, <1>5, <1>6, <1>12, <2>1 DEF BuyerIds, IdsOf
<1>15. Succeeds(k, h)
  BY <1>12, <1>13, <1>14 DEF Succeeds
<1>16. Succeeds(h, RetireExhausted(h))
  BY <1>13, RetireExhaustedSound
<1> QED BY <1>8, <1>15, <1>16 DEF Record, Succeeds

-----------------------------------------------------------------------------
(* The two ends *)

\* What travels to the provider, and to the buyer.
Reasons ==
    {"TooSoon", "FundingInvalid", "GrantInvalid", "GrantExceedsChannel", "OutOfRange",
     "RateExceedsCapacity", "None", "Accept"}
ToProvider ==
    [type : {"Accept"}, funding : Channels \cup {None}]
      \cup [type : {"RolloverInit"}, funding : Channels]
      \cup [type : {"TopUp"}, updates : Updates, window : U64, rate : U64]
ToBuyer ==
    [type : {"Offer"}, charge : BOOLEAN]
      \cup [type : {"ChannelReady", "RolloverReady"}, channel : Channels]
      \cup [type : {"TopUpReject"}, refused : Updates, reason : Reasons, rate : U64]
      \cup [type : {"Balance"}, remaining : U64, expires_in : U64]

\* The funding a message announces, if any.
FundingIn(m) ==
    IF m.type \in {"Accept", "RolloverInit"} THEN {m.funding} \ {None} ELSE {}

\* Channels whose funding has arrived, or was lost, and was not handed back.
Usable ==
    {c \in funded \ (reclaimed \cup verifying) :
        \A i \in DOMAIN toP : c \notin FundingIn(toP[i])}

\* The channel a message to the buyer names, and the totals one to the provider
\* carries.
NamedIn(m) == IF m.type \in {"ChannelReady", "RolloverReady"} THEN {m.channel} ELSE {}
CoveredBy(m, totals) ==
    m.type = "TopUp" =>
        \A k \in DOMAIN m.updates : m.updates[k].cumulative <= totals[m.updates[k].channel]

Typed ==
    /\ TypeOK
    /\ next_request \in Nat /\ \A r \in requests : r.id \in Nat
    /\ SoundBuyer(b, next_request)
    /\ g \in GrantState /\ GrantSound(g)
    /\ toP \in Seq(ToProvider) /\ toB \in Seq(ToBuyer)

\* Fundings are announced once, of channels nobody has used.
Announced ==
    /\ verifying \cap reclaimed = {}
    /\ \A i \in DOMAIN toP : FundingIn(toP[i]) \subseteq funded \ (reclaimed \cup verifying)
    /\ \A i, j \in DOMAIN toP : i # j => FundingIn(toP[i]) \cap FundingIn(toP[j]) = {}

\* Only usable channels are held, confirmed, recognised or signed on.
UsableOnly ==
    /\ BuyerIds(b) \subseteq Usable
    /\ \A i \in DOMAIN toB : NamedIn(toB[i]) \subseteq Usable
    /\ g.open \subseteq Usable
    /\ \A c \in Channels : signedOn[c] > 0 => c \in Usable

\* The backend records no more than was signed, purchases under way included,
\* and the grant's ratchet is what is recorded.
Backed ==
    /\ \A c \in Channels : recorded[c] <= signedOn[c]
    /\ \A c \in g.open : g.signed[c] = recorded[c]
    /\ \A i \in DOMAIN toP : CoveredBy(toP[i], signedOn)

PeeringInv == Typed /\ Announced /\ UsableOnly /\ Backed

\* A step of the account, or one that it does not see.
AccountStep == [Acct!Next]_(Acct!vars)

-----------------------------------------------------------------------------
(* Queues and messages. *)

(* A message put at the end of a queue. *)
LEMMA Enqueued ==
    ASSUME NEW S, NEW q \in Seq(S), NEW m \in S, NEW r, r = q \o <<m>>
    PROVE  /\ r \in Seq(S)
           /\ \A i \in DOMAIN q : i \in DOMAIN r /\ r[i] = q[i]
           /\ \A i \in DOMAIN r : i \in DOMAIN q \/ (i = Len(q) + 1 /\ r[i] = m)
OBVIOUS

(* The message at the head of a queue taken off it. *)
LEMMA Dequeued ==
    ASSUME NEW S, NEW q \in Seq(S), q # <<>>, NEW r, r = Tail(q)
    PROVE  /\ r \in Seq(S) /\ Head(q) \in S /\ 1 \in DOMAIN q /\ q[1] = Head(q)
           /\ \A i \in DOMAIN r : i \in Nat /\ i >= 1 /\ i + 1 \in DOMAIN q /\ r[i] = q[i + 1]
OBVIOUS

(* What leaves of at most one message is that or nothing. *)
LEMMA LeftOfOne ==
    ASSUME NEW msgs, NEW left, msgs = <<>> \/ \E m : msgs = <<m>>,
           left \in {msgs} \cup {RemoveAt(msgs, i) : i \in DOMAIN msgs}
    PROVE  left = msgs \/ left = <<>>
<1>1. SUFFICES ASSUME NEW m, msgs = <<m>>, NEW i \in DOMAIN msgs, left = RemoveAt(msgs, i)
               PROVE  left = <<>>
  OBVIOUS
<1>2. i = 1
  BY <1>1
<1>3. RemoveAt(<<m>>, 1) = SubSeq(<<m>>, 1, 0) \o SubSeq(<<m>>, 2, 1)
  BY DEF RemoveAt
<1>4. SubSeq(<<m>>, 1, 0) = <<>> /\ SubSeq(<<m>>, 2, 1) = <<>>
  OBVIOUS
<1> QED BY <1>1, <1>2, <1>3, <1>4

(* What a message to the provider carries, by its type. *)
LEMMA ToProviderFields ==
    ASSUME NEW m \in ToProvider
    PROVE  /\ m.type = "Accept" => m.funding \in Channels \cup {None}
           /\ m.type = "RolloverInit" => m.funding \in Channels
           /\ m.type = "TopUp" => m.updates \in Updates /\ m.window \in U64 /\ m.rate \in U64
           /\ FundingIn(m) \subseteq Channels
           /\ m.type = "TopUp" => FundingIn(m) = {}
<1>1. /\ m.type = "Accept" => m.funding \in Channels \cup {None}
      /\ m.type = "RolloverInit" => m.funding \in Channels
      /\ m.type = "TopUp" => m.updates \in Updates /\ m.window \in U64 /\ m.rate \in U64
  BY DEF ToProvider
<1> QED BY <1>1 DEF FundingIn

(* What a message to the buyer carries, by its type. *)
LEMMA ToBuyerFields ==
    ASSUME NEW m \in ToBuyer
    PROVE  /\ m.type = "Offer" => m.charge \in BOOLEAN
           /\ m.type \in {"ChannelReady", "RolloverReady"} => m.channel \in Channels
           /\ m.type = "TopUpReject" => m.rate \in U64
           /\ m.type = "Balance" => m.remaining \in U64 /\ m.expires_in \in U64
BY DEF ToBuyer

(* A message to the provider that is well formed. *)
LEMMA Messages ==
    /\ Accept(None) \in ToProvider /\ FundingIn(Accept(None)) = {}
    /\ Accept(None).type = "Accept"
    /\ \A c \in Channels :
          /\ Accept(c) \in ToProvider /\ FundingIn(Accept(c)) = {c}
          /\ Accept(c).type = "Accept"
          /\ RolloverInit(c) \in ToProvider /\ FundingIn(RolloverInit(c)) = {c}
          /\ RolloverInit(c).type = "RolloverInit"
<1>1. None \notin Channels
  BY ChannelAssumption
<1>2. Accept(None) \in ToProvider /\ \A c \in Channels :
         Accept(c) \in ToProvider /\ RolloverInit(c) \in ToProvider
  BY DEF Accept, RolloverInit, ToProvider
<1> QED BY <1>1, <1>2 DEF Accept, RolloverInit, FundingIn

-----------------------------------------------------------------------------
(* What is signed. *)

(* The largest of at most three numbers. *)
LEMMA MaxOfFew ==
    ASSUME NEW x \in Nat, NEW y \in Nat, NEW z \in Nat,
           NEW S \in SUBSET {x, y, z}, S # {}
    PROVE  Max(S) \in S /\ \A n \in S : Max(S) >= n
<1>1. \A k \in S : k = x \/ k = y \/ k = z
  OBVIOUS
<1>2. x \in S \/ y \in S \/ z \in S
  BY <1>1
<1>3. \/ x \in S /\ (y \in S => x >= y) /\ (z \in S => x >= z)
      \/ y \in S /\ (x \in S => y >= x) /\ (z \in S => y >= z)
      \/ z \in S /\ (x \in S => z >= x) /\ (y \in S => z >= y)
  BY <1>2
<1>4. \E n \in S : \A k \in S : n >= k
  <2>1. CASE x \in S /\ (y \in S => x >= y) /\ (z \in S => x >= z)
    <3>1. \A k \in S : x >= k  BY <1>1, <2>1
    <3> QED BY <2>1, <3>1
  <2>2. CASE y \in S /\ (x \in S => y >= x) /\ (z \in S => y >= z)
    <3>1. \A k \in S : y >= k  BY <1>1, <2>2
    <3> QED BY <2>2, <3>1
  <2>3. CASE z \in S /\ (x \in S => z >= x) /\ (y \in S => z >= y)
    <3>1. \A k \in S : z >= k  BY <1>1, <2>3
    <3> QED BY <2>3, <3>1
  <2> QED BY <1>3, <2>1, <2>2, <2>3
<1> QED BY <1>4 DEF Max

\* The totals a message has on a channel.
TotalsIn(m, c) ==
    IF m.type = "TopUp" THEN {m.updates[k].cumulative :
                                k \in {k \in DOMAIN m.updates : m.updates[k].channel = c}}
    ELSE {}

(* Signing a message takes each channel to the largest of its totals. *)
LEMMA SignsOne ==
    ASSUME NEW m \in ToProvider, NEW c \in Channels, signedOn \in [Channels -> U64]
    PROVE  /\ Signs(<<m>>)[c] = Max({signedOn[c]} \cup TotalsIn(m, c))
           /\ Signs(<<>>)[c] = Max({signedOn[c]})
<1> DEFINE ups(ms) == UNION {ToSet(n.updates) : n \in {n \in ToSet(ms) : n.type = "TopUp"}}
           tot(ms) == {u.cumulative : u \in {u \in ups(ms) : u.channel = c}}
<1>1. ToSet(<<m>>) = {m} /\ ToSet(<<>>) = {}
  BY DEF ToSet
<1>2. \A ms : Signs(ms)[c] = Max({signedOn[c]} \cup tot(ms))
  BY DEF Signs
<1>3. tot(<<>>) = {}
  BY <1>1
<1>4. tot(<<m>>) = TotalsIn(m, c)
  <2>1. CASE m.type # "TopUp"
    BY <1>1, <2>1 DEF TotalsIn
  <2>2. CASE m.type = "TopUp"
    <3>1. ups(<<m>>) = ToSet(m.updates)
      BY <1>1, <2>2
    <3>2. ToSet(m.updates) = {m.updates[k] : k \in DOMAIN m.updates}
      BY DEF ToSet
    <3> HIDE DEF ups
    <3> QED BY <2>2, <3>1, <3>2 DEF TotalsIn
  <2> QED BY <2>1, <2>2
<1> HIDE DEF tot
<1>5. Signs(<<m>>)[c] = Max({signedOn[c]} \cup TotalsIn(m, c))
  BY <1>2, <1>4
<1>6. Signs(<<>>)[c] = Max({signedOn[c]} \cup {})
  BY <1>2, <1>3
<1> QED BY <1>5, <1>6

(* Signatures only ever grow, cover the message they are for, and are on the *)
(* channels it names.                                                        *)
LEMMA SignsGrow ==
    ASSUME signedOn \in [Channels -> U64], NEW m \in ToProvider
    PROVE  /\ Signs(<<m>>) \in [Channels -> U64]
           /\ \A c \in Channels : signedOn[c] <= Signs(<<m>>)[c]
           /\ CoveredBy(m, Signs(<<m>>))
           /\ \A c \in Channels : Signs(<<m>>)[c] # signedOn[c] =>
                 m.type = "TopUp" /\ c \in Named(m.updates)
           /\ Signs(<<>>) = signedOn
<1> DEFINE new == Signs(<<m>>)
           old == Signs(<<>>)
<1>1. ASSUME NEW c \in Channels
      PROVE  /\ new[c] \in {signedOn[c]} \cup TotalsIn(m, c) /\ new[c] \in U64
             /\ \A n \in {signedOn[c]} \cup TotalsIn(m, c) : new[c] >= n
             /\ old[c] = signedOn[c]
  <2> DEFINE s == signedOn[c]
             T == {s} \cup TotalsIn(m, c)
  <2>1. s \in U64
    OBVIOUS
  <2>2. \E x, y \in U64 : T \in SUBSET {s, x, y} /\ T \subseteq U64
    <3>1. CASE m.type # "TopUp"
      BY <2>1, <3>1 DEF TotalsIn
    <3>2. CASE m.type = "TopUp"
      <4>1. m.updates \in Updates
        BY <3>2, ToProviderFields
      <4>2. PICK n \in 0 .. 2 : m.updates \in [1 .. n -> Update]
        BY <4>1 DEF Updates, MAX_UPDATES
      <4>3. \A k \in DOMAIN m.updates : m.updates[k].cumulative \in U64
        BY <4>2 DEF Update
      <4>4. DOMAIN m.updates \subseteq {1, 2}
        BY <4>2
      <4> DEFINE x == IF 1 \in DOMAIN m.updates THEN m.updates[1].cumulative ELSE s
                 y == IF 2 \in DOMAIN m.updates THEN m.updates[2].cumulative ELSE s
      <4>5. x \in U64 /\ y \in U64
        BY <2>1, <4>3
      <4>6. TotalsIn(m, c) \subseteq {x, y}
        BY <3>2, <4>4 DEF TotalsIn
      <4> HIDE DEF x, y
      <4> QED BY <2>1, <4>5, <4>6
    <3> QED BY <3>1, <3>2
  <2>3. PICK x \in U64, y \in U64 : T \in SUBSET {s, x, y} /\ T \subseteq U64
    BY <2>2
  <2>4. new[c] = Max(T) /\ old[c] = Max({s})
    BY SignsOne
  <2>5. s \in T
    OBVIOUS
  <2> HIDE DEF T, s
  <2>6. s \in Nat /\ x \in Nat /\ y \in Nat /\ T # {}
    BY <2>1, <2>3, <2>5, WidthNat
  <2>7. Max(T) \in T /\ \A n \in T : Max(T) >= n
    BY <2>3, <2>6, MaxOfFew
  <2>8. Max({s}) \in {s}
    <3>1. {s} \in SUBSET {s, x, y} /\ {s} # {}
      OBVIOUS
    <3> QED BY <2>6, <3>1, MaxOfFew
  <2> HIDE DEF new, old
  <2> QED BY <2>3, <2>4, <2>7, <2>8 DEF T, s
<1>2. new = [c \in Channels |-> new[c]] /\ old = [c \in Channels |-> old[c]]
  BY DEF Signs
<1> HIDE DEF new, old
<1>3. new \in [Channels -> U64] /\ old = signedOn
  BY <1>1, <1>2
<1>4. \A c \in Channels : signedOn[c] <= new[c]
  BY <1>1, WidthNat
<1>5. \A c \in Channels : new[c] # signedOn[c] => m.type = "TopUp" /\ c \in Named(m.updates)
  BY <1>1 DEF TotalsIn, Named
<1>6. CoveredBy(m, new)
  <2>1. SUFFICES ASSUME m.type = "TopUp", NEW k \in DOMAIN m.updates
                 PROVE  m.updates[k].cumulative <= new[m.updates[k].channel]
    BY DEF CoveredBy
  <2>2. m.updates \in Updates
    BY <2>1, ToProviderFields
  <2>3. m.updates[k].channel \in Channels /\ m.updates[k].cumulative \in U64
    BY <2>1, <2>2 DEF Updates, Update
  <2>4. m.updates[k].cumulative \in TotalsIn(m, m.updates[k].channel)
    BY <2>1 DEF TotalsIn
  <2>5. new[m.updates[k].channel] >= m.updates[k].cumulative
        /\ new[m.updates[k].channel] \in U64
    BY <1>1, <2>3, <2>4
  <2> QED BY <2>3, <2>5, WidthNat
<1> QED BY <1>3, <1>4, <1>5, <1>6 DEF new, old

-----------------------------------------------------------------------------
(* The account. *)

(* Totals are numbers, and grow with what they are over. *)
LEMMA TotalGrows ==
    ASSUME NEW f \in [Channels -> U64], NEW h \in [Channels -> U64],
           \A c \in Channels : f[c] <= h[c]
    PROVE  TotalOver(f) \in Nat /\ TotalOver(h) \in Nat /\ TotalOver(f) <= TotalOver(h)
<1>1. /\ f \in [Channels -> Nat] /\ h \in [Channels -> Nat] /\ IsFiniteSet(Channels)
      /\ Channels \in SUBSET Channels
  BY WidthNat, ChannelAssumption
<1>2. SumOver(f, Channels) \in Nat /\ SumOver(h, Channels) \in Nat
  BY <1>1, SumType
<1>3. \A c \in Channels : f[c] = 0 \/ (c \in Channels /\ f[c] <= h[c])
  OBVIOUS
<1>4. SumOver(f, Channels) <= SumOver(h, Channels)
  BY <1>1, <1>3, SumMonotone
<1> QED BY <1>2, <1>4 DEF TotalOver

(* What the provider holds and has saved are within the width. *)
LEMMA LeftType ==
    ASSUME Typed
    PROVE  /\ LeftWith \in Nat /\ BudgetAt(kept, now).remaining \in Nat
           /\ now \in U64
<1>1. g \in GrantState /\ kept \in Budget
  BY DEF Typed, TypeOK
<1>2. BudgetOf(g, now) \in Budget /\ BudgetAt(kept, now) \in Budget
  BY <1>1, BudgetType
<1>3. now \in U64
  BY PeeringAssumption, WidthNat DEF Typed, TypeOK, U64
<1> QED BY <1>2, <1>3, WidthNat DEF LeftWith, Budget

(* So they are after a step. *)
LEMMA LeftTypeNext ==
    Typed' => (LeftWith \in Nat /\ BudgetAt(kept, now).remaining \in Nat)'
<1>1. Typed => LeftWith \in Nat /\ BudgetAt(kept, now).remaining \in Nat
  BY LeftType
<1> QED BY <1>1, PTL

(* A step of the payer's: it signs for more, or for nothing. *)
LEMMA SigningStep ==
    ASSUME Typed, signedOn' \in [Channels -> U64],
           \A c \in Channels : signedOn[c] <= signedOn'[c],
           UNCHANGED <<now, ps, g, kept, recorded>>
    PROVE  AccountStep
<1> DEFINE old == TotalOver(signedOn)
           new == TotalOver(signedOn')
<1>1. signedOn \in [Channels -> U64]
  BY DEF Typed, TypeOK
<1>2. old \in Nat /\ new \in Nat /\ old <= new
  <2> DEFINE h == signedOn'
  <2>1. h \in [Channels -> U64] /\ \A c \in Channels : signedOn[c] <= h[c]
    OBVIOUS
  <2> HIDE DEF h
  <2> QED BY <1>1, <2>1, TotalGrows DEF h
<1>3. /\ TotalOver(recorded)' = TotalOver(recorded) /\ LeftWith' = LeftWith
      /\ (BudgetAt(kept, now).remaining)' = BudgetAt(kept, now).remaining
      /\ TotalOver(signedOn)' = new
  BY DEF TotalOver, LeftWith
<1> HIDE DEF new
<1>4. CASE new = old
  BY <1>3, <1>4 DEF AccountStep, Acct!vars
<1>5. CASE new > old
  BY <1>2, <1>3, <1>5 DEF AccountStep, Acct!Next, Acct!Sign
<1> QED BY <1>2, <1>4, <1>5

(* A step by which units are used or forfeit, and may be saved. *)
LEMMA UsingStep ==
    ASSUME Typed, Typed', UNCHANGED <<signedOn, recorded>>, LeftWith' <= LeftWith,
           \/ BudgetAt(kept, now)'.remaining <= BudgetAt(kept, now).remaining
           \/ BudgetAt(kept, now)'.remaining = LeftWith'
    PROVE  AccountStep
<1>1. LeftWith \in Nat /\ BudgetAt(kept, now).remaining \in Nat
  BY LeftType
<1>2. LeftWith' \in Nat /\ (BudgetAt(kept, now).remaining)' \in Nat
  BY LeftTypeNext
<1>3. TotalOver(signedOn)' = TotalOver(signedOn) /\ TotalOver(recorded)' = TotalOver(recorded)
  BY DEF TotalOver
<1> QED BY <1>1, <1>2, <1>3 DEF AccountStep, Acct!Next, Acct!Use, Acct!Saves

(* A step by which a session is lost: what was saved is what is left. *)
LEMMA RecoveringStep ==
    ASSUME Typed, Typed', UNCHANGED <<signedOn, recorded>>,
           LeftWith' <= BudgetAt(kept, now).remaining,
           BudgetAt(kept, now)'.remaining <= BudgetAt(kept, now).remaining
    PROVE  AccountStep
<1>1. LeftWith \in Nat /\ BudgetAt(kept, now).remaining \in Nat
  BY LeftType
<1>2. LeftWith' \in Nat /\ (BudgetAt(kept, now).remaining)' \in Nat
  BY LeftTypeNext
<1>3. TotalOver(signedOn)' = TotalOver(signedOn) /\ TotalOver(recorded)' = TotalOver(recorded)
  BY DEF TotalOver
<1> QED BY <1>1, <1>2, <1>3 DEF AccountStep, Acct!Next, Acct!Recover

-----------------------------------------------------------------------------
(* Fundings announced, and the channels that are usable. *)

\* The provider leaves its queue alone, takes the head of it, or loses it.
TakesHead ==
    \/ toP' = toP /\ verifying' \subseteq verifying
    \/ toP # <<>> /\ toP' = Tail(toP) /\ verifying' \subseteq verifying \cup FundingIn(Head(toP))
    \/ toP' = <<>> /\ verifying' \subseteq verifying

(* A funding taken off the queue is checked, or known of no more. *)
LEMMA TakenKeeps ==
    ASSUME Typed, Announced, UNCHANGED <<funded, reclaimed>>, TakesHead
    PROVE  /\ Announced' /\ Usable \subseteq Usable'
           /\ toP' \in Seq(ToProvider) /\ verifying' \subseteq funded'
           /\ \A i \in DOMAIN toP' : \E j \in DOMAIN toP : toP'[i] = toP[j]
<1>1. toP \in Seq(ToProvider) /\ verifying \subseteq funded
  BY DEF Typed, TypeOK
<1>2. CASE toP' = toP /\ verifying' \subseteq verifying
  BY <1>1, <1>2 DEF Announced, Usable
<1>3. CASE toP' = <<>> /\ verifying' \subseteq verifying
  <2>1. DOMAIN toP' = {} /\ toP' \in Seq(ToProvider)
    BY <1>3
  <2> QED BY <1>1, <1>3, <2>1 DEF Announced, Usable
<1>4. CASE toP # <<>> /\ toP' = Tail(toP) /\ verifying' \subseteq verifying \cup FundingIn(Head(toP))
  <2> DEFINE q == toP
             r == toP'
             F == FundingIn(Head(q))
  <2>1. /\ r \in Seq(ToProvider) /\ 1 \in DOMAIN q /\ q[1] = Head(q)
        /\ \A i \in DOMAIN r : i \in Nat /\ i >= 1 /\ i + 1 \in DOMAIN q /\ r[i] = q[i + 1]
    BY <1>1, <1>4, Dequeued
  <2>2. F \subseteq funded \ (reclaimed \cup verifying)
    BY <2>1 DEF Announced
  <2>3. \A i \in DOMAIN r : FundingIn(r[i]) \cap F = {}
        /\ FundingIn(r[i]) \subseteq funded \ (reclaimed \cup verifying)
    <3>1. \A i \in DOMAIN r : i + 1 # 1
      BY <2>1
    <3> QED BY <2>1, <3>1 DEF Announced
  <2>4. \A i, j \in DOMAIN r : i # j => FundingIn(r[i]) \cap FundingIn(r[j]) = {}
    <3>1. \A i, j \in DOMAIN r : i # j => i + 1 # j + 1
      BY <2>1
    <3> QED BY <2>1, <3>1 DEF Announced
  <2>5. verifying' \subseteq verifying \cup F
    BY <1>4
  <2>6. verifying' \subseteq funded /\ verifying' \cap reclaimed = {}
    BY <1>1, <2>2, <2>5 DEF Announced
  <2>7. Announced'
    BY <2>3, <2>4, <2>5, <2>6 DEF Announced
  <2>8. Usable \subseteq Usable'
    BY <2>1, <2>5 DEF Usable
  <2> QED BY <2>1, <2>6, <2>7, <2>8
<1> QED BY <1>2, <1>3, <1>4 DEF TakesHead

(* A message that announces nothing makes no channel usable or unusable. *)
LEMMA SentKeeps ==
    ASSUME Typed, Announced, UNCHANGED <<funded, reclaimed, verifying>>,
           toP' = toP \/ \E m \in ToProvider : FundingIn(m) = {} /\ toP' = toP \o <<m>>
    PROVE  Announced' /\ Usable \subseteq Usable' /\ toP' \in Seq(ToProvider)
<1>1. toP \in Seq(ToProvider)
  BY DEF Typed
<1>2. CASE toP' = toP
  BY <1>1, <1>2 DEF Announced, Usable
<1>3. ASSUME NEW m \in ToProvider, FundingIn(m) = {}, toP' = toP \o <<m>>
      PROVE  Announced' /\ Usable \subseteq Usable' /\ toP' \in Seq(ToProvider)
  <2> DEFINE q == toP
             r == toP'
  <2>1. /\ r \in Seq(ToProvider)
        /\ \A i \in DOMAIN q : i \in DOMAIN r /\ r[i] = q[i]
        /\ \A i \in DOMAIN r : i \in DOMAIN q \/ (i = Len(q) + 1 /\ r[i] = m)
    BY <1>1, <1>3, Enqueued
  <2>2. \A i \in DOMAIN r : (i \in DOMAIN q /\ r[i] = q[i]) \/ FundingIn(r[i]) = {}
    BY <1>3, <2>1
  <2>3. Announced'
    BY <2>1, <2>2 DEF Announced
  <2>4. Usable \subseteq Usable'
    BY <2>1, <2>2 DEF Usable
  <2> QED BY <2>1, <2>3, <2>4
<1> QED BY <1>2, <1>3

-----------------------------------------------------------------------------
(* What the buyer's handlers commit. *)

\* A message the buyer sends that announces nothing and is signed on usable
\* channels.
SoundOrder(m) ==
    /\ m \in ToProvider /\ FundingIn(m) = {}
    /\ m.type = "TopUp" => Named(m.updates) \subseteq Usable

\* An outcome of the buyer's: a buyer that holds usable channels, at most one
\* request and at most one message.
SoundBuying(o) ==
    /\ BuyerIds(o.b) \subseteq Usable
    /\ \/ o.ask = <<>> /\ SoundBuyer(o.b, next_request)
       \/ (\E n : o.ask = <<n>>) /\ SoundBuyer(o.b, next_request + 1)
    /\ o.msgs = <<>> \/ \E m : o.msgs = <<m>> /\ SoundOrder(m)

\* What is on its way to the buyer stays, is heard, or is lost.
HearsHead == toB' = toB \/ (toB # <<>> /\ toB' = Tail(toB)) \/ toB' = <<>>

(* What is still on its way to the buyer was before. *)
LEMMA HeardKeeps ==
    ASSUME Typed, HearsHead
    PROVE  /\ toB' \in Seq(ToBuyer)
           /\ \A i \in DOMAIN toB' : \E j \in DOMAIN toB : toB'[i] = toB[j]
<1>1. toB \in Seq(ToBuyer)
  BY DEF Typed
<1>2. CASE toB' = toB
  BY <1>1, <1>2
<1>3. CASE toB # <<>> /\ toB' = Tail(toB)
  BY <1>1, <1>3, Dequeued
<1>4. CASE toB' = <<>>
  BY <1>4
<1> QED BY <1>2, <1>3, <1>4 DEF HearsHead

(* Purchases stay covered as more is signed. *)
LEMMA CoveredGrows ==
    ASSUME NEW m \in ToProvider, NEW f \in [Channels -> U64], NEW h \in [Channels -> U64],
           \A c \in Channels : f[c] <= h[c], CoveredBy(m, f)
    PROVE  CoveredBy(m, h)
<1>1. SUFFICES ASSUME m.type = "TopUp", NEW k \in DOMAIN m.updates
               PROVE  m.updates[k].cumulative <= h[m.updates[k].channel]
  BY DEF CoveredBy
<1>2. m.updates \in Updates
  BY <1>1, ToProviderFields
<1>3. m.updates[k].channel \in Channels /\ m.updates[k].cumulative \in Nat
  <2>1. m.updates[k].channel \in Channels /\ m.updates[k].cumulative \in U64
    BY <1>1, <1>2 DEF Updates, Update
  <2> QED BY <2>1, WidthNat
<1>4. /\ m.updates[k].cumulative <= f[m.updates[k].channel]
      /\ f[m.updates[k].channel] <= h[m.updates[k].channel]
      /\ f[m.updates[k].channel] \in Nat /\ h[m.updates[k].channel] \in Nat
  BY <1>1, <1>3, WidthNat DEF CoveredBy
<1> QED BY <1>3, <1>4

(* A sound outcome committed keeps the invariant, and signs for more or for *)
(* nothing.                                                                 *)
LEMMA BuyerCommitKeeps ==
    ASSUME PeeringInv, NEW o, NEW session \in BuyerSession, SoundBuying(o),
           BuyerCommit(o, session), HearsHead, due' \subseteq due
    PROVE  PeeringInv' /\ AccountStep
<1>1. Typed /\ Announced /\ UsableOnly /\ Backed /\ TypeOK
  BY DEF PeeringInv, Typed
<1>2. /\ bs' = session /\ b' = o.b /\ signedOn' = Signs(o.msgs)
      /\ requests' = requests \cup
            {[id |-> next_request + i - 1, capacity |-> o.ask[i]] : i \in DOMAIN o.ask}
      /\ next_request' = next_request + Len(o.ask)
      /\ UNCHANGED <<now, link, policy, funded, reclaimed, ps, charging, g, kept,
                     verifying, recorded>>
  BY DEF BuyerCommit, providerVars
<1>3. PICK left : /\ left \in {o.msgs} \cup {RemoveAt(o.msgs, i) : i \in DOMAIN o.msgs}
                  /\ toP' = Put(toP, left)
  BY DEF BuyerCommit
<1>4. left = o.msgs \/ left = <<>>
  BY <1>3, LeftOfOne DEF SoundBuying
<1>5. toP' \in {toP, toP \o o.msgs}
  <2>1. toP \o <<>> = toP
    BY <1>1 DEF Typed
  <2> QED BY <1>3, <1>4, <2>1 DEF Put
<1>6. /\ signedOn \in [Channels -> U64] /\ recorded \in [Channels -> U64]
      /\ next_request \in Nat /\ toP \in Seq(ToProvider)
  BY <1>1 DEF Typed, TypeOK
<1>7. /\ signedOn' \in [Channels -> U64]
      /\ \A c \in Channels : signedOn[c] <= signedOn'[c]
      /\ \A c \in Channels : signedOn'[c] # signedOn[c] => c \in Usable
      /\ toP' = toP \/ \E m \in ToProvider : /\ FundingIn(m) = {} /\ toP' = toP \o <<m>>
                                             /\ CoveredBy(m, signedOn')
  <2>1. CASE o.msgs = <<>>
    <3>1. Signs(<<>>) = signedOn
      BY <1>6, SignsGrow, Messages
    <3>2. signedOn' = signedOn /\ toP' = toP
      <4>1. toP \o <<>> = toP
        BY <1>6
      <4> QED BY <1>2, <1>5, <2>1, <3>1, <4>1
    <3>3. \A c \in Channels : signedOn[c] \in Nat
      BY <1>6, WidthNat
    <3> QED BY <1>6, <3>2, <3>3
  <2>2. ASSUME NEW m, o.msgs = <<m>>, SoundOrder(m)
        PROVE  <1>7!1 /\ <1>7!2 /\ <1>7!3 /\ <1>7!4
    <3> DEFINE new == Signs(<<m>>)
    <3>1. m \in ToProvider /\ FundingIn(m) = {} /\ signedOn' = new
          /\ (m.type = "TopUp" => Named(m.updates) \subseteq Usable)
      BY <1>2, <2>2 DEF SoundOrder
    <3>2. /\ new \in [Channels -> U64]
          /\ \A c \in Channels : signedOn[c] <= new[c]
          /\ CoveredBy(m, new)
          /\ \A c \in Channels : new[c] # signedOn[c] =>
                m.type = "TopUp" /\ c \in Named(m.updates)
      BY <1>6, <3>1, SignsGrow
    <3> HIDE DEF new
    <3> QED BY <1>5, <2>2, <3>1, <3>2
  <2> QED BY <2>1, <2>2 DEF SoundBuying
<1>8. /\ SoundBuyer(b', next_request') /\ next_request' \in Nat
      /\ \A r \in requests' : r.id \in Nat /\ r.id < next_request'
  <2>0. \A r \in requests : r.id \in Nat /\ r.id < next_request
    BY <1>1 DEF Typed, TypeOK
  <2>1. CASE o.ask = <<>> /\ SoundBuyer(o.b, next_request)
    <3>1. next_request' = next_request /\ requests' = requests
      BY <1>2, <1>6, <2>1
    <3> QED BY <1>2, <1>6, <2>0, <2>1, <3>1
  <2>2. ASSUME NEW n, o.ask = <<n>>, SoundBuyer(o.b, next_request + 1)
        PROVE  <1>8!1 /\ <1>8!2
    <3>1. Len(o.ask) = 1 /\ DOMAIN o.ask = {1}
      BY <2>2
    <3>2. next_request' = next_request + 1
      BY <1>2, <3>1
    <3>3. requests' = requests \cup {[id |-> next_request + 1 - 1, capacity |-> o.ask[1]]}
      BY <1>2, <3>1
    <3>4. \A r \in requests' : r.id \in Nat /\ r.id < next_request'
      BY <1>6, <2>0, <3>2, <3>3
    <3> QED BY <1>2, <1>6, <2>2, <3>2, <3>4
  <2> QED BY <2>1, <2>2 DEF SoundBuying
<1>9. Announced' /\ Usable \subseteq Usable' /\ toP' \in Seq(ToProvider)
  BY <1>1, <1>2, <1>7, SentKeeps
<1>10. /\ toB' \in Seq(ToBuyer)
       /\ \A i \in DOMAIN toB' : \E j \in DOMAIN toB : toB'[i] = toB[j]
  BY <1>1, HeardKeeps
<1>11. Typed'
  <2>1. b' \in BuyerState
    BY <1>8 DEF SoundBuyer
  <2>2. TypeOK'
    <3>1. /\ {b'.active, b'.next, b'.pending} \subseteq ChannelBuyer \cup {None}
          /\ b'.funding # None => b'.funding \in FundingRequests
      BY <2>1 DEF BuyerState
    <3>2. b'.funding # None => b'.funding.first <= b'.funding.latest
      BY <1>8 DEF SoundBuyer
    <3> QED BY <1>1, <1>2, <1>7, <1>8, <3>1, <3>2 DEF TypeOK
  <2> QED BY <1>1, <1>2, <1>8, <1>9, <1>10, <2>2 DEF Typed
<1>12. UsableOnly'
  <2>1. BuyerIds(b') \subseteq Usable'
    BY <1>2, <1>9 DEF SoundBuying
  <2>2. \A i \in DOMAIN toB' : NamedIn(toB'[i]) \subseteq Usable'
    BY <1>1, <1>9, <1>10 DEF UsableOnly
  <2>3. \A c \in Channels : signedOn'[c] > 0 => c \in Usable'
    BY <1>1, <1>7, <1>9 DEF UsableOnly
  <2> QED BY <1>1, <1>2, <1>9, <2>1, <2>2, <2>3 DEF UsableOnly
<1>13. Backed'
  <2>1. \A c \in Channels : recorded'[c] <= signedOn'[c]
    <3>1. \A c \in Channels : recorded[c] <= signedOn[c] /\ signedOn[c] <= signedOn'[c]
      BY <1>1, <1>7 DEF Backed
    <3>2. \A c \in Channels :
             recorded[c] \in Nat /\ signedOn[c] \in Nat /\ signedOn'[c] \in Nat
      BY <1>6, <1>7, WidthNat
    <3> QED BY <1>2, <3>1, <3>2
  <2>2. \A c \in g'.open : g'.signed[c] = recorded'[c]
    BY <1>1, <1>2 DEF Backed
  <2>3. \A i \in DOMAIN toP : toP[i] \in ToProvider /\ CoveredBy(toP[i], signedOn)
    BY <1>1, <1>6 DEF Backed
  <2> DEFINE new == signedOn'
             r   == toP'
  <2>4. \A i \in DOMAIN toP : CoveredBy(toP[i], new)
    <3>1. new \in [Channels -> U64] /\ \A c \in Channels : signedOn[c] <= new[c]
      BY <1>7
    <3> HIDE DEF new
    <3> QED BY <1>6, <2>3, <3>1, CoveredGrows
  <2>5. \A i \in DOMAIN r : CoveredBy(r[i], new)
    <3>1. CASE toP' = toP
      BY <2>4, <3>1
    <3>2. ASSUME NEW m \in ToProvider, r = toP \o <<m>>, CoveredBy(m, new)
          PROVE  \A i \in DOMAIN r : CoveredBy(r[i], new)
      <4> HIDE DEF new, r
      <4>1. /\ \A i \in DOMAIN toP : i \in DOMAIN r /\ r[i] = toP[i]
            /\ \A i \in DOMAIN r : i \in DOMAIN toP \/ (i = Len(toP) + 1 /\ r[i] = m)
        BY <1>6, <3>2, Enqueued
      <4> QED BY <2>4, <3>2, <4>1
    <3> QED BY <1>7, <3>1, <3>2
  <2> QED BY <2>1, <2>2, <2>5 DEF Backed
<1>14. AccountStep
  BY <1>1, <1>2, <1>7, SigningStep
<1> QED BY <1>9, <1>11, <1>12, <1>13, <1>14 DEF PeeringInv

\* An outcome with no request in it.
Unasked(o) ==
    /\ o = [b |-> o.b, msgs |-> o.msgs, ask |-> <<>>]
    /\ SoundBuyer(o.b, next_request) /\ BuyerIds(o.b) \subseteq Usable
    /\ o.msgs = <<>> \/ \E m : o.msgs = <<m>> /\ SoundOrder(m)

(* An outcome that asks for nothing is sound. *)
LEMMA UnaskedSound ==
    ASSUME NEW o, Unasked(o)
    PROVE  SoundBuying(o)
<1>1. o.ask = <<>>
  BY DEF Unasked
<1> QED BY <1>1 DEF Unasked, SoundBuying

(* A handler starts from an outcome with nothing in it but a buyer. *)
LEMMA StartUnasked ==
    ASSUME NEW k, SoundBuyer(k, next_request), BuyerIds(k) \subseteq Usable
    PROVE  /\ Unasked([BuyerStart EXCEPT !.b = k])
           /\ [BuyerStart EXCEPT !.b = k].msgs = <<>>
           /\ [BuyerStart EXCEPT !.b = k].b = k
<1> DEFINE o == [BuyerStart EXCEPT !.b = k]
<1>1. o = [b |-> k, msgs |-> <<>>, ask |-> <<>>]
  BY DEF BuyerStart
<1> HIDE DEF o
<1>2. o.b = k /\ o.msgs = <<>> /\ o = [b |-> o.b, msgs |-> o.msgs, ask |-> <<>>]
  BY <1>1
<1>3. Unasked(o)
  BY <1>2 DEF Unasked
<1> QED BY <1>2, <1>3 DEF o

(* The buyer as it stands is a sound start. *)
LEMMA PlainStart ==
    ASSUME Typed, UsableOnly
    PROVE  Unasked(BuyerStart) /\ BuyerStart.msgs = <<>> /\ BuyerStart.b = b
<1>1. SoundBuyer(b, next_request) /\ BuyerIds(b) \subseteq Usable
  BY DEF Typed, UsableOnly
<1>2. BuyerStart.b = b /\ BuyerStart.msgs = <<>>
      /\ BuyerStart = [b |-> BuyerStart.b, msgs |-> BuyerStart.msgs, ask |-> <<>>]
  BY DEF BuyerStart
<1> QED BY <1>1, <1>2 DEF Unasked

(* What poll_buyer decides on is signed on channels the buyer holds. *)
LEMMA PollBuyerSound ==
    ASSUME Typed, NEW o, Unasked(o), o.msgs = <<>>, NEW session \in BuyerSession
    PROVE  Unasked(PollBuyer(o, session))
<1> DEFINE k == RetireExpiring(o.b, now)
           p == Poll(k, policy, session.demand, now)
           h == Record(k, p, now)
           m == TopUp(p)
           q == [o EXCEPT !.b = k]
           r == [o EXCEPT !.b = h, !.msgs = Append(@, m)]
<1>1. /\ o.b \in BuyerState /\ now \in U64 /\ SoundBuyer(o.b, next_request)
      /\ policy \in BuyerPolicy /\ session.demand \in U64
      /\ BuyerIds(o.b) \subseteq Usable
  BY LeftType, BuyerAssumption DEF Unasked, SoundBuyer, Typed, TypeOK, BuyerSession
<1>2. o = [b |-> o.b, msgs |-> <<>>, ask |-> <<>>]
  BY DEF Unasked
<1>3. PollBuyer(o, session) = o \/ PollBuyer(o, session) = q
      \/ (p # None /\ PollBuyer(o, session) = r)
  BY DEF PollBuyer
<1>4. Succeeds(o.b, k)
  BY <1>1, RetireExpiringSound
<1> HIDE DEF k
<1>5. SoundBuyer(k, next_request) /\ k \in BuyerState /\ BuyerIds(k) \subseteq Usable
  BY <1>1, <1>4, SucceedsOn DEF Succeeds
<1>6. Unasked(q)
  <2>1. q.b = k /\ q.msgs = <<>> /\ q = [b |-> q.b, msgs |-> q.msgs, ask |-> <<>>]
    BY <1>2
  <2> HIDE DEF q
  <2> QED BY <1>5, <2>1 DEF Unasked
<1>7. ASSUME p # None
      PROVE  Unasked(r)
  <2>1. SoundPurchase(k, p)
    BY <1>1, <1>5, <1>7, PollSound
  <2> HIDE DEF p
  <2>2. Succeeds(k, h)
    BY <1>1, <1>5, <2>1, RecordSound
  <2> HIDE DEF h
  <2>3. SoundBuyer(h, next_request) /\ BuyerIds(h) \subseteq Usable
    BY <1>5, <2>2, SucceedsOn DEF Succeeds
  <2>4. SoundOrder(m)
    <3>1. /\ p.legs \in Updates /\ p.window \in U64 /\ p.rate \in U64
          /\ Named(p.legs) \subseteq IdsOf(k)
      BY <2>1 DEF SoundPurchase
    <3>2. m \in ToProvider /\ m.type = "TopUp" /\ m.updates = p.legs
      BY <3>1 DEF TopUp, ToProvider
    <3> HIDE DEF m
    <3>3. FundingIn(m) = {}
      BY <3>2, ToProviderFields
    <3>4. IdsOf(k) \subseteq Usable
      BY <1>5 DEF BuyerIds
    <3> QED BY <3>1, <3>2, <3>3, <3>4 DEF SoundOrder
  <2> HIDE DEF m
  <2>5. r.b = h /\ r.msgs = <<m>> /\ r = [b |-> r.b, msgs |-> r.msgs, ask |-> <<>>]
    <3>1. Append(<<>>, m) = <<m>> /\ o.msgs = <<>> /\ o.ask = <<>>
      BY <1>2
    <3>2. r = [o EXCEPT !.b = h, !.msgs = Append(@, m)]
      OBVIOUS
    <3> HIDE DEF r
    <3>3. o = [b |-> o.b, msgs |-> o.msgs, ask |-> o.ask]
      BY <1>2, <3>1
    <3>4. r = [b |-> h, msgs |-> Append(o.msgs, m), ask |-> o.ask]
      BY <3>2, <3>3
    <3>5. r = [b |-> h, msgs |-> <<m>>, ask |-> <<>>]
      BY <3>1, <3>4
    <3> QED BY <3>5
  <2> HIDE DEF r
  <2> QED BY <2>3, <2>4, <2>5 DEF Unasked
<1> HIDE DEF p, q, r
<1> QED BY <1>3, <1>6, <1>7

(* A request made while nothing awaits confirmation. *)
LEMMA RequestSound ==
    ASSUME Typed, NEW o, Unasked(o), o.b.pending = None, NEW capacity
    PROVE  /\ SoundBuying(RequestFunding(o, capacity))
           /\ RequestFunding(o, capacity).b.active = o.b.active
<1> DEFINE n == next_request
           h == FundingRequested(o.b, n, now)
           r == RequestFunding(o, capacity)
<1>1. o = [b |-> o.b, msgs |-> o.msgs, ask |-> <<>>] /\ SoundBuyer(o.b, n)
      /\ BuyerIds(o.b) \subseteq Usable
      /\ (o.msgs = <<>> \/ \E m : o.msgs = <<m>> /\ SoundOrder(m))
  BY DEF Unasked
<1>2. n \in Nat /\ now \in U64 /\ Len(o.ask) = 0 /\ n + Len(o.ask) = n
  BY <1>1, LeftType DEF Typed
<1>3. r.b = h /\ r.msgs = o.msgs /\ r.ask = <<capacity>>
  <2>1. Append(<<>>, capacity) = <<capacity>> /\ o.ask = <<>>
    BY <1>1
  <2>2. r = [o EXCEPT !.b = FundingRequested(@, n + Len(o.ask), now),
                      !.ask = Append(@, capacity)]
    BY DEF RequestFunding
  <2>3. r = [b |-> FundingRequested(o.b, n + Len(o.ask), now), msgs |-> o.msgs,
             ask |-> Append(o.ask, capacity)]
    BY <1>1, <2>2
  <2> HIDE DEF r
  <2> QED BY <1>2, <2>1, <2>3
<1> HIDE DEF n, h, r
<1>4. SoundBuyer(h, n + 1) /\ BuyerIds(h) = BuyerIds(o.b) /\ h.active = o.b.active
  BY <1>1, <1>2, FundingRequestedSound DEF h
<1>5. SoundBuying(r)
  BY <1>1, <1>3, <1>4 DEF SoundBuying, n
<1> QED BY <1>3, <1>4, <1>5 DEF r

(* A replacement is asked for only while nothing awaits confirmation. *)
LEMMA PollRolloverSound ==
    ASSUME Typed, NEW o, Unasked(o), NEW session
    PROVE  \/ PollRollover(o, session) = o
           \/ SoundBuying(PollRollover(o, session)) /\ PollRollover(o, session).b.active # None
<1>1. RolloverDue(o.b, now) # "None" => o.b.pending = None /\ o.b.active # None
  BY DEF RolloverDue, NeedsRollover
<1>2. PollRollover(o, session) = o \/ (RolloverDue(o.b, now) # "None" /\ \E capacity :
         PollRollover(o, session) = RequestFunding(o, capacity))
  BY DEF PollRollover
<1> QED BY <1>1, <1>2, RequestSound

(* A first channel is asked for only while there is none of any kind. *)
LEMMA PollOpeningSound ==
    ASSUME Typed, NEW o, NEW session
    PROVE  /\ Unasked(o) => SoundBuying(PollOpening(o, session))
           /\ o.b.active # None => PollOpening(o, session) = o
<1>1. PollOpening(o, session) = o \/ (o.b.pending = None /\ o.b.active = None
         /\ PollOpening(o, session) = RequestFunding(o, FirstCapacity))
  BY DEF PollOpening
<1> QED BY <1>1, RequestSound, UnaskedSound

-----------------------------------------------------------------------------
(* The buyer's actions. *)

(* What the parts of the invariant say of the buyer and its clock. *)
LEMMA BuyerFacts ==
    ASSUME PeeringInv
    PROVE  /\ Typed /\ Announced /\ UsableOnly /\ Backed /\ TypeOK
           /\ b \in BuyerState /\ SoundBuyer(b, next_request) /\ BuyerIds(b) \subseteq Usable
           /\ now \in U64 /\ bs \in BuyerSession /\ policy \in BuyerPolicy
           /\ Usable \subseteq Channels /\ next_request \in Nat
<1>1. Typed /\ Announced /\ UsableOnly /\ Backed /\ TypeOK
  BY DEF PeeringInv, Typed
<1>2. now \in U64
  BY <1>1, LeftType
<1>3. policy \in BuyerPolicy /\ funded \subseteq Channels
  BY <1>1, BuyerAssumption DEF TypeOK
<1> QED BY <1>1, <1>2, <1>3 DEF Typed, TypeOK, UsableOnly, SoundBuyer, Usable

(* The message a buyer hears. *)
LEMMA BuyerHead ==
    ASSUME PeeringInv, NEW type, BuyerHears(type)
    PROVE  /\ Head(toB) \in ToBuyer /\ Head(toB).type = type /\ HearsHead /\ due' \subseteq due
           /\ NamedIn(Head(toB)) \subseteq Usable
<1>1. toB \in Seq(ToBuyer) /\ toB # <<>> /\ toB' = Tail(toB) /\ due' = due
      /\ Head(toB).type = type
  BY BuyerFacts DEF Typed, BuyerHears
<1>2. Head(toB) \in ToBuyer /\ 1 \in DOMAIN toB /\ toB[1] = Head(toB)
  BY <1>1, Dequeued
<1>3. NamedIn(toB[1]) \subseteq Usable
  BY <1>2, BuyerFacts DEF UsableOnly
<1> QED BY <1>1, <1>2, <1>3 DEF HearsHead

(* poll_buyer over a buyer that comes after the one there is. *)
LEMMA SucceedingPoll ==
    ASSUME PeeringInv, NEW k, Succeeds(b, k), NEW session \in BuyerSession
    PROVE  Unasked([BuyerStart EXCEPT !.b = k])
           /\ Unasked(PollBuyer([BuyerStart EXCEPT !.b = k], session))
<1>1. SoundBuyer(k, next_request) /\ BuyerIds(k) \subseteq Usable
  BY BuyerFacts, SucceedsOn DEF Succeeds
<1> QED BY <1>1, BuyerFacts, StartUnasked, PollBuyerSound

(* on_offer. *)
LEMMA RecvOfferKeeps ==
    ASSUME PeeringInv, RecvOffer
    PROVE  PeeringInv' /\ AccountStep
<1> DEFINE charge  == Head(toB).charge
           session == [bs EXCEPT !.offer = IF charge THEN "charge" ELSE "free"]
           over    == [BuyerStart EXCEPT !.b = StartOver(b)]
           kept1   == [BuyerStart EXCEPT !.b = ForgetPending(b)]
           o1      == PollOpening(BuyerStart, session)
           o2      == PollBuyer(kept1, session)
           o3      == RequestFunding(over, FirstCapacity)
           o4      == [over EXCEPT !.msgs = <<Accept(None)>>]
<1>1. BuyerHears("Offer") /\ \E o \in {o1, o2, o3, o4} : BuyerCommit(o, session)
  BY DEF RecvOffer
<1>2. session \in BuyerSession
  BY BuyerFacts DEF BuyerSession
<1>3. HearsHead /\ due' \subseteq due
  BY <1>1, BuyerHead
<1> HIDE DEF session
<1>4. SoundBuying(o1)
  BY BuyerFacts, PlainStart, PollOpeningSound
<1>5. SoundBuying(o2)
  <2>1. SoundBuyer(ForgetPending(b), next_request) /\ BuyerIds(ForgetPending(b)) \subseteq Usable
    BY BuyerFacts, ForgetPendingSound
  <2>2. Unasked(kept1) /\ kept1.msgs = <<>>
    BY <2>1, StartUnasked
  <2> HIDE DEF kept1
  <2> QED BY <1>2, <2>2, BuyerFacts, PollBuyerSound, UnaskedSound
<1>6. /\ SoundBuyer(StartOver(b), next_request) /\ BuyerIds(StartOver(b)) \subseteq Usable
      /\ StartOver(b).pending = None
  BY BuyerFacts, StartOverSound
<1>7. Unasked(over) /\ over.msgs = <<>> /\ over.b = StartOver(b)
  BY <1>6, StartUnasked
<1>8. SoundBuying(o3)
  <2> HIDE DEF over
  <2> QED BY <1>6, <1>7, BuyerFacts, RequestSound
<1>9. SoundBuying(o4)
  <2> DEFINE m == Accept(None)
  <2>1. SoundOrder(m)
    BY Messages DEF SoundOrder
  <2> HIDE DEF over, m
  <2>2. over = [b |-> over.b, msgs |-> over.msgs, ask |-> <<>>]
    BY <1>7 DEF Unasked
  <2>3. o4 = [over EXCEPT !.msgs = <<m>>]
    BY DEF m
  <2> HIDE DEF o4
  <2>4. o4.b = over.b /\ o4.msgs = <<m>> /\ o4.ask = <<>>
    BY <2>2, <2>3
  <2> QED BY <1>6, <1>7, <2>1, <2>4 DEF SoundBuying
<1> HIDE DEF o1, o2, o3, o4
<1>10. PICK o \in {o1, o2, o3, o4} : BuyerCommit(o, session)
  BY <1>1
<1>11. SoundBuying(o)
  BY <1>4, <1>5, <1>8, <1>9
<1> QED BY <1>2, <1>3, <1>10, <1>11, BuyerCommitKeeps

(* A channel confirmed, or still held, and the purchase made on it. *)
LEMMA ConfirmingKeeps ==
    ASSUME PeeringInv, NEW type \in {"ChannelReady", "RolloverReady"}, BuyerHears(type),
           NEW k \in {b, Confirmed(b, Head(toB).channel)}, NEW session \in BuyerSession,
           BuyerCommit(PollBuyer([BuyerStart EXCEPT !.b = k], session), session)
    PROVE  PeeringInv' /\ AccountStep
<1> DEFINE c == Head(toB).channel
           start == [BuyerStart EXCEPT !.b = k]
           o == PollBuyer(start, session)
<1>1. c \in Channels /\ c \in Usable
  BY BuyerHead, BuyerFacts, ToBuyerFields DEF NamedIn
<1> HIDE DEF c
<1>2. SoundBuyer(k, next_request) /\ BuyerIds(k) \subseteq Usable
  <2>1. SoundBuyer(Confirmed(b, c), next_request)
        /\ BuyerIds(Confirmed(b, c)) \subseteq BuyerIds(b) \cup {c}
    BY <1>1, BuyerFacts, ConfirmedSound
  <2> QED BY <1>1, <2>1, BuyerFacts DEF c
<1>3. Unasked(start) /\ start.msgs = <<>>
  BY <1>2, StartUnasked
<1>4. BuyerCommit(o, session)
  OBVIOUS
<1> HIDE DEF start
<1>5. SoundBuying(o)
  BY <1>3, BuyerFacts, PollBuyerSound, UnaskedSound
<1> HIDE DEF o
<1> QED BY <1>4, <1>5, BuyerHead, BuyerCommitKeeps

(* on_channel_ready. *)
LEMMA RecvChannelReadyKeeps ==
    ASSUME PeeringInv, RecvChannelReady
    PROVE  PeeringInv' /\ AccountStep
<1> DEFINE c == Head(toB).channel
           k == IF IsActive(b, c) THEN b ELSE Confirmed(b, c)
           session == [bs EXCEPT !.kept = @ \/ IsActive(k, c)]
<1>1. BuyerHears("ChannelReady")
      /\ BuyerCommit(PollBuyer([BuyerStart EXCEPT !.b = k], session), session)
  BY DEF RecvChannelReady
<1>2. k \in {b, Confirmed(b, Head(toB).channel)}
  OBVIOUS
<1>3. session \in BuyerSession
  <2>1. IsActive(k, c) \in BOOLEAN
    BY DEF IsActive
  <2> HIDE DEF k
  <2> QED BY <2>1, BuyerFacts DEF BuyerSession
<1> HIDE DEF k, session
<1> QED BY <1>1, <1>2, <1>3, ConfirmingKeeps

(* on_rollover_ready. *)
LEMMA RecvRolloverReadyKeeps ==
    ASSUME PeeringInv, RecvRolloverReady
    PROVE  PeeringInv' /\ AccountStep
<1> DEFINE k == Confirmed(b, Head(toB).channel)
<1>1. BuyerHears("RolloverReady") /\ BuyerCommit(PollBuyer([BuyerStart EXCEPT !.b = k], bs), bs)
  BY DEF RecvRolloverReady
<1>2. k \in {b, Confirmed(b, Head(toB).channel)}
  OBVIOUS
<1> HIDE DEF k
<1> QED BY <1>1, <1>2, BuyerFacts, ConfirmingKeeps

(* on_topup_reject. *)
LEMMA RecvTopUpRejectKeeps ==
    ASSUME PeeringInv, RecvTopUpReject
    PROVE  PeeringInv' /\ AccountStep
<1> DEFINE m == Head(toB)
           k == RecordReject(b, m.refused, m.reason, m.rate, now, policy.cap_hold)
           o == PollBuyer([BuyerStart EXCEPT !.b = k], bs)
<1>1. BuyerHears("TopUpReject") /\ BuyerCommit(o, bs)
  BY DEF RecvTopUpReject
<1>2. m.rate \in U64
  BY <1>1, BuyerHead, ToBuyerFields
<1>3. policy.cap_hold \in U64
  BY BuyerFacts DEF BuyerPolicy
<1>4. Succeeds(b, k)
  BY <1>2, <1>3, BuyerFacts, RecordRejectSound
<1> HIDE DEF k
<1>5. SoundBuying(o)
  BY <1>4, BuyerFacts, SucceedingPoll, UnaskedSound
<1> HIDE DEF o
<1> QED BY <1>1, <1>5, BuyerHead, BuyerFacts, BuyerCommitKeeps

(* on_balance. *)
LEMMA RecvBalanceKeeps ==
    ASSUME PeeringInv, RecvBalance
    PROVE  PeeringInv' /\ AccountStep
<1> DEFINE m == Head(toB)
           k == NoteBalance(b, m.remaining, m.expires_in, now)
           o == [BuyerStart EXCEPT !.b = k]
<1>1. BuyerHears("Balance") /\ BuyerCommit(o, bs)
  BY DEF RecvBalance
<1>2. m.remaining \in U64 /\ m.expires_in \in U64
  BY <1>1, BuyerHead, ToBuyerFields
<1>3. Succeeds(b, k)
  BY <1>2, BuyerFacts, NoteBalanceSound
<1> HIDE DEF k
<1>4. SoundBuying(o)
  BY <1>3, BuyerFacts, SucceedingPoll, UnaskedSound
<1> HIDE DEF o
<1> QED BY <1>1, <1>4, BuyerHead, BuyerFacts, BuyerCommitKeeps

(* The buyer's tick. *)
LEMMA BuyerTickKeeps ==
    ASSUME PeeringInv, NEW moved \in U64, BuyerTick(moved)
    PROVE  PeeringInv' /\ AccountStep
<1> DEFINE k  == IF bs.offer = "charge" THEN BuyerDraw(b, moved, now) ELSE b
           o1 == PollBuyer([BuyerStart EXCEPT !.b = k], bs)
           o2 == PollRollover(o1, bs)
           o3 == PollOpening(o2, bs)
<1>1. HearsHead /\ due' \subseteq due /\ (BuyerCommit(o3, bs) \/ BuyerCommit(BuyerStart, bs))
  BY DEF BuyerTick, HearsHead
<1>2. Succeeds(b, k)
  BY BuyerFacts, BuyerDrawSound, SucceedsSelf
<1> HIDE DEF k
<1>3. Unasked(o1)
  BY <1>2, BuyerFacts, SucceedingPoll
<1> HIDE DEF o1
<1>4. o2 = o1 \/ (SoundBuying(o2) /\ o2.b.active # None)
  BY <1>3, BuyerFacts, PollRolloverSound
<1> HIDE DEF o2
<1>5. SoundBuying(o3)
  BY <1>3, <1>4, BuyerFacts, PollOpeningSound
<1>6. SoundBuying(BuyerStart)
  BY BuyerFacts, PlainStart, UnaskedSound
<1> HIDE DEF o3
<1> QED BY <1>1, <1>5, <1>6, BuyerFacts, BuyerCommitKeeps

(* Demand observed. *)
LEMMA DemandObservedKeeps ==
    ASSUME PeeringInv, NEW rate \in Demands, DemandObserved(rate)
    PROVE  PeeringInv' /\ AccountStep
<1> DEFINE session == [bs EXCEPT !.demand = rate]
           o == PollBuyer(BuyerStart, session)
<1>1. HearsHead /\ due' \subseteq due /\ BuyerCommit(o, session)
  BY DEF DemandObserved, HearsHead
<1>2. session \in BuyerSession
  BY BuyerFacts, PeeringAssumption DEF BuyerSession
<1> HIDE DEF session
<1>3. SoundBuying(o)
  BY <1>2, BuyerFacts, PlainStart, PollBuyerSound, UnaskedSound
<1> HIDE DEF o
<1> QED BY <1>1, <1>2, <1>3, BuyerCommitKeeps

-----------------------------------------------------------------------------
(* Steps that sign nothing and announce nothing. *)

\* The payer's side of such a step, and the provider's.
BuyerAside ==
    /\ SoundBuyer(b', next_request) /\ BuyerIds(b') \subseteq Usable
    /\ bs' \in BuyerSession /\ policy' \in BuyerPolicies /\ requests' \subseteq requests
    /\ UNCHANGED <<next_request, funded, reclaimed, signedOn>>
SellerAside ==
    /\ ps' \in {"none", "peers", "parked"} /\ charging' \in BOOLEAN
    /\ kept' \in Budget /\ recorded' \in [Channels -> U64]
    /\ g' \in GrantState /\ GrantSound(g') /\ g'.open \subseteq Usable'
    /\ toB' \in Seq(ToBuyer)
    /\ \A i \in DOMAIN toB' : NamedIn(toB'[i]) \subseteq Usable'
    /\ \A c \in Channels : recorded'[c] <= signedOn[c]
    /\ \A c \in g'.open : g'.signed[c] = recorded'[c]
    /\ TakesHead

(* Such a step keeps the invariant. *)
LEMMA AsideKeeps ==
    ASSUME PeeringInv, BuyerAside, SellerAside,
           now' \in 0 .. MAX_NOW, due' \subseteq {"buyer", "provider"}, link' \in BOOLEAN
    PROVE  PeeringInv'
<1>1. Typed /\ Announced /\ UsableOnly /\ Backed /\ TypeOK
  BY BuyerFacts
<1>2. UNCHANGED <<next_request, funded, reclaimed, signedOn>> /\ TakesHead
  BY DEF BuyerAside, SellerAside
<1>3. /\ Announced' /\ Usable \subseteq Usable'
      /\ toP' \in Seq(ToProvider) /\ verifying' \subseteq funded'
      /\ \A i \in DOMAIN toP' : \E j \in DOMAIN toP : toP'[i] = toP[j]
  BY <1>1, <1>2, TakenKeeps
<1>4. SoundBuyer(b', next_request') /\ BuyerIds(b') \subseteq Usable' /\ b' \in BuyerState
  BY <1>2, <1>3 DEF BuyerAside, SoundBuyer
<1>5. TypeOK'
  <2>1. /\ {b'.active, b'.next, b'.pending} \subseteq ChannelBuyer \cup {None}
        /\ b'.funding # None => b'.funding \in FundingRequests
    BY <1>4 DEF BuyerState
  <2>2. b'.funding # None => b'.funding.first <= b'.funding.latest
    BY <1>4 DEF SoundBuyer
  <2>3. bs' \in BuyerSession /\ policy' \in BuyerPolicies
        /\ \A r \in requests' : r.id < next_request'
    BY <1>1, <1>2 DEF BuyerAside, TypeOK
  <2>4. reclaimed' \subseteq funded' /\ funded' \subseteq Channels
        /\ signedOn' \in [Channels -> U64]
    BY <1>1, <1>2 DEF TypeOK
  <2>5. g'.open \subseteq Channels
    BY DEF SellerAside, GrantState
  <2> QED BY <1>3, <2>1, <2>2, <2>3, <2>4, <2>5 DEF TypeOK, SellerAside
<1>6. Typed'
  <2>1. next_request' \in Nat /\ \A r \in requests' : r.id \in Nat
    BY <1>1, <1>2 DEF Typed, BuyerAside
  <2> QED BY <1>3, <1>4, <1>5, <2>1 DEF Typed, SellerAside
<1>7. UsableOnly'
  <2>1. \A c \in Channels : signedOn'[c] > 0 => c \in Usable'
    BY <1>1, <1>2, <1>3 DEF UsableOnly
  <2> QED BY <1>4, <2>1 DEF UsableOnly, SellerAside
<1>8. Backed'
  <2>1. \A i \in DOMAIN toP' : CoveredBy(toP'[i], signedOn')
    BY <1>1, <1>2, <1>3 DEF Backed
  <2> QED BY <1>2, <2>1 DEF Backed, SellerAside
<1> QED BY <1>3, <1>6, <1>7, <1>8 DEF PeeringInv

(* The payer does nothing. *)
LEMMA BuyerUnmoved ==
    ASSUME PeeringInv, UNCHANGED buyerVars
    PROVE  BuyerAside
<1>1. UNCHANGED <<bs, b, policy, requests, next_request, funded, reclaimed, signedOn>>
  BY DEF buyerVars
<1> QED BY <1>1, BuyerFacts DEF BuyerAside, TypeOK

(* The provider does nothing, but messages may be lost. *)
LEMMA SellerUnmoved ==
    ASSUME PeeringInv, UNCHANGED <<funded, reclaimed, providerVars>>, HearsHead,
           toP' = toP \/ toP' = <<>>
    PROVE  SellerAside
<1>1. UNCHANGED <<ps, charging, g, kept, verifying, recorded>>
  BY DEF providerVars
<1>2. TakesHead
  BY <1>1 DEF TakesHead
<1>3. Typed /\ Announced /\ UsableOnly /\ Backed /\ TypeOK
  BY BuyerFacts
<1>4. Usable \subseteq Usable'
  BY <1>2, <1>3, TakenKeeps
<1>5. /\ toB' \in Seq(ToBuyer)
      /\ \A i \in DOMAIN toB' : \E j \in DOMAIN toB : toB'[i] = toB[j]
  BY <1>3, HeardKeeps
<1>6. \A i \in DOMAIN toB' : NamedIn(toB'[i]) \subseteq Usable'
  BY <1>3, <1>4, <1>5 DEF UsableOnly
<1>7. g' \in GrantState /\ GrantSound(g') /\ g'.open \subseteq Usable'
  BY <1>1, <1>3, <1>4 DEF Typed, UsableOnly
<1>8. /\ ps' \in {"none", "peers", "parked"} /\ charging' \in BOOLEAN
      /\ kept' \in Budget /\ recorded' \in [Channels -> U64]
  BY <1>1, <1>3 DEF TypeOK
<1>9. /\ \A c \in Channels : recorded'[c] <= signedOn[c]
      /\ \A c \in g'.open : g'.signed[c] = recorded'[c]
  BY <1>1, <1>3 DEF Backed
<1> QED BY <1>2, <1>5, <1>6, <1>7, <1>8, <1>9 DEF SellerAside

(* What the account does not see. *)
LEMMA UnseenStep ==
    ASSUME UNCHANGED <<now, signedOn, ps, g, kept, recorded>>
    PROVE  AccountStep
BY DEF AccountStep, Acct!vars, TotalOver, LeftWith

(* A step of the payer's in which it signs nothing. *)
LEMMA BuyerAsideKeeps ==
    ASSUME PeeringInv, BuyerAside, UNCHANGED <<now, due, providerVars>>, HearsHead,
           toP' = toP \/ toP' = <<>>, link' \in BOOLEAN
    PROVE  PeeringInv' /\ AccountStep
<1>1. UNCHANGED <<funded, reclaimed, signedOn>>
  BY DEF BuyerAside
<1>2. SellerAside
  BY <1>1, SellerUnmoved
<1>3. now' \in 0 .. MAX_NOW /\ due' \subseteq {"buyer", "provider"}
  BY BuyerFacts DEF TypeOK
<1>4. PeeringInv'
  BY <1>2, <1>3, AsideKeeps
<1>5. AccountStep
  BY <1>1, UnseenStep DEF providerVars
<1> QED BY <1>4, <1>5

(* A policy set, a funding failed, the buyer's end down, let go or dead. *)
LEMMA BuyerAloneKeeps ==
    ASSUME PeeringInv,
           \/ \E pol \in BuyerPolicies : SetBuyerPolicy(pol)
           \/ \E r \in requests : FundFailed(r)
           \/ BuyerDown \/ BuyerGraceOver \/ BuyerCrash
    PROVE  PeeringInv' /\ AccountStep
<1>1. /\ SoundBuyer(b, next_request) /\ BuyerIds(b) \subseteq Usable /\ b \in BuyerState
      /\ bs \in BuyerSession /\ policy \in BuyerPolicies /\ link \in BOOLEAN
  BY BuyerFacts DEF TypeOK
<1>2. /\ SoundBuyer(NewBuyer, next_request) /\ BuyerIds(NewBuyer) = {}
      /\ NoBuyerSession \in BuyerSession
  BY <1>1, StartOverSound, WidthNat DEF NoBuyerSession, BuyerSession
<1>3. ASSUME NEW pol \in BuyerPolicies, SetBuyerPolicy(pol)
      PROVE  PeeringInv' /\ AccountStep
  <2>1. BuyerAside /\ HearsHead
    BY <1>1, <1>3 DEF SetBuyerPolicy, BuyerAside, HearsHead
  <2> QED BY <1>1, <1>3, <2>1, BuyerAsideKeeps DEF SetBuyerPolicy
<1>4. ASSUME NEW r \in requests, FundFailed(r)
      PROVE  PeeringInv' /\ AccountStep
  <2>1. /\ SoundBuyer(FundingFailed(b, r.id), next_request)
        /\ BuyerIds(FundingFailed(b, r.id)) \subseteq Usable
    BY <1>1, FundingFailedSound
  <2>2. b' = b \/ b' = FundingFailed(b, r.id)
    BY <1>4 DEF FundFailed
  <2>3. SoundBuyer(b', next_request) /\ BuyerIds(b') \subseteq Usable
    BY <1>1, <2>1, <2>2
  <2>4. BuyerAside /\ HearsHead
    BY <1>1, <1>4, <2>3 DEF FundFailed, BuyerAside, HearsHead
  <2> QED BY <1>1, <1>4, <2>4, BuyerAsideKeeps DEF FundFailed
<1>5. CASE BuyerDown
  <2>1. [bs EXCEPT !.phase = "parked"] \in BuyerSession
    BY <1>1 DEF BuyerSession
  <2>2. BuyerAside /\ HearsHead
    BY <1>1, <1>5, <2>1 DEF BuyerDown, BuyerAside, HearsHead
  <2> QED BY <1>1, <1>5, <2>2, BuyerAsideKeeps DEF BuyerDown
<1>6. CASE BuyerGraceOver
  <2>1. BuyerAside /\ HearsHead
    BY <1>1, <1>2, <1>6 DEF BuyerGraceOver, BuyerAside, HearsHead
  <2> QED BY <1>1, <1>6, <2>1, BuyerAsideKeeps DEF BuyerGraceOver
<1>7. CASE BuyerCrash
  <2>1. BuyerAside /\ HearsHead
    BY <1>1, <1>2, <1>7 DEF BuyerCrash, BuyerAside, HearsHead
  <2> QED BY <1>7, <2>1, BuyerAsideKeeps DEF BuyerCrash
<1> QED BY <1>3, <1>4, <1>5, <1>6, <1>7

(* The link cut. *)
LEMMA CutKeeps ==
    ASSUME PeeringInv, Cut
    PROVE  PeeringInv' /\ AccountStep
<1>1. BuyerAside
  BY BuyerUnmoved DEF Cut
<1>2. HearsHead
  BY DEF Cut, HearsHead
<1> QED BY <1>1, <1>2, BuyerAsideKeeps DEF Cut

(* A channel funded: announced once, or handed back. *)
LEMMA FundAnsweredKeeps ==
    ASSUME PeeringInv, NEW r \in requests, NEW c \in Channels, FundAnswered(r, c)
    PROVE  PeeringInv' /\ AccountStep
<1> DEFINE m == IF b.active = None THEN Accept(c) ELSE RolloverInit(c)
           o == [BuyerStart EXCEPT !.b = Funded(b, c), !.msgs = <<m>>]
           taken == BuyerInPeers /\ Answers(b, r.id)
<1>1. /\ Typed /\ Announced /\ UsableOnly /\ Backed /\ TypeOK
      /\ SoundBuyer(b, next_request) /\ BuyerIds(b) \subseteq Usable /\ b \in BuyerState
  BY BuyerFacts
<1>2. /\ c \notin funded /\ funded' = funded \cup {c} /\ requests' = requests \ {r}
      /\ reclaimed' = (IF taken THEN reclaimed ELSE reclaimed \cup {c})
      /\ b' = (IF taken THEN o.b ELSE b)
      /\ IF taken THEN \E left \in {o.msgs, <<>>} : toP' = Put(toP, left) ELSE toP' = toP
      /\ UNCHANGED <<now, due, link, toB, bs, policy, next_request, signedOn,
                     ps, charging, g, kept, verifying, recorded>>
  BY DEF FundAnswered, providerVars
<1>3. o.b = Funded(b, c) /\ o.msgs = <<m>>
  BY DEF BuyerStart
<1>4. m \in ToProvider /\ FundingIn(m) = {c} /\ m.type # "TopUp"
  BY Messages
<1> HIDE DEF m, o
<1>5. toP \in Seq(ToProvider) /\ toP \o <<>> = toP
  BY <1>1 DEF Typed
<1>6. toP' = toP \/ (taken /\ toP' = toP \o <<m>>)
  BY <1>2, <1>3, <1>5 DEF Put
<1>7. SoundBuyer(b', next_request) /\ BuyerIds(b') \subseteq Usable
  BY <1>1, <1>2, <1>3, FundedSound
<1> HIDE DEF taken
<1>8. /\ \A i \in DOMAIN toP : /\ FundingIn(toP[i]) \subseteq funded \ (reclaimed \cup verifying)
                               /\ CoveredBy(toP[i], signedOn)
                               /\ c \notin FundingIn(toP[i])
      /\ \A i, j \in DOMAIN toP : i # j => FundingIn(toP[i]) \cap FundingIn(toP[j]) = {}
      /\ verifying \cap reclaimed = {} /\ verifying \subseteq funded /\ reclaimed \subseteq funded
      /\ funded \subseteq Channels
  BY <1>1, <1>2 DEF Announced, Backed, TypeOK
<1> DEFINE q == toP'
<1>9. /\ q \in Seq(ToProvider)
      /\ \A i \in DOMAIN q : (i \in DOMAIN toP /\ q[i] = toP[i]) \/ (taken /\ i = Len(toP) + 1 /\ q[i] = m)
      /\ \A i \in DOMAIN toP : i \in DOMAIN q /\ q[i] = toP[i]
      /\ Len(toP) + 1 \notin DOMAIN toP
  <2>1. CASE toP' = toP
    BY <1>5, <2>1
  <2>2. CASE taken /\ toP' = toP \o <<m>>
    <3>1. q = toP \o <<m>>
      BY <2>2
    <3> HIDE DEF q
    <3> QED BY <1>4, <1>5, <2>2, <3>1, Enqueued
  <2> QED BY <1>6, <2>1, <2>2
<1>10. Usable \subseteq Usable'
  <2>1. ASSUME NEW d \in Usable
        PROVE  d \in Usable'
    <3>1. d \in funded /\ d \notin reclaimed /\ d \notin verifying /\ d # c
          /\ \A i \in DOMAIN toP : d \notin FundingIn(toP[i])
      BY <1>2, <2>1 DEF Usable
    <3>2. \A i \in DOMAIN q : d \notin FundingIn(q[i])
      BY <1>4, <1>9, <3>1
    <3> QED BY <1>2, <3>1, <3>2 DEF Usable
  <2> QED BY <2>1
<1>11. Announced'
  <2>1. verifying' \cap reclaimed' = {}
    BY <1>2, <1>8
  <2>2. \A i \in DOMAIN q : FundingIn(q[i]) \subseteq funded' \ (reclaimed' \cup verifying')
    <3>1. SUFFICES ASSUME NEW i \in DOMAIN q
                   PROVE  FundingIn(q[i]) \subseteq funded' \ (reclaimed' \cup verifying')
      OBVIOUS
    <3>2. CASE i \in DOMAIN toP /\ q[i] = toP[i]
      BY <1>2, <1>8, <3>2
    <3>3. CASE taken /\ q[i] = m
      BY <1>2, <1>4, <1>8, <3>3
    <3> QED BY <1>9, <3>2, <3>3
  <2>3. \A i, j \in DOMAIN q : i # j => FundingIn(q[i]) \cap FundingIn(q[j]) = {}
    <3>1. SUFFICES ASSUME NEW i \in DOMAIN q, NEW j \in DOMAIN q, i # j
                   PROVE  FundingIn(q[i]) \cap FundingIn(q[j]) = {}
      OBVIOUS
    <3>2. CASE i \in DOMAIN toP /\ j \in DOMAIN toP
      BY <1>8, <1>9, <3>1, <3>2
    <3>3. CASE i \notin DOMAIN toP
      BY <1>4, <1>8, <1>9, <3>1, <3>3
    <3>4. CASE j \notin DOMAIN toP
      BY <1>4, <1>8, <1>9, <3>1, <3>4
    <3> QED BY <3>2, <3>3, <3>4
  <2> QED BY <2>1, <2>2, <2>3 DEF Announced
<1>12. \A i \in DOMAIN q : CoveredBy(q[i], signedOn)
  BY <1>4, <1>8, <1>9 DEF CoveredBy
<1>13. Typed'
  <2>1. b' \in BuyerState
    BY <1>7 DEF SoundBuyer
  <2>2. /\ {b'.active, b'.next, b'.pending} \subseteq ChannelBuyer \cup {None}
        /\ b'.funding # None => b'.funding \in FundingRequests
    BY <2>1 DEF BuyerState
  <2>3. b'.funding # None => b'.funding.first <= b'.funding.latest
    BY <1>7 DEF SoundBuyer
  <2>4. reclaimed' \subseteq funded' /\ funded' \subseteq Channels /\ verifying' \subseteq funded'
    BY <1>2, <1>8
  <2>5. TypeOK'
    BY <1>1, <1>2, <2>2, <2>3, <2>4 DEF TypeOK
  <2> QED BY <1>1, <1>2, <1>7, <1>9, <2>5 DEF Typed
<1>14. UsableOnly'
  <2>1. \A i \in DOMAIN toB' : NamedIn(toB'[i]) \subseteq Usable'
    BY <1>1, <1>2, <1>10 DEF UsableOnly
  <2>2. g'.open \subseteq Usable' /\ \A d \in Channels : signedOn'[d] > 0 => d \in Usable'
    BY <1>1, <1>2, <1>10 DEF UsableOnly
  <2> QED BY <1>7, <1>10, <2>1, <2>2 DEF UsableOnly
<1>15. Backed'
  <2>1. /\ \A d \in Channels : recorded'[d] <= signedOn'[d]
        /\ \A d \in g'.open : g'.signed[d] = recorded'[d]
    BY <1>1, <1>2 DEF Backed
  <2>2. \A i \in DOMAIN toP' : CoveredBy(toP'[i], signedOn')
    BY <1>2, <1>12
  <2> QED BY <2>1, <2>2 DEF Backed
<1>16. AccountStep
  BY <1>2, UnseenStep
<1> QED BY <1>11, <1>13, <1>14, <1>15, <1>16 DEF PeeringInv

-----------------------------------------------------------------------------
(* What the provider's handlers commit. *)

\* An outcome of the provider's: a sound grant whose ratchet is what is recorded,
\* and no more than was signed; at most one message, about a channel it knows.
SoundSelling(o) ==
    /\ o.g \in GrantState /\ GrantSound(o.g) /\ o.kept \in Budget
    /\ o.recorded \in [Channels -> U64]
    /\ \A c \in Channels : o.recorded[c] <= signedOn[c]
    /\ \A c \in o.g.open : o.g.signed[c] = o.recorded[c]
    /\ o.msgs = <<>> \/ \E m \in ToBuyer : o.msgs = <<m>> /\ NamedIn(m) \subseteq o.g.open

(* A message put in the buyer's queue names a usable channel, or none. *)
LEMMA SaidKeeps ==
    ASSUME PeeringInv, Usable \subseteq Usable',
           \/ toB' = toB
           \/ \E m \in ToBuyer : toB' = toB \o <<m>> /\ NamedIn(m) \subseteq Usable'
    PROVE  /\ toB' \in Seq(ToBuyer)
           /\ \A i \in DOMAIN toB' : NamedIn(toB'[i]) \subseteq Usable'
<1>1. toB \in Seq(ToBuyer) /\ \A i \in DOMAIN toB : NamedIn(toB[i]) \subseteq Usable'
  BY BuyerFacts DEF Typed, UsableOnly
<1>2. CASE toB' = toB
  BY <1>1, <1>2
<1>3. ASSUME NEW m \in ToBuyer, toB' = toB \o <<m>>, NamedIn(m) \subseteq Usable'
      PROVE  /\ toB' \in Seq(ToBuyer)
             /\ \A i \in DOMAIN toB' : NamedIn(toB'[i]) \subseteq Usable'
  <2> DEFINE q == toB'
             U == Usable'
  <2>1. q = toB \o <<m>> /\ NamedIn(m) \subseteq U /\ \A i \in DOMAIN toB : NamedIn(toB[i]) \subseteq U
    BY <1>1, <1>3
  <2> HIDE DEF q, U
  <2>2. /\ q \in Seq(ToBuyer) /\ \A i \in DOMAIN toB : q[i] = toB[i]
        /\ \A i \in DOMAIN q : i \in DOMAIN toB \/ (i = Len(toB) + 1 /\ q[i] = m)
    BY <1>1, <2>1, Enqueued
  <2>3. \A i \in DOMAIN q : NamedIn(q[i]) \subseteq U
    BY <2>1, <2>2
  <2> QED BY <2>2, <2>3 DEF q, U
<1> QED BY <1>2, <1>3

(* A sound outcome committed keeps the invariant. *)
LEMMA ProviderCommitKeeps ==
    ASSUME PeeringInv, NEW o, SoundSelling(o), ProviderCommit(o), TakesHead,
           o.g.open \subseteq Usable', due' \subseteq due,
           ps' \in {"none", "peers", "parked"}, charging' \in BOOLEAN
    PROVE  PeeringInv'
<1>1. /\ g' = o.g /\ kept' = o.kept /\ recorded' = o.recorded
      /\ UNCHANGED <<now, link, buyerVars>>
  BY DEF ProviderCommit
<1>2. UNCHANGED <<funded, reclaimed>> /\ Typed /\ Announced /\ TypeOK
  BY <1>1, BuyerFacts DEF buyerVars
<1>3. Usable \subseteq Usable'
  BY <1>2, TakenKeeps
<1>4. PICK left : /\ left \in {o.msgs} \cup {RemoveAt(o.msgs, i) : i \in DOMAIN o.msgs}
                  /\ toB' = Put(toB, left)
  BY DEF ProviderCommit
<1>5. left = o.msgs \/ left = <<>>
  BY <1>4, LeftOfOne DEF SoundSelling
<1>6. toB \in Seq(ToBuyer) /\ toB \o <<>> = toB
  BY <1>2 DEF Typed
<1>7. \/ toB' = toB
      \/ \E m \in ToBuyer : toB' = toB \o <<m>> /\ NamedIn(m) \subseteq Usable'
  <2>1. toB' = toB \/ toB' = toB \o o.msgs
    BY <1>4, <1>5, <1>6 DEF Put
  <2>2. CASE o.msgs = <<>>
    BY <1>6, <2>1, <2>2
  <2>3. ASSUME NEW m \in ToBuyer, o.msgs = <<m>>, NamedIn(m) \subseteq o.g.open
        PROVE  <1>7
    BY <2>1, <2>3
  <2> QED BY <2>2, <2>3 DEF SoundSelling
<1>8. /\ toB' \in Seq(ToBuyer)
      /\ \A i \in DOMAIN toB' : NamedIn(toB'[i]) \subseteq Usable'
  BY <1>3, <1>7, SaidKeeps
<1>9. SellerAside
  <2>1. g' \in GrantState /\ GrantSound(g') /\ g'.open \subseteq Usable'
    BY <1>1 DEF SoundSelling
  <2>2. /\ kept' \in Budget /\ recorded' \in [Channels -> U64]
        /\ \A c \in Channels : recorded'[c] <= signedOn[c]
        /\ \A c \in g'.open : g'.signed[c] = recorded'[c]
    BY <1>1 DEF SoundSelling
  <2> QED BY <1>8, <2>1, <2>2 DEF SellerAside
<1>10. BuyerAside
  BY <1>1, BuyerUnmoved
<1>11. now' \in 0 .. MAX_NOW /\ link' \in BOOLEAN /\ due' \subseteq {"buyer", "provider"}
  BY <1>1, <1>2 DEF TypeOK
<1> QED BY <1>9, <1>10, <1>11, AsideKeeps

-----------------------------------------------------------------------------
(* What the provider's grant comes to. *)

\* h has no more left than f, and of its channels some, as far ratcheted.
Shrinks(f, h) ==
    /\ h \in GrantState /\ GrantSound(h) /\ Dwindles(f, h)
    /\ h.open \subseteq f.open /\ \A c \in h.open : h.signed[c] = f.signed[c]

(* Shrinking is transitive. *)
LEMMA ShrinksOn ==
    ASSUME NEW f \in GrantState, NEW h, NEW k, Shrinks(f, h), Shrinks(h, k)
    PROVE  Shrinks(f, k)
<1>1. h \in GrantState /\ k \in GrantState /\ Dwindles(f, h) /\ Dwindles(h, k)
  BY DEF Shrinks
<1>2. Dwindles(f, k)
  BY <1>1, DwindlesOn
<1> QED BY <1>2 DEF Shrinks

(* What leaves no more behind than it found. *)
LEMMA ShrinkSteps ==
    ASSUME NEW f \in GrantState, GrantSound(f), NEW cs \in SUBSET Channels,
           NEW moved \in U64, NEW t \in U64
    PROVE  /\ Shrinks(f, f)
           /\ Shrinks(f, CloseChannels(f, cs)) /\ Shrinks(f, RecordFailures(f, cs))
           /\ Shrinks(f, Pause(f)) /\ Shrinks(f, Draw(f, moved, t))
           /\ Shrinks(f, ExpireIfDue(f, t)) /\ Shrinks(f, EndReservation(f))
           /\ Shrinks(f, Restart(f, t))
<1>1. ASSUME NEW h \in GrantState, SameBudget(f, h), h.reserved = f.reserved
      PROVE  Dwindles(f, h)
  <2>1. Remaining(f) \in Nat /\ f.deadline \in Nat
    BY RemainingType, WidthNat DEF GrantState
  <2> QED BY <1>1, <2>1 DEF SameBudget, Dwindles
<1>2. Shrinks(f, f)
  BY <1>1 DEF Shrinks, SameBudget
<1>3. Shrinks(f, CloseChannels(f, cs))
  BY <1>1, CloseChannelsSound, ChannelsApart DEF Shrinks
<1>4. Shrinks(f, RecordFailures(f, cs))
  BY <1>1, RecordFailuresSound, ChannelsApart DEF Shrinks
<1>5. Shrinks(f, Pause(f))
  BY PauseSound, PauseDraws DEF Shrinks
<1>6. Shrinks(f, Draw(f, moved, t))
  BY DrawSound, DrawDraws DEF Shrinks
<1>7. Shrinks(f, ExpireIfDue(f, t))
  BY ExpireSound, ExpireDraws DEF Shrinks
<1>8. Shrinks(f, EndReservation(f))
  BY EndReservationSound, EndReservationDraws DEF Shrinks
<1>9. Shrinks(f, Restart(f, t))
  BY RestartSound, RestartDraws DEF Shrinks
<1> QED BY <1>2, <1>3, <1>4, <1>5, <1>6, <1>7, <1>8, <1>9

(* A purchase looked at is noted, and nothing else. *)
LEMMA NotedShrinks ==
    ASSUME NEW f \in GrantState, GrantSound(f), NEW t \in U64,
           NEW h, h = [f EXCEPT !.last_topup = t]
    PROVE  /\ Shrinks(f, h) /\ BudgetOf(h, t) = BudgetOf(f, t)
           /\ h.open = f.open /\ h.signed = f.signed /\ h.reserved = f.reserved
<1>1. /\ h \in GrantState
      /\ h.open = f.open /\ h.signed = f.signed /\ h.reserved = f.reserved
      /\ h.authorized = f.authorized /\ h.consumed = f.consumed /\ h.deadline = f.deadline
  BY DEF GrantState
<1>2. Dwindles(f, h) /\ Remaining(h) = Remaining(f)
  BY <1>1, DwindlesSame
<1>3. GrantSound(h)
  BY <1>1, <1>2 DEF GrantSound
<1> QED BY <1>1, <1>2, <1>3 DEF Shrinks, BudgetOf

(* A channel opened costs nothing. *)
LEMMA OpenedDwindles ==
    ASSUME NEW f \in GrantState, GrantSound(f), NEW c \in Channels
    PROVE  Dwindles(f, OpenChannel(f, c))
<1>1. Remaining(f) \in Nat /\ f.deadline \in Nat
  BY RemainingType, WidthNat DEF GrantState
<1>2. SameBudget(f, OpenChannel(f, c)) /\ OpenChannel(f, c).reserved = f.reserved
  <2>1. {} \in SUBSET Channels
    OBVIOUS
  <2> QED BY <2>1, ChannelsApart, OpenChannelSound
<1> QED BY <1>1, <1>2 DEF SameBudget, Dwindles

(* What the provider holds shrinks, and is saved or not. *)
LEMMA SellingStep ==
    ASSUME PeeringInv, PeeringInv', UNCHANGED <<now, signedOn, recorded>>,
           ps # "none", ps' # "none", Dwindles(g, g'),
           kept' \in {kept, NoBudget, BudgetOf(g', now)}
    PROVE  AccountStep
<1>1. Typed /\ Typed' /\ g \in GrantState /\ g' \in GrantState /\ now \in U64 /\ kept \in Budget
  BY BuyerFacts DEF PeeringInv, Typed, TypeOK
<1> DEFINE h == g'
<1>2. h \in GrantState /\ Dwindles(g, h)
  BY <1>1
<1>3. LeftWith = BudgetOf(g, now).remaining /\ LeftWith' = BudgetOf(h, now).remaining
  BY DEF LeftWith
<1>4. BudgetAt(kept, now)' = BudgetAt(kept', now)
  OBVIOUS
<1> HIDE DEF h
<1>5. LeftWith' <= LeftWith
  BY <1>1, <1>2, <1>3, BudgetDwindles
<1>6. BudgetAt(kept, now).remaining \in Nat
  BY <1>1, LeftType
<1>7. \/ BudgetAt(kept, now)'.remaining <= BudgetAt(kept, now).remaining
      \/ BudgetAt(kept, now)'.remaining = LeftWith'
  <2>1. CASE kept' = kept
    BY <1>4, <1>6, <2>1
  <2>2. CASE kept' = NoBudget
    <3>1. BudgetAt(NoBudget, now) = NoBudget
      BY <1>1, SavedIsWorth
    <3> QED BY <1>4, <1>6, <2>2, <3>1 DEF NoBudget
  <2>3. CASE kept' = BudgetOf(h, now)
    <3>1. BudgetAt(BudgetOf(h, now), now) = BudgetOf(h, now)
      BY <1>1, <1>2, SavedIsWorth
    <3> QED BY <1>3, <1>4, <2>3, <3>1
  <2> QED BY <2>1, <2>2, <2>3 DEF h
<1> QED BY <1>1, <1>5, <1>7, UsingStep

\* An outcome with a grant that has shrunk and perhaps a message.
Shrunk(o) ==
    /\ Shrinks(g, o.g) /\ o.recorded = recorded
    /\ o.kept \in {kept, NoBudget, BudgetOf(o.g, now)}
    /\ o.msgs = <<>> \/ \E m \in ToBuyer : o.msgs = <<m>> /\ NamedIn(m) = {}

(* Such an outcome committed keeps the invariant and is a use of units. *)
LEMMA ShrunkKeeps ==
    ASSUME PeeringInv, NEW o, Shrunk(o), ProviderCommit(o), TakesHead, due' \subseteq due,
           ps # "none" \/ o = ProviderStart,
           UNCHANGED <<ps, charging>>
    PROVE  PeeringInv' /\ AccountStep
<1>1. Typed /\ Announced /\ UsableOnly /\ Backed /\ TypeOK
  BY BuyerFacts
<1>2. /\ g' = o.g /\ kept' = o.kept /\ recorded' = o.recorded
      /\ UNCHANGED <<now, signedOn, funded, reclaimed>>
  BY DEF ProviderCommit, buyerVars
<1>3. Usable \subseteq Usable'
  BY <1>1, <1>2, TakenKeeps
<1>4. /\ o.g \in GrantState /\ GrantSound(o.g) /\ o.g.open \subseteq g.open
      /\ Dwindles(g, o.g) /\ \A c \in o.g.open : o.g.signed[c] = g.signed[c]
  BY DEF Shrunk, Shrinks
<1>5. SoundSelling(o)
  <2>1. o.kept \in Budget
    BY <1>1, <1>4, BudgetType DEF Shrunk, TypeOK
  <2>2. o.recorded = recorded /\ recorded \in [Channels -> U64]
    BY <1>1 DEF Shrunk, TypeOK
  <2>3. \A c \in o.g.open : o.g.signed[c] = recorded[c]
    BY <1>1, <1>4 DEF Backed
  <2>4. \A c \in Channels : recorded[c] <= signedOn[c]
    BY <1>1 DEF Backed
  <2>5. o.msgs = <<>> \/ \E m \in ToBuyer : o.msgs = <<m>> /\ NamedIn(m) \subseteq o.g.open
    BY DEF Shrunk
  <2> QED BY <1>4, <2>1, <2>2, <2>3, <2>4, <2>5 DEF SoundSelling
<1>6. o.g.open \subseteq Usable'
  BY <1>1, <1>3, <1>4 DEF UsableOnly
<1>7. ps' \in {"none", "peers", "parked"} /\ charging' \in BOOLEAN
  BY <1>1 DEF TypeOK
<1>8. PeeringInv'
  BY <1>5, <1>6, <1>7, ProviderCommitKeeps
<1>9. CASE o = ProviderStart
  <2>1. UNCHANGED <<now, signedOn, ps, g, kept, recorded>>
    BY <1>2, <1>9 DEF ProviderStart
  <2> QED BY <1>8, <2>1, UnseenStep
<1>10. CASE ps # "none"
  <2>1. recorded' = recorded /\ kept' \in {kept, NoBudget, BudgetOf(g', now)}
        /\ Dwindles(g, g') /\ ps' # "none"
    BY <1>2, <1>4, <1>10 DEF Shrunk
  <2> QED BY <1>2, <1>8, <1>10, <2>1, SellingStep
<1> QED BY <1>9, <1>10

-----------------------------------------------------------------------------
(* The provider's actions. *)

(* What the invariant says of the provider. *)
LEMMA SellerFacts ==
    ASSUME PeeringInv
    PROVE  /\ g \in GrantState /\ GrantSound(g) /\ g.open \in SUBSET Channels
           /\ kept \in Budget /\ Shrinks(g, g) /\ Shrunk(ProviderStart)
<1>1. g \in GrantState /\ GrantSound(g) /\ kept \in Budget /\ now \in U64
  BY BuyerFacts DEF Typed, TypeOK
<1>2. Shrinks(g, g)
  <2>1. {} \in SUBSET Channels
    OBVIOUS
  <2> QED BY <1>1, <2>1, ShrinkSteps
<1> QED BY <1>1, <1>2 DEF ProviderStart, Shrunk, GrantState

(* The message a provider hears. *)
LEMMA ProviderHead ==
    ASSUME PeeringInv, NEW type, ProviderHears(type)
    PROVE  /\ Head(toP) \in ToProvider /\ Head(toP).type = type
           /\ toP # <<>> /\ toP' = Tail(toP) /\ UNCHANGED <<due, ps, charging>>
           /\ ps = "peers" /\ CoveredBy(Head(toP), signedOn)
<1>1. toP \in Seq(ToProvider) /\ toP # <<>>
  BY BuyerFacts DEF Typed, ProviderHears
<1>2. Head(toP) \in ToProvider /\ 1 \in DOMAIN toP /\ toP[1] = Head(toP)
  BY <1>1, Dequeued
<1>3. CoveredBy(toP[1], signedOn)
  BY <1>2, BuyerFacts DEF Backed
<1> QED BY <1>2, <1>3 DEF ProviderHears, ProviderInPeers

(* on_accept and on_rollover_init. *)
LEMMA AnnouncementsKeep ==
    ASSUME PeeringInv, RecvAccept \/ RecvRolloverInit
    PROVE  PeeringInv' /\ AccountStep
<1>1. CASE RecvAccept
  <2> DEFINE h == CloseChannels(g, g.open)
             o == [ProviderStart EXCEPT !.g = h]
  <2>1. /\ ProviderHears("Accept") /\ ProviderCommit(o)
        /\ verifying' = verifying \cup ({Head(toP).funding} \ {None})
    BY <1>1 DEF RecvAccept, ProviderStart
  <2>2. TakesHead /\ due' \subseteq due /\ ps # "none" /\ UNCHANGED <<ps, charging>>
    BY <2>1, ProviderHead DEF TakesHead, FundingIn
  <2>3. Shrinks(g, h)
    BY SellerFacts, ShrinkSteps, BuyerFacts
  <2> HIDE DEF h
  <2>4. Shrunk(o)
    BY <2>3 DEF ProviderStart, Shrunk
  <2> HIDE DEF o
  <2> QED BY <2>1, <2>2, <2>4, ShrunkKeeps
<1>2. CASE RecvRolloverInit
  <2>1. /\ ProviderHears("RolloverInit") /\ ProviderCommit(ProviderStart)
        /\ verifying' = verifying \cup {Head(toP).funding}
    BY <1>2 DEF RecvRolloverInit
  <2>2. None \notin Channels
    BY ChannelAssumption
  <2>3. TakesHead /\ due' \subseteq due /\ UNCHANGED <<ps, charging>>
    BY <2>1, <2>2, ProviderHead, ToProviderFields DEF TakesHead, FundingIn
  <2> QED BY <2>1, <2>3, SellerFacts, ShrunkKeeps
<1> QED BY <1>1, <1>2

(* A funding checked: the channel is recognised with a ratchet of zero, which is *)
(* what the backend has recorded.                                                *)
LEMMA VerifiedKeeps ==
    ASSUME PeeringInv, NEW c \in Channels, Verified(c)
    PROVE  PeeringInv' /\ AccountStep
<1>1. /\ c \in verifying /\ verifying' = verifying \ {c}
      /\ UNCHANGED <<due, toP, ps, charging>> /\ TakesHead
  BY DEF Verified, TakesHead
<1>2. CASE ~ProviderInPeers
  <2>1. ProviderCommit(ProviderStart)
    BY <1>2 DEF Verified
  <2> QED BY <1>1, <2>1, SellerFacts, ShrunkKeeps
<1>3. CASE ProviderInPeers
  <2> DEFINE type  == IF g.open \ {c} = {} THEN "ChannelReady" ELSE "RolloverReady"
             ready == [type |-> type, channel |-> c]
             h     == OpenChannel(g, c)
             o     == Say([ProviderStart EXCEPT !.g = h], ready)
  <2>1. ProviderCommit(o)
    <3>1. [ProviderStart EXCEPT !.g = OpenChannel(@, c)] = [ProviderStart EXCEPT !.g = h]
      BY DEF ProviderStart
    <3> QED BY <1>3, <3>1 DEF Verified
  <2>2. ready \in ToBuyer /\ NamedIn(ready) = {c}
    BY DEF ToBuyer, NamedIn
  <2> HIDE DEF ready, h
  <2>3. o.g = h /\ o.kept = kept /\ o.recorded = recorded /\ o.msgs = <<ready>>
    BY DEF Say, ProviderStart
  <2> HIDE DEF o
  <2>4. Typed /\ Announced /\ UsableOnly /\ Backed /\ TypeOK
    BY BuyerFacts
  <2>5. c \notin Usable /\ c \notin g.open
    BY <1>1, <2>4 DEF Usable, UsableOnly
  <2>6. UNCHANGED <<now, signedOn, funded, reclaimed>> /\ g' = h /\ kept' = kept
        /\ recorded' = recorded
    BY <2>1, <2>3 DEF ProviderCommit, buyerVars
  <2>7. Usable \subseteq Usable'
    BY <1>1, <2>4, <2>6, TakenKeeps
  <2>8. c \in Usable'
    <3>1. c \in funded /\ c \notin reclaimed
      BY <1>1, <2>4 DEF Announced, TypeOK
    <3>2. \A i \in DOMAIN toP : c \notin FundingIn(toP[i])
      BY <1>1, <2>4 DEF Announced
    <3> QED BY <1>1, <2>6, <3>1, <3>2 DEF Usable
  <2>9. /\ h \in GrantState /\ GrantSound(h) /\ h.open = g.open \cup {c}
        /\ h.signed = [g.signed EXCEPT ![c] = 0] /\ Dwindles(g, h)
    BY <2>5, SellerFacts, OpenChannelSound, OpenedDwindles DEF h
  <2>10. recorded[c] = 0
    <3>1. signedOn[c] \in Nat /\ recorded[c] \in Nat /\ recorded[c] <= signedOn[c]
      BY <2>4, WidthNat DEF Backed, TypeOK
    <3>2. ~(signedOn[c] > 0)
      BY <2>4, <2>5 DEF UsableOnly
    <3> QED BY <3>1, <3>2
  <2>11. SoundSelling(o)
    <3>1. g.signed \in [Channels -> U64] /\ g.open \subseteq Channels
      BY SellerFacts DEF GrantState
    <3>2. \A d \in g.open : g.signed[d] = recorded[d]
      BY <2>4 DEF Backed
    <3>3. \A d \in h.open : h.signed[d] = recorded[d]
      BY <2>9, <2>10, <3>1, <3>2
    <3>4. o.msgs = <<ready>> /\ NamedIn(ready) \subseteq h.open
      BY <2>2, <2>3, <2>9
    <3>5. recorded \in [Channels -> U64] /\ \A d \in Channels : recorded[d] <= signedOn[d]
      BY <2>4 DEF TypeOK, Backed
    <3> QED BY <2>2, <2>3, <2>9, <3>3, <3>4, <3>5, SellerFacts DEF SoundSelling
  <2>12. h.open \subseteq Usable'
    BY <2>4, <2>7, <2>8, <2>9 DEF UsableOnly
  <2>13. PeeringInv'
    <3>1. ps' \in {"none", "peers", "parked"} /\ charging' \in BOOLEAN /\ due' \subseteq due
      BY <1>1, <2>4 DEF TypeOK
    <3> QED BY <1>1, <2>1, <2>3, <2>11, <2>12, <3>1, ProviderCommitKeeps
  <2>14. ps # "none" /\ ps' # "none" /\ Dwindles(g, g') /\ kept' \in {kept, NoBudget, BudgetOf(g', now)}
    BY <1>1, <1>3, <2>6, <2>9 DEF ProviderInPeers
  <2> QED BY <2>6, <2>13, <2>14, SellingStep
<1> QED BY <1>2, <1>3

(* The provider's tick. *)
LEMMA ProviderTickKeeps ==
    ASSUME PeeringInv, NEW moved \in U64, ProviderTick(moved)
    PROVE  PeeringInv' /\ AccountStep
<1> DEFINE carried == charging /\ (g.open # {} \/ Remaining(g) > 0)
           drawn   == IF carried THEN Draw(g, moved, now) ELSE Pause(g)
           ticked  == ExpireIfDue(drawn, now)
           due1    == ExpiringChannels(ticked, now, SettleLead)
           held    == CloseChannels(ticked, due1)
           spent   == charging /\ Remaining(g) > 0 /\ ~IsLive(held, now)
           due2    == ExpiringChannels(g, now, SettleLead)
           parked  == CloseChannels(g, due2)
           o1      == [ProviderStart EXCEPT !.g = held, !.kept = IF spent THEN NoBudget ELSE @]
           o2      == [ProviderStart EXCEPT !.g = parked]
<1>1. /\ due' \subseteq due /\ UNCHANGED <<toP, ps, charging, verifying>> /\ TakesHead
      /\ \/ ps = "peers" /\ ProviderCommit(o1)
         \/ ps = "parked" /\ ProviderCommit(o2)
         \/ ProviderCommit(ProviderStart)
  <2>1. o2 = [ProviderStart EXCEPT !.g = CloseChannels(@, ExpiringChannels(@, now, SettleLead))]
    BY DEF ProviderStart
  <2> HIDE DEF o2
  <2> QED BY <2>1 DEF ProviderTick, ProviderInPeers, TakesHead
<1>2. g \in GrantState /\ GrantSound(g) /\ g.open \in SUBSET Channels /\ now \in U64
      /\ {} \in SUBSET Channels
  BY SellerFacts, BuyerFacts
<1>3. Shrinks(g, drawn)
  BY <1>2, ShrinkSteps
<1> HIDE DEF drawn
<1>4. Shrinks(drawn, ticked)
  BY <1>2, <1>3, ShrinkSteps DEF Shrinks
<1> HIDE DEF ticked
<1>5. Shrinks(g, ticked) /\ ticked \in GrantState /\ GrantSound(ticked)
  BY <1>2, <1>3, <1>4, ShrinksOn DEF Shrinks
<1>6. due1 \in SUBSET Channels /\ due2 \in SUBSET Channels
  BY <1>2, <1>5 DEF ExpiringChannels, GrantState
<1> HIDE DEF due1, due2
<1>7. Shrinks(ticked, held) /\ Shrinks(g, parked)
  BY <1>2, <1>5, <1>6, ShrinkSteps
<1> HIDE DEF held, parked
<1>8. Shrinks(g, held)
  BY <1>2, <1>5, <1>7, ShrinksOn
<1> HIDE DEF spent
<1>9. Shrunk(o1) /\ Shrunk(o2)
  <2>1. o1.g = held /\ o1.kept \in {kept, NoBudget} /\ o1.recorded = recorded /\ o1.msgs = <<>>
    BY DEF ProviderStart
  <2>2. o2.g = parked /\ o2.kept = kept /\ o2.recorded = recorded /\ o2.msgs = <<>>
    BY DEF ProviderStart
  <2> HIDE DEF o1, o2
  <2> QED BY <1>7, <1>8, <2>1, <2>2 DEF Shrunk
<1> HIDE DEF o1, o2
<1>10. CASE ps = "peers" /\ ProviderCommit(o1)
  BY <1>1, <1>9, <1>10, ShrunkKeeps
<1>11. CASE ps = "parked" /\ ProviderCommit(o2)
  BY <1>1, <1>9, <1>11, ShrunkKeeps
<1>12. CASE ProviderCommit(ProviderStart)
  BY <1>1, <1>12, SellerFacts, ShrunkKeeps
<1> QED BY <1>1, <1>10, <1>11, <1>12

-----------------------------------------------------------------------------
(* Purchases. *)

(* Units credited for what was signed, and perhaps saved. *)
LEMMA CreditingStep ==
    ASSUME Typed, Typed', UNCHANGED signedOn, NEW inc \in Nat, inc > 0,
           TotalOver(recorded) + inc <= TotalOver(recorded)',
           \A c \in Channels : recorded'[c] <= signedOn[c],
           LeftWith' <= LeftWith + inc,
           \/ BudgetAt(kept, now)'.remaining <= BudgetAt(kept, now).remaining
           \/ BudgetAt(kept, now)'.remaining = LeftWith'
    PROVE  AccountStep
<1>1. LeftWith \in Nat /\ BudgetAt(kept, now).remaining \in Nat
  BY LeftType
<1>2. LeftWith' \in Nat /\ (BudgetAt(kept, now).remaining)' \in Nat
  BY LeftTypeNext
<1>3. TotalOver(signedOn)' = TotalOver(signedOn)
  BY DEF TotalOver
<1> DEFINE h == recorded'
<1>4. /\ h \in [Channels -> U64] /\ signedOn \in [Channels -> U64]
      /\ recorded \in [Channels -> U64] /\ \A c \in Channels : h[c] <= signedOn[c]
  BY DEF Typed, TypeOK
<1>5. TotalOver(recorded)' = TotalOver(h)
  BY DEF TotalOver
<1> HIDE DEF h
<1>6. TotalOver(h) \in Nat /\ TotalOver(h) <= TotalOver(signedOn)
  BY <1>4, TotalGrows
<1>7. TotalOver(recorded) \in Nat
  <2>1. \A c \in Channels : recorded[c] \in Nat
    BY <1>4, WidthNat
  <2>2. \A c \in Channels : recorded[c] <= recorded[c]
    BY <2>1
  <2> QED BY <1>4, <2>2, TotalGrows
<1>8. Acct!Credit
  BY <1>1, <1>2, <1>3, <1>5, <1>6, <1>7 DEF Acct!Credit, Acct!Saves
<1> QED BY <1>8 DEF AccountStep, Acct!Next

(* The verdict does not depend on when the last purchase was. *)
LEMMA VerdictNoted ==
    ASSUME NEW f, NEW h, h.open = f.open, h.signed = f.signed, h.reserved = f.reserved,
           NEW available, NEW us, NEW window, NEW rate
    PROVE  Verdict(h, available, us, window, rate) = Verdict(f, available, us, window, rate)
           /\ Increase(h, us) = Increase(f, us)
<1>1. \A i \in DOMAIN us : Fault(h, us, i) = Fault(f, us, i)
  BY DEF Fault
<1>2. Faulty(h, us) = Faulty(f, us)
  BY <1>1 DEF Faulty
<1>3. Increase(h, us) = Increase(f, us)
  BY DEF Increase
<1> DEFINE S == Faulty(f, us)
           n == CHOOSE i \in S : \A j \in S : i <= j
<1>4. S # {} => (Fault(h, us, n) = Fault(f, us, n) \/ n \notin S)
  BY <1>1 DEF Faulty
<1>5. S # {} => Fault(h, us, n) = Fault(f, us, n)
  BY DEF Fault
<1>6. Verdict(h, available, us, window, rate) = Verdict(f, available, us, window, rate)
  BY <1>2, <1>5 DEF Verdict
<1> QED BY <1>3, <1>6

(* A verdict is one of the reasons a refusal gives. *)
LEMMA VerdictType ==
    ASSUME NEW f, NEW available, NEW us, NEW window, NEW rate
    PROVE  Verdict(f, available, us, window, rate) \in Reasons
<1>1. \A i : Fault(f, us, i) \in Reasons
  BY DEF Fault, Reasons
<1> QED BY <1>1 DEF Verdict, Reasons

(* A purchase honoured credits what was signed for. *)
LEMMA BoughtKeeps ==
    ASSUME PeeringInv, NEW available, NEW m, m = Head(toP), ProviderHears("TopUp"),
           UNCHANGED verifying,
           Verdict(g, available, m.updates, m.window, m.rate) = "Accept",
           ProviderCommit(Bought(m))
    PROVE  PeeringInv' /\ AccountStep
<1> DEFINE us   == m.updates
           f    == [g EXCEPT !.last_topup = now]
           ap   == Apply(f, us, m.window, m.rate, now)
           full == ExhaustedChannels(ap)
           h    == CloseChannels(ap, full)
           rec  == [c \in Channels |-> IF c \in Named(us) THEN TotalOn(us, c) ELSE recorded[c]]
           inc  == Increase(f, us)
           o    == Bought(m)
           k    == IF charging THEN BudgetOf(h, now) ELSE kept
           bal  == [type |-> "Balance", remaining |-> BudgetOf(h, now).remaining,
                    expires_in |-> SatSub(h.deadline, now)]
<1>1. /\ g \in GrantState /\ GrantSound(g) /\ kept \in Budget /\ now \in U64
      /\ Typed /\ Announced /\ UsableOnly /\ Backed /\ TypeOK
  BY SellerFacts, BuyerFacts
<1>2. /\ us \in Updates /\ m.window \in U64 /\ m.rate \in U64 /\ m.type = "TopUp"
      /\ CoveredBy(m, signedOn) /\ ps = "peers" /\ UNCHANGED <<due, ps, charging>>
      /\ TakesHead
  <2>1. m \in ToProvider /\ m.type = "TopUp" /\ CoveredBy(m, signedOn) /\ ps = "peers"
        /\ toP # <<>> /\ toP' = Tail(toP) /\ UNCHANGED <<due, ps, charging>>
    BY ProviderHead
  <2> QED BY <2>1, ToProviderFields DEF TakesHead
<1>3. /\ Shrinks(g, f) /\ BudgetOf(f, now) = BudgetOf(g, now)
      /\ f.open = g.open /\ f.signed = g.signed /\ f.reserved = g.reserved
  BY <1>1, NotedShrinks
<1> HIDE DEF f
<1>4. /\ f \in GrantState /\ GrantSound(f)
      /\ Verdict(f, available, us, m.window, m.rate) = "Accept"
  BY <1>3, VerdictNoted DEF Shrinks
<1>5. /\ o.g = h /\ o.kept = k /\ o.recorded = rec /\ o.msgs = <<bal>>
  <2> DEFINE o1 == [ProviderStart EXCEPT !.g = h, !.recorded = rec]
             o2 == Keep(o1)
  <2>1. o = Say(o2, Balance(o2))
    BY DEF Bought, ProviderStart, f
  <2> HIDE DEF h, rec, o, o2
  <2>2. o1 = [g |-> h, kept |-> kept, recorded |-> rec, msgs |-> <<>>]
    <3> DEFINE o0 == [ProviderStart EXCEPT !.g = h]
    <3>1. o0 = [g |-> h, kept |-> kept, recorded |-> recorded, msgs |-> <<>>]
      BY DEF ProviderStart
    <3>2. o1 = [o0 EXCEPT !.recorded = rec]
      OBVIOUS
    <3> HIDE DEF o0, o1
    <3>3. o1 = [[g |-> h, kept |-> kept, recorded |-> recorded, msgs |-> <<>>]
                  EXCEPT !.recorded = rec]
      BY <3>1, <3>2
    <3> QED BY <3>3
  <2> HIDE DEF o1
  <2>3. o2 = [g |-> h, kept |-> k, recorded |-> rec, msgs |-> <<>>]
    BY <2>2 DEF Keep, o2
  <2>4. Balance(o2) = bal
    BY <2>3 DEF Balance
  <2> HIDE DEF bal, k
  <2>5. Append(<<>>, bal) = <<bal>>
    OBVIOUS
  <2> QED BY <2>1, <2>3, <2>4, <2>5 DEF Say
<1> HIDE DEF o
<1>6. /\ ap \in GrantState /\ GrantSound(ap) /\ ap.open = g.open
      /\ \A c \in Channels : ap.signed[c] = rec[c] \/ c \notin g.open
      /\ Remaining(ap) <= BudgetOf(g, now).remaining + inc
  <2>1. /\ ap \in GrantState /\ GrantSound(ap) /\ ap.open = f.open
        /\ \A c \in Channels : ap.signed[c] = IF c \in Named(us) THEN TotalOn(us, c) ELSE f.signed[c]
        /\ Remaining(ap) <= BudgetOf(f, now).remaining + inc
    <3> DEFINE w == m.window
               x == m.rate
    <3>1. w \in U64 /\ x \in U64 /\ us \in Updates /\ now \in U64
      BY <1>1, <1>2
    <3>2. f \in GrantState /\ GrantSound(f) /\ Verdict(f, available, us, w, x) = "Accept"
      BY <1>4
    <3>3. ap = Apply(f, us, w, x, now)
      OBVIOUS
    <3> HIDE DEF w, x, us, ap
    <3>4. /\ Apply(f, us, w, x, now) \in GrantState /\ GrantSound(Apply(f, us, w, x, now))
          /\ Apply(f, us, w, x, now).open = f.open
          /\ \A c \in Channels : Apply(f, us, w, x, now).signed[c] =
                IF c \in Named(us) THEN TotalOn(us, c) ELSE f.signed[c]
      BY <3>1, <3>2, ApplySound
    <3>5. Remaining(ap) <= BudgetOf(f, now).remaining + Increase(f, us)
      BY <3>1, <3>2, <3>3, ApplyAdds
    <3> QED BY <3>3, <3>4, <3>5
  <2> HIDE DEF ap
  <2>3. \A c \in Channels : ap.signed[c] = rec[c] \/ c \notin g.open
    BY <1>1, <1>3, <2>1 DEF Backed
  <2> QED BY <1>3, <2>1, <2>3
<1>7. inc \in Nat /\ inc > 0
  BY <1>2, <1>4, IncreaseType
<1>8. /\ rec \in [Channels -> U64] /\ \A c \in Channels : rec[c] <= signedOn[c]
  <2>1. recorded \in [Channels -> U64] /\ \A c \in Channels : recorded[c] <= signedOn[c]
    BY <1>1 DEF TypeOK, Backed
  <2>2. ASSUME NEW c \in Named(us)
        PROVE  TotalOn(us, c) \in U64 /\ TotalOn(us, c) <= signedOn[c]
    <3>1. TotalOn(us, c) \in U64
      BY <1>2, <1>4, TotalType
    <3>2. PICK i \in DOMAIN us : us[i].channel = c
      BY DEF Named
    <3>3. TotalOn(us, us[i].channel) = us[i].cumulative
      BY <1>2, <1>4, AcceptedApart
    <3>4. us[i].cumulative <= signedOn[us[i].channel]
      BY <1>2 DEF CoveredBy
    <3> QED BY <3>1, <3>2, <3>3, <3>4
  <2> QED BY <2>1, <2>2
<1>9. TotalOver(recorded) + inc <= TotalOver(rec)
  <2>1. Records(us, recorded, rec)
    BY DEF Records
  <2>2. recorded \in [Channels -> U64] /\ Channels \in SUBSET Channels
    BY <1>1 DEF TypeOK
  <2>3. \A c \in f.open : c \in Channels /\ f.signed[c] = recorded[c]
    BY <1>1, <1>3 DEF Backed, TypeOK
  <2> HIDE DEF rec
  <2> QED BY <1>2, <1>4, <1>8, <2>1, <2>2, <2>3, PurchasePaid DEF TotalOver
<1> HIDE DEF inc, rec, ap
<1>10. full \in SUBSET Channels
  BY <1>6 DEF ExhaustedChannels, GrantState
<1> HIDE DEF full
<1>11. Shrinks(ap, h)
  BY <1>1, <1>6, <1>10, ShrinkSteps
<1> HIDE DEF h
<1>12. /\ h \in GrantState /\ GrantSound(h) /\ h.open \subseteq g.open
       /\ \A c \in h.open : h.signed[c] = rec[c]
       /\ BudgetOf(h, now).remaining <= BudgetOf(g, now).remaining + inc
  <2>1. /\ h \in GrantState /\ GrantSound(h) /\ h.open \subseteq g.open
        /\ \A c \in h.open : h.signed[c] = ap.signed[c]
        /\ Remaining(h) <= Remaining(ap) /\ g.open \subseteq Channels
    BY <1>1, <1>6, <1>11 DEF Shrinks, Dwindles, TypeOK
  <2>2. \A c \in h.open : h.signed[c] = rec[c]
    BY <1>6, <2>1
  <2>3. BudgetOf(h, now).remaining \in {0, Remaining(h)}
    BY <1>1, <2>1, BudgetOfIs
  <2>4. Remaining(h) \in Nat /\ Remaining(ap) \in Nat /\ BudgetOf(g, now).remaining \in Nat
    BY <1>1, <1>6, <2>1, RemainingType, BudgetType, WidthNat DEF Budget
  <2> QED BY <1>6, <1>7, <2>1, <2>2, <2>3, <2>4
<1>13. k \in Budget
  BY <1>1, <1>12, BudgetType
<1>14. bal \in ToBuyer /\ NamedIn(bal) = {}
  <2>1. BudgetOf(h, now).remaining \in U64 /\ SatSub(h.deadline, now) \in U64
    <3>1. BudgetOf(h, now) \in Budget /\ h.deadline \in U64
      BY <1>1, <1>12, BudgetType DEF GrantState
    <3> QED BY <1>1, <3>1, WidthAssumption DEF Budget, SatSub, U64
  <2> QED BY <2>1 DEF ToBuyer, NamedIn
<1> HIDE DEF k, bal
<1>15. SoundSelling(o)
  BY <1>5, <1>8, <1>12, <1>13, <1>14 DEF SoundSelling
<1>16. UNCHANGED <<now, signedOn, funded, reclaimed>> /\ g' = h /\ kept' = k /\ recorded' = rec
  BY <1>5 DEF ProviderCommit, buyerVars, o
<1>17. ProviderCommit(o) /\ Usable \subseteq Usable'
  BY <1>1, <1>2, <1>16, TakenKeeps DEF o
<1>18. PeeringInv'
  <2>1. o.g.open \subseteq Usable'
    BY <1>1, <1>5, <1>12, <1>17 DEF UsableOnly
  <2>2. ps' \in {"none", "peers", "parked"} /\ charging' \in BOOLEAN /\ due' \subseteq due
    BY <1>1, <1>2 DEF TypeOK
  <2> QED BY <1>2, <1>15, <1>17, <2>1, <2>2, ProviderCommitKeeps
<1>19. AccountStep
  <2>1. Typed' /\ TotalOver(recorded)' = TotalOver(rec)
    BY <1>16, <1>18 DEF PeeringInv, TotalOver
  <2>2. LeftWith = BudgetOf(g, now).remaining /\ LeftWith' = BudgetOf(h, now).remaining
    BY <1>2, <1>16 DEF LeftWith
  <2>3. BudgetAt(kept, now)' = BudgetAt(k, now)
    BY <1>16
  <2>4. BudgetAt(kept, now).remaining \in Nat
    BY <1>1, LeftType
  <2>5. \/ BudgetAt(kept, now)'.remaining <= BudgetAt(kept, now).remaining
        \/ BudgetAt(kept, now)'.remaining = LeftWith'
    <3>1. CASE k = kept
      BY <2>3, <2>4, <3>1
    <3>2. CASE k = BudgetOf(h, now)
      <4>1. BudgetAt(BudgetOf(h, now), now) = BudgetOf(h, now)
        BY <1>1, <1>12, SavedIsWorth
      <4> QED BY <2>2, <2>3, <3>2, <4>1
    <3> QED BY <3>1, <3>2 DEF k
  <2>6. LeftWith' <= LeftWith + inc
    BY <1>12, <2>2
  <2>7. TotalOver(recorded) + inc <= TotalOver(recorded)'
    BY <1>9, <2>1
  <2>8. \A c \in Channels : recorded'[c] <= signedOn[c]
    BY <1>8, <1>16
  <2> QED BY <1>1, <1>7, <1>16, <2>1, <2>5, <2>6, <2>7, <2>8, CreditingStep
<1> QED BY <1>18, <1>19

(* on_topup. *)
LEMMA RecvTopUpKeeps ==
    ASSUME PeeringInv, NEW available \in Availables, RecvTopUp(available)
    PROVE  PeeringInv' /\ AccountStep
<1> DEFINE m       == Head(toP)
           f       == [g EXCEPT !.last_topup = now]
           checked == [ProviderStart EXCEPT !.g = f]
           verdict == Verdict(g, available, m.updates, m.window, m.rate)
           stale   == NotIncreasing(g, m.updates)
           failed  == FailedChannels(g, stale)
           noted   == RecordFailures(f, stale)
           h       == CloseChannels(noted, failed)
           o1      == Say(ProviderStart, Refusal(m, "TooSoon", available))
           o2      == [ProviderStart EXCEPT !.g = h]
           o3      == Say(checked, Refusal(m, verdict, available))
<1>1. /\ ProviderHears("TopUp") /\ UNCHANGED verifying
      /\ \/ ProviderCommit(o1) \/ ProviderCommit(o2) \/ ProviderCommit(o3)
         \/ verdict = "Accept" /\ ProviderCommit(Bought(m))
  <2>1. /\ [ProviderStart EXCEPT !.g = [@ EXCEPT !.last_topup = now]] = checked
        /\ o2 = [checked EXCEPT !.g = CloseChannels(RecordFailures(@, stale), failed)]
    BY DEF ProviderStart
  <2> HIDE DEF o2, o3, o1, checked, failed, verdict
  <2> QED BY <2>1 DEF RecvTopUp, o1, o3, failed, verdict
<1>2. /\ TakesHead /\ due' \subseteq due /\ ps # "none" /\ UNCHANGED <<ps, charging>>
      /\ m.updates \in Updates /\ m.type = "TopUp"
  BY <1>1, ProviderHead, ToProviderFields DEF TakesHead
<1>3. ASSUME NEW reason \in Reasons, NEW x, Shrinks(g, x),
             ProviderCommit(Say([ProviderStart EXCEPT !.g = x], Refusal(m, reason, available)))
      PROVE  PeeringInv' /\ AccountStep
  <2> DEFINE no == Refusal(m, reason, available)
             o  == Say([ProviderStart EXCEPT !.g = x], no)
  <2>1. no \in ToBuyer /\ NamedIn(no) = {}
    BY <1>2, <1>3, PeeringAssumption DEF Refusal, ToBuyer, NamedIn
  <2> HIDE DEF no
  <2>2. o.g = x /\ o.kept = kept /\ o.recorded = recorded /\ o.msgs = <<no>>
    BY DEF Say, ProviderStart
  <2>3. ProviderCommit(o)
    BY <1>3 DEF no
  <2> HIDE DEF o
  <2>4. Shrunk(o)
    BY <1>3, <2>1, <2>2 DEF Shrunk
  <2> QED BY <1>2, <2>3, <2>4, ShrunkKeeps
<1>4. /\ g \in GrantState /\ GrantSound(g) /\ now \in U64 /\ Shrinks(g, g)
  BY SellerFacts, BuyerFacts
<1>5. Shrinks(g, f)
  BY <1>4, NotedShrinks
<1> HIDE DEF f
<1>6. CASE ProviderCommit(o1)
  <2>1. [ProviderStart EXCEPT !.g = g] = ProviderStart
    BY DEF ProviderStart
  <2>2. "TooSoon" \in Reasons
    BY DEF Reasons
  <2>3. ProviderCommit(Say([ProviderStart EXCEPT !.g = g], Refusal(m, "TooSoon", available)))
    BY <1>6, <2>1
  <2> QED BY <1>3, <1>4, <2>2, <2>3
<1>7. CASE ProviderCommit(o3)
  <2>1. verdict \in Reasons
    BY VerdictType
  <2> HIDE DEF verdict
  <2> QED BY <1>3, <1>5, <1>7, <2>1
<1>8. CASE ProviderCommit(o2)
  <2>1. stale \in SUBSET Channels /\ failed \in SUBSET Channels
    BY <1>4 DEF NotIncreasing, FailedChannels, GrantState
  <2> HIDE DEF stale, failed
  <2>2. f \in GrantState /\ GrantSound(f)
    BY <1>5 DEF Shrinks
  <2>3. Shrinks(f, noted)
    BY <1>4, <2>1, <2>2, ShrinkSteps
  <2> HIDE DEF noted
  <2>4. Shrinks(noted, h)
    BY <1>4, <2>1, <2>3, ShrinkSteps DEF Shrinks
  <2> HIDE DEF h
  <2>5. Shrinks(g, h)
    BY <1>4, <1>5, <2>2, <2>3, <2>4, ShrinksOn DEF Shrinks
  <2>6. Shrunk(o2)
    BY <2>5 DEF Shrunk, ProviderStart
  <2> HIDE DEF o2
  <2> QED BY <1>2, <1>8, <2>6, ShrunkKeeps
<1>9. CASE verdict = "Accept" /\ ProviderCommit(Bought(m))
  BY <1>1, <1>9, BoughtKeeps
<1> QED BY <1>1, <1>6, <1>7, <1>8, <1>9

-----------------------------------------------------------------------------
(* Connections, and the end of sessions. *)

(* An Offer revised. *)
LEMMA ReviseOfferKeeps ==
    ASSUME PeeringInv, ReviseOffer
    PROVE  PeeringInv' /\ AccountStep
<1> DEFINE m == Offer(~charging)
<1>1. /\ charging' \in BOOLEAN /\ (toB' = toB \/ toB' = toB \o <<m>>)
      /\ UNCHANGED <<now, due, link, toP, buyerVars, ps, g, kept, verifying, recorded>>
  BY BuyerFacts DEF ReviseOffer, Put, TypeOK
<1>2. m \in ToBuyer /\ NamedIn(m) = {}
  BY BuyerFacts DEF Offer, ToBuyer, NamedIn, TypeOK
<1> HIDE DEF m
<1>3. TakesHead /\ Usable \subseteq Usable'
  BY <1>1 DEF TakesHead, Usable, buyerVars
<1>4. /\ toB' \in Seq(ToBuyer)
      /\ \A i \in DOMAIN toB' : NamedIn(toB'[i]) \subseteq Usable'
  BY <1>1, <1>2, <1>3, SaidKeeps
<1>5. SellerAside
  <2>1. g' \in GrantState /\ GrantSound(g') /\ g'.open \subseteq Usable'
    BY <1>1, <1>3, BuyerFacts DEF Typed, UsableOnly
  <2>2. /\ kept' \in Budget /\ recorded' \in [Channels -> U64]
        /\ ps' \in {"none", "peers", "parked"}
        /\ \A c \in Channels : recorded'[c] <= signedOn[c]
        /\ \A c \in g'.open : g'.signed[c] = recorded'[c]
    BY <1>1, BuyerFacts DEF TypeOK, Backed
  <2> QED BY <1>1, <1>3, <1>4, <2>1, <2>2 DEF SellerAside
<1>6. BuyerAside
  BY <1>1, BuyerUnmoved
<1>7. now' \in 0 .. MAX_NOW /\ link' \in BOOLEAN /\ due' \subseteq {"buyer", "provider"}
  BY <1>1, BuyerFacts DEF TypeOK
<1>8. AccountStep
  BY <1>1, UnseenStep DEF buyerVars
<1> QED BY <1>5, <1>6, <1>7, <1>8, AsideKeeps

(* The provider's grant replaced by one that shrinks it, with no message kept. *)
LEMMA ReplacedGrant ==
    ASSUME PeeringInv, UNCHANGED <<funded, reclaimed>>, UNCHANGED recorded, TakesHead,
           g' \in GrantState, GrantSound(g'), g'.open \subseteq g.open,
           \A c \in g'.open : g'.signed[c] = g.signed[c],
           kept' \in Budget, ps' \in {"none", "peers", "parked"}, charging' \in BOOLEAN,
           HearsHead
    PROVE  SellerAside
<1>1. Typed /\ Announced /\ UsableOnly /\ Backed /\ TypeOK
  BY BuyerFacts
<1>2. Usable \subseteq Usable'
  BY <1>1, TakenKeeps
<1>3. /\ toB' \in Seq(ToBuyer)
      /\ \A i \in DOMAIN toB' : \E j \in DOMAIN toB : toB'[i] = toB[j]
  BY <1>1, HeardKeeps
<1>4. \A i \in DOMAIN toB' : NamedIn(toB'[i]) \subseteq Usable'
  BY <1>1, <1>2, <1>3 DEF UsableOnly
<1>5. g'.open \subseteq Usable' /\ recorded' \in [Channels -> U64]
  BY <1>1, <1>2 DEF UsableOnly, TypeOK
<1>6. /\ \A c \in Channels : recorded'[c] <= signedOn[c]
      /\ \A c \in g'.open : g'.signed[c] = recorded'[c]
  BY <1>1 DEF Backed
<1> QED BY <1>3, <1>4, <1>5, <1>6 DEF SellerAside

(* The provider's end down. *)
LEMMA ProviderDownKeeps ==
    ASSUME PeeringInv, ProviderDown
    PROVE  PeeringInv' /\ AccountStep
<1> DEFINE h == EndReservation(g)
           o == Keep([ProviderStart EXCEPT !.g = h])
<1>1. /\ ps = "peers" /\ ps' = "parked" /\ g' = o.g /\ kept' = o.kept
      /\ UNCHANGED <<now, due, link, toP, toB, buyerVars, charging, verifying, recorded>>
  <2>1. [ProviderStart EXCEPT !.g = EndReservation(@)] = [ProviderStart EXCEPT !.g = h]
    BY DEF ProviderStart
  <2> QED BY <2>1 DEF ProviderDown, ProviderInPeers
<1>2. Shrinks(g, h)
  <2>1. {} \in SUBSET Channels
    OBVIOUS
  <2> QED BY <2>1, SellerFacts, BuyerFacts, ShrinkSteps
<1> HIDE DEF h
<1>3. o.g = h /\ o.kept \in {kept, BudgetOf(h, now)}
  BY DEF Keep, ProviderStart
<1> HIDE DEF o
<1>4. /\ g' = h /\ kept' \in {kept, BudgetOf(h, now)} /\ h \in GrantState /\ GrantSound(h)
      /\ Dwindles(g, h) /\ h.open \subseteq g.open /\ \A c \in h.open : h.signed[c] = g.signed[c]
  BY <1>1, <1>2, <1>3 DEF Shrinks
<1>5. kept' \in Budget /\ charging' \in BOOLEAN
  BY <1>1, <1>4, SellerFacts, BuyerFacts, BudgetType DEF TypeOK
<1>6. TakesHead /\ HearsHead /\ UNCHANGED <<funded, reclaimed, signedOn>>
  BY <1>1 DEF TakesHead, HearsHead, buyerVars
<1>7. SellerAside
  BY <1>1, <1>4, <1>5, <1>6, ReplacedGrant
<1>8. BuyerAside
  BY <1>1, BuyerUnmoved
<1>9. now' \in 0 .. MAX_NOW /\ link' \in BOOLEAN /\ due' \subseteq {"buyer", "provider"}
  BY <1>1, BuyerFacts DEF TypeOK
<1>10. PeeringInv'
  BY <1>7, <1>8, <1>9, AsideKeeps
<1>11. ps # "none" /\ ps' # "none" /\ Dwindles(g, g') /\ kept' \in {kept, NoBudget, BudgetOf(g', now)}
  BY <1>1, <1>4
<1> QED BY <1>1, <1>6, <1>10, <1>11, SellingStep

(* The provider's session let go, or lost: what was saved is what is left. *)
LEMMA ProviderLostKeeps ==
    ASSUME PeeringInv, ProviderGraceOver \/ ProviderCrash
    PROVE  PeeringInv' /\ AccountStep
<1>1. /\ ps' = "none" /\ g' = NewGrant /\ verifying' \subseteq verifying /\ link' \in BOOLEAN
      /\ toP' = toP \/ toP' = <<>>
      /\ toB' = toB \/ toB' = <<>>
      /\ UNCHANGED <<now, due, buyerVars, charging, kept, recorded>>
  BY BuyerFacts DEF ProviderGraceOver, ProviderCrash, TypeOK
<1>2. TakesHead /\ HearsHead /\ UNCHANGED <<funded, reclaimed, signedOn>>
  BY <1>1 DEF TakesHead, HearsHead, buyerVars
<1>3. NewGrant \in GrantState /\ GrantSound(NewGrant) /\ NewGrant.open = {}
  BY NewGrantSound
<1>4. kept' \in Budget /\ charging' \in BOOLEAN
  BY <1>1, BuyerFacts DEF TypeOK
<1>5. SellerAside
  BY <1>1, <1>2, <1>3, <1>4, ReplacedGrant
<1>6. BuyerAside
  BY <1>1, BuyerUnmoved
<1>7. now' \in 0 .. MAX_NOW /\ due' \subseteq {"buyer", "provider"}
  BY <1>1, BuyerFacts DEF TypeOK
<1>8. PeeringInv'
  BY <1>1, <1>5, <1>6, <1>7, AsideKeeps
<1>9. AccountStep
  <2>1. Typed /\ Typed' /\ BudgetAt(kept, now).remaining \in Nat
    BY <1>8, BuyerFacts, LeftType DEF PeeringInv
  <2>2. BudgetAt(kept, now)' = BudgetAt(kept, now)
    BY <1>1
  <2>3. LeftWith' = BudgetAt(kept, now).remaining
    BY <1>1 DEF LeftWith
  <2> QED BY <1>1, <1>2, <2>1, <2>2, <2>3, RecoveringStep
<1> QED BY <1>8, <1>9

(* Time passes: budgets run out. *)
LEMMA ElapseKeeps ==
    ASSUME PeeringInv, Elapse
    PROVE  PeeringInv' /\ AccountStep
<1>1. /\ now' = Least(now + 1, MAX_NOW) /\ due' = {"buyer", "provider"}
      /\ UNCHANGED <<link, toP, toB, buyerVars, providerVars>>
  BY DEF Elapse
<1>2. MAX_NOW \in Nat /\ now \in 0 .. MAX_NOW /\ MAX_NOW \in U64
  BY BuyerFacts, PeeringAssumption, WidthNat DEF TypeOK
<1>3. now' \in 0 .. MAX_NOW /\ now <= now'
  BY <1>1, <1>2 DEF Least
<1>4. HearsHead /\ UNCHANGED <<funded, reclaimed, signedOn, ps, g, kept, recorded>>
  BY <1>1 DEF HearsHead, buyerVars, providerVars
<1>5. SellerAside /\ BuyerAside
  BY <1>1, <1>4, BuyerUnmoved, SellerUnmoved
<1>6. link' \in BOOLEAN
  BY <1>1, BuyerFacts DEF TypeOK
<1>7. PeeringInv'
  BY <1>1, <1>3, <1>5, <1>6, AsideKeeps
<1> DEFINE t == now'
<1>8. t \in U64 /\ now \in U64 /\ now <= t
  BY <1>2, <1>3, WidthAssumption DEF U64
<1>9. /\ BudgetAt(kept, now)' = BudgetAt(kept, t)
      /\ LeftWith' = IF ps = "none" THEN BudgetAt(kept, t).remaining ELSE BudgetOf(g, t).remaining
  BY <1>4 DEF LeftWith
<1> HIDE DEF t
<1>10. /\ BudgetOf(g, t).remaining <= BudgetOf(g, now).remaining
       /\ BudgetAt(kept, t).remaining <= BudgetAt(kept, now).remaining
  BY <1>8, SellerFacts, BudgetLater
<1>11. /\ LeftWith' <= LeftWith
       /\ BudgetAt(kept, now)'.remaining <= BudgetAt(kept, now).remaining
  BY <1>9, <1>10 DEF LeftWith
<1>12. Typed /\ Typed'
  BY <1>7, BuyerFacts DEF PeeringInv
<1>13. AccountStep
  BY <1>4, <1>11, <1>12, UsingStep
<1> QED BY <1>7, <1>13

(* What the provider says of the channels it still holds. *)
LEMMA HeldAnnounced ==
    ASSUME NEW S \in SUBSET Channels, NEW order \in SetToSeqs(S),
           NEW q, q = [i \in DOMAIN order |-> [type |-> "ChannelReady", channel |-> order[i]]]
    PROVE  q \in Seq(ToBuyer) /\ \A i \in DOMAIN q : NamedIn(q[i]) \subseteq S
<1>1. IsFiniteSet(S)
  BY ChannelAssumption, FS_Subset
<1>2. Cardinality(S) \in Nat
  BY <1>1, FS_CardinalityType
<1>3. order \in [1 .. Cardinality(S) -> S]
  BY DEF SetToSeqs
<1>4. \A i \in 1 .. Cardinality(S) : q[i] \in ToBuyer /\ NamedIn(q[i]) \subseteq S
  BY <1>3 DEF ToBuyer, NamedIn
<1>5. DOMAIN q = 1 .. Cardinality(S) /\ q = [i \in 1 .. Cardinality(S) |-> q[i]]
  BY <1>3
<1>6. q \in [1 .. Cardinality(S) -> ToBuyer]
  BY <1>4, <1>5
<1>7. q \in Seq(ToBuyer)
  BY <1>2, <1>6
<1> QED BY <1>4, <1>5, <1>7

(* Both ends start over what each kept. *)
LEMMA ConnectKeeps ==
    ASSUME PeeringInv, Connect
    PROVE  PeeringInv' /\ AccountStep
<1> DEFINE fresh     == Restore(NewGrant, kept, now)
           restarted == IF ps # "none" THEN Restart(g, now) ELSE fresh
           going     == ExpiringChannels(restarted, now, SettleLead)
           held      == CloseChannels(restarted, going)
           o         == [ProviderStart EXCEPT !.g = held]
           offer     == Offer(charging)
           bal       == Balance(o)
           last      == IF charging THEN <<bal>> ELSE <<>>
<1>1. /\ bs' = [NoBuyerSession EXCEPT !.phase = "open"]
      /\ b' = (IF bs.phase = "none" THEN NewBuyer ELSE BuyerRestart(b))
      /\ ps' = "peers" /\ g' = held /\ toP' = <<>> /\ link' = TRUE
      /\ UNCHANGED <<now, due, policy, requests, next_request, funded, reclaimed,
                     signedOn, charging, kept, verifying, recorded>>
  BY DEF Connect
<1>2. PICK order \in SetToSeqs(held.open) :
         toB' = [i \in DOMAIN order |-> [type |-> "ChannelReady", channel |-> order[i]]]
                \o <<offer>> \o last
  BY DEF Connect
<1>3. /\ Typed /\ Announced /\ UsableOnly /\ Backed /\ TypeOK
      /\ b \in BuyerState /\ SoundBuyer(b, next_request) /\ BuyerIds(b) \subseteq Usable
      /\ now \in U64 /\ g \in GrantState /\ GrantSound(g) /\ kept \in Budget
      /\ charging \in BOOLEAN
  BY BuyerFacts, SellerFacts DEF TypeOK
<1>4. /\ restarted \in GrantState /\ GrantSound(restarted)
      /\ restarted.open \subseteq g.open
      /\ \A c \in restarted.open : restarted.signed[c] = g.signed[c]
      /\ BudgetOf(restarted, now).remaining <= LeftWith
  <2>1. CASE ps # "none"
    <3>1. Shrinks(g, Restart(g, now))
      <4>1. {} \in SUBSET Channels
        OBVIOUS
      <4> QED BY <1>3, <4>1, ShrinkSteps
    <3>2. restarted = Restart(g, now) /\ LeftWith = BudgetOf(g, now).remaining
      BY <2>1 DEF LeftWith
    <3> HIDE DEF restarted
    <3>3. restarted \in GrantState /\ Dwindles(g, restarted)
      BY <3>1, <3>2 DEF Shrinks
    <3>4. BudgetOf(restarted, now).remaining <= BudgetOf(g, now).remaining
      BY <1>3, <3>3, BudgetDwindles
    <3> QED BY <3>1, <3>2, <3>4 DEF Shrinks
  <2>2. CASE ps = "none"
    <3>1. /\ NewGrant \in GrantState /\ NewGrant.open = {}
      BY NewGrantSound
    <3>2. /\ fresh \in GrantState /\ GrantSound(fresh) /\ fresh.open = {}
      BY <1>3, <3>1, RestoreSound
    <3>3. BudgetOf(fresh, now) = BudgetAt(kept, now)
      BY <1>3, <3>1, RestoreHolds
    <3>4. LeftWith = BudgetAt(kept, now).remaining /\ LeftWith \in Nat /\ restarted = fresh
      BY <1>3, <2>2, LeftType DEF LeftWith
    <3> HIDE DEF restarted, fresh
    <3> QED BY <3>2, <3>3, <3>4
  <2> QED BY <2>1, <2>2
<1> HIDE DEF restarted
<1>5. going \in SUBSET Channels
  BY <1>4 DEF ExpiringChannels, GrantState
<1> HIDE DEF going
<1>6. Shrinks(restarted, held)
  BY <1>3, <1>4, <1>5, ShrinkSteps
<1> HIDE DEF held
<1>7. /\ held \in GrantState /\ GrantSound(held) /\ held.open \subseteq g.open
      /\ \A c \in held.open : held.signed[c] = g.signed[c]
      /\ BudgetOf(held, now).remaining <= LeftWith
  <2>1. held \in GrantState /\ Dwindles(restarted, held)
    BY <1>6 DEF Shrinks
  <2>2. BudgetOf(held, now).remaining <= BudgetOf(restarted, now).remaining
    BY <1>3, <1>4, <2>1, BudgetDwindles
  <2>3. /\ BudgetOf(held, now).remaining \in Nat /\ BudgetOf(restarted, now).remaining \in Nat
        /\ LeftWith \in Nat
    BY <1>3, <1>4, <2>1, BudgetType, WidthNat, LeftType DEF Budget
  <2>4. BudgetOf(held, now).remaining <= LeftWith
    BY <1>4, <2>2, <2>3
  <2> QED BY <1>4, <1>6, <2>4 DEF Shrinks
<1>8. offer \in ToBuyer /\ NamedIn(offer) = {}
  BY <1>3 DEF Offer, ToBuyer, NamedIn
<1>9. bal \in ToBuyer /\ NamedIn(bal) = {}
  <2>1. o.g = held
    BY DEF ProviderStart
  <2>2. BudgetOf(held, now).remaining \in U64 /\ SatSub(held.deadline, now) \in U64
    <3>1. BudgetOf(held, now) \in Budget /\ held.deadline \in U64
      BY <1>3, <1>7, BudgetType DEF GrantState
    <3> QED BY <1>3, <3>1, WidthAssumption DEF Budget, SatSub, U64
  <2> HIDE DEF o
  <2>3. bal = [type |-> "Balance", remaining |-> BudgetOf(held, now).remaining,
               expires_in |-> SatSub(held.deadline, now)]
    BY <2>1 DEF Balance
  <2> HIDE DEF bal
  <2> QED BY <2>2, <2>3 DEF ToBuyer, NamedIn
<1> HIDE DEF offer, bal
<1> DEFINE q == [i \in DOMAIN order |-> [type |-> "ChannelReady", channel |-> order[i]]]
           r == q \o <<offer>>
           s == toB'
<1>10. s \in Seq(ToBuyer) /\ \A i \in DOMAIN s : NamedIn(s[i]) \subseteq held.open
  <2>1. held.open \in SUBSET Channels
    BY <1>7 DEF GrantState
  <2>2. q \in Seq(ToBuyer) /\ \A i \in DOMAIN q : NamedIn(q[i]) \subseteq held.open
    BY <1>2, <2>1, HeldAnnounced
  <2>3. s = r \o last
    BY <1>2
  <2> HIDE DEF q, s
  <2>4. /\ r \in Seq(ToBuyer) /\ \A i \in DOMAIN q : r[i] = q[i]
        /\ \A i \in DOMAIN r : i \in DOMAIN q \/ r[i] = offer
    BY <1>8, <2>2, Enqueued
  <2> HIDE DEF r
  <2>5. \A i \in DOMAIN r : NamedIn(r[i]) \subseteq held.open
    BY <1>8, <2>2, <2>4
  <2>6. CASE charging
    <3>1. s = r \o <<bal>>
      BY <2>3, <2>6
    <3>2. /\ s \in Seq(ToBuyer) /\ \A i \in DOMAIN r : s[i] = r[i]
          /\ \A i \in DOMAIN s : i \in DOMAIN r \/ s[i] = bal
      BY <1>9, <2>4, <3>1, Enqueued
    <3> QED BY <1>9, <2>5, <3>2
  <2>7. CASE ~charging
    <3>1. s = r
      BY <2>3, <2>4, <2>7
    <3> QED BY <2>4, <2>5, <3>1
  <2> QED BY <2>6, <2>7
<1>11. TakesHead
  BY <1>1 DEF TakesHead
<1>12. Usable \subseteq Usable'
  BY <1>1, <1>3, <1>11, TakenKeeps
<1>13. SellerAside
  <2>1. g' \in GrantState /\ GrantSound(g') /\ g'.open \subseteq Usable'
    BY <1>1, <1>3, <1>7, <1>12 DEF UsableOnly
  <2>2. toB' \in Seq(ToBuyer) /\ \A i \in DOMAIN toB' : NamedIn(toB'[i]) \subseteq Usable'
    BY <1>1, <1>10, <2>1
  <2>3. /\ kept' \in Budget /\ recorded' \in [Channels -> U64] /\ charging' \in BOOLEAN
        /\ \A c \in Channels : recorded'[c] <= signedOn[c]
        /\ \A c \in g'.open : g'.signed[c] = recorded'[c]
    BY <1>1, <1>3, <1>7 DEF TypeOK, Backed
  <2> QED BY <1>1, <1>11, <2>1, <2>2, <2>3 DEF SellerAside
<1>14. BuyerAside
  <2>1. SoundBuyer(NewBuyer, next_request) /\ BuyerIds(NewBuyer) = {}
    BY <1>3, StartOverSound
  <2>2. SoundBuyer(BuyerRestart(b), next_request) /\ BuyerIds(BuyerRestart(b)) \subseteq Usable
    BY <1>3, BuyerRestartSound, SucceedsOn DEF Succeeds
  <2>3. [NoBuyerSession EXCEPT !.phase = "open"] \in BuyerSession
    BY WidthNat DEF NoBuyerSession, BuyerSession
  <2> QED BY <1>1, <1>3, <2>1, <2>2, <2>3 DEF BuyerAside, TypeOK
<1>15. now' \in 0 .. MAX_NOW /\ link' \in BOOLEAN /\ due' \subseteq {"buyer", "provider"}
  BY <1>1, <1>3 DEF TypeOK
<1>16. PeeringInv'
  BY <1>13, <1>14, <1>15, AsideKeeps
<1>17. AccountStep
  <2>1. Typed' /\ LeftWith' = BudgetOf(held, now).remaining
    BY <1>1, <1>16 DEF PeeringInv, LeftWith
  <2>2. BudgetAt(kept, now)' = BudgetAt(kept, now) /\ BudgetAt(kept, now).remaining \in Nat
    BY <1>1, <1>3, LeftType
  <2> QED BY <1>1, <1>3, <1>7, <2>1, <2>2, UsingStep
<1> QED BY <1>16, <1>17

-----------------------------------------------------------------------------
(* The invariant, and what follows from it. *)

(* A session neither end has started. *)
LEMMA InitKeeps == Init => PeeringInv /\ Acct!Init
<1> SUFFICES ASSUME Init PROVE PeeringInv /\ Acct!Init
  OBVIOUS
<1> DEFINE zero == [c \in Channels |-> 0]
<1>1. zero \in [Channels -> U64] /\ signedOn = zero /\ recorded = zero
  BY WidthNat DEF Init
<1>2. DOMAIN toP = {} /\ DOMAIN toB = {} /\ toP \in Seq(ToProvider) /\ toB \in Seq(ToBuyer)
  BY DEF Init
<1>3. NewGrant \in GrantState /\ GrantSound(NewGrant) /\ NewGrant.open = {} /\ g = NewGrant
  BY NewGrantSound DEF Init
<1>4. NoBudget \in Budget
  BY WidthNat DEF NoBudget, Budget
<1>5. NewBuyer \in BuyerState
  BY WidthNat DEF NewBuyer, BuyerState
<1>6. SoundBuyer(b, next_request) /\ BuyerIds(b) = {} /\ b = NewBuyer
  BY <1>5, StartOverSound DEF Init
<1>7. Typed
  <2>1. /\ {b.active, b.next, b.pending} \subseteq ChannelBuyer \cup {None}
        /\ b.funding # None => b.funding \in FundingRequests /\ b.funding.first <= b.funding.latest
    BY <1>5, <1>6 DEF BuyerState, SoundBuyer
  <2>2. NoBuyerSession \in BuyerSession /\ 0 \in 0 .. MAX_NOW
    BY PeeringAssumption, WidthAssumption DEF NoBuyerSession, BuyerSession, U64
  <2>3. TypeOK
    BY <1>1, <1>3, <1>4, <2>1, <2>2 DEF Init, TypeOK
  <2> QED BY <1>2, <1>3, <1>6, <2>3 DEF Init, Typed
<1>8. Announced
  BY <1>2 DEF Init, Announced
<1>9. \A c \in Channels : signedOn[c] = 0 /\ recorded[c] = 0
  BY <1>1
<1>10. UsableOnly
  BY <1>2, <1>3, <1>6, <1>9 DEF UsableOnly
<1>11. Backed
  BY <1>2, <1>3, <1>9 DEF Backed
<1>12. TotalOver(zero) = 0
  <2>1. /\ zero \in [Channels -> Nat] /\ IsFiniteSet(Channels) /\ IsFiniteSet({})
        /\ {} \in SUBSET Channels /\ Channels \in SUBSET Channels
        /\ \A c \in Channels : zero[c] = 0
    BY ChannelAssumption, FS_EmptySet
  <2> HIDE DEF zero
  <2>2. SumOver(zero, Channels) <= SumOver(zero, {})
    BY <2>1, SumMonotone
  <2>3. SumOver(zero, Channels) \in Nat /\ SumOver(zero, {}) = 0
    BY <2>1, SumType
  <2> QED BY <2>2, <2>3 DEF TotalOver
<1>13. BudgetAt(kept, now).remaining = 0 /\ LeftWith = 0
  BY DEF Init, LeftWith, BudgetAt, NoBudget
<1>14. Acct!Init
  BY <1>1, <1>12, <1>13 DEF Acct!Init
<1> QED BY <1>7, <1>8, <1>10, <1>11, <1>14 DEF PeeringInv

(* Every step keeps the invariant, and is a step of the account or one it does *)
(* not see.                                                                    *)
LEMMA NextKeeps == PeeringInv /\ [Next]_vars => PeeringInv' /\ AccountStep
<1> SUFFICES ASSUME PeeringInv, [Next]_vars PROVE PeeringInv' /\ AccountStep
  OBVIOUS
<1>1. CASE BuyerReceives
  BY <1>1, RecvOfferKeeps, RecvChannelReadyKeeps, RecvRolloverReadyKeeps,
     RecvTopUpRejectKeeps, RecvBalanceKeeps DEF BuyerReceives
<1>2. CASE ProviderReceives
  BY <1>2, AnnouncementsKeep, RecvTopUpKeeps DEF ProviderReceives
<1>3. CASE Ticks
  <2>1. Moves \subseteq U64
    BY PeeringAssumption, WidthAssumption DEF Moves, U64
  <2> QED BY <1>3, <2>1, BuyerTickKeeps, ProviderTickKeeps DEF Ticks
<1>4. CASE HostStep
  BY <1>4, FundAnsweredKeeps, VerifiedKeeps DEF HostStep
<1>5. CASE Connect
  BY <1>5, ConnectKeeps
<1>6. CASE Elapse
  BY <1>6, ElapseKeeps
<1>7. CASE Environment
  BY <1>7, DemandObservedKeeps, BuyerAloneKeeps, ReviseOfferKeeps, CutKeeps,
     ProviderDownKeeps, ProviderLostKeeps DEF Environment
<1>8. CASE UNCHANGED vars
  <2>1. UNCHANGED <<now, due, link, toP, toB, buyerVars, providerVars>>
    BY <1>8 DEF vars
  <2>2. HearsHead /\ BuyerAside /\ link' \in BOOLEAN
    BY <2>1, BuyerFacts, BuyerUnmoved DEF HearsHead, TypeOK
  <2> QED BY <2>1, <2>2, BuyerAsideKeeps
<1> QED BY <1>1, <1>2, <1>3, <1>4, <1>5, <1>6, <1>7, <1>8 DEF Next

(* However often requests time out, fail or are answered late, no channel awaits *)
(* confirmation while a funding request is open, so what comes back displaces    *)
(* none the peer has been sent; and every variable has its type (rollover_due,   *)
(* poll_opening, funded, answers).                                               *)
THEOREM FundsOneAtATime == Spec => []OneFunding
<1>1. Init => PeeringInv
  BY InitKeeps
<1>2. PeeringInv /\ [Next]_vars => PeeringInv'
  BY NextKeeps
<1>3. PeeringInv => OneFunding
  BY DEF PeeringInv, Typed, SoundBuyer, OneFunding
<1> QED BY <1>1, <1>2, <1>3, PTL DEF Spec

(* Nothing is signed on a channel whose funding the provider is still checking, *)
(* or that was handed back, whatever is lost, late or out of order (poll and    *)
(* confirmed in buyer/, ReclaimChannel in Sessions::handle).                    *)
THEOREM SignsOnConfirmedOnly == Spec => []SignedOnConfirmed
<1>1. Init => PeeringInv
  BY InitKeeps
<1>2. PeeringInv /\ [Next]_vars => PeeringInv'
  BY NextKeeps
<1>3. PeeringInv => SignedOnConfirmed
  BY DEF PeeringInv, UsableOnly, Usable, SignedOnConfirmed
<1> QED BY <1>1, <1>2, <1>3, PTL DEF Spec

(* The two ends, with their channels, losses, returns and crashes, implement the *)
(* account: the provider credits no more than was signed for, and what is left   *)
(* to use grows only by a credit, or goes back to what was saved.                *)
THEOREM TwoEndsKeepAccount == Spec => ImplementsAccount
<1>1. Init => PeeringInv /\ Acct!Init
  BY InitKeeps
<1>2. PeeringInv /\ [Next]_vars => PeeringInv' /\ [Acct!Next]_(Acct!vars)
  BY NextKeeps DEF AccountStep
<1> QED BY <1>1, <1>2, PTL DEF Spec, ImplementsAccount, Acct!Spec
==============================================================================
