---------------------------- MODULE ProviderProofs ----------------------------
(***************************************************************************)
(* Proofs about Provider, for every number of payers and channels, every   *)
(* width, clock bound and policy.                                          *)
(*                                                                         *)
(* A handler is a chain of operators on the outcome of one payer, so each  *)
(* operator has a lemma: it keeps an outcome sound, and it follows from    *)
(* the one before, closing no channel without settling it.  Committing     *)
(* outcomes that are good in this sense preserves the invariant, and each  *)
(* action is shown to commit good outcomes.                                *)
(***************************************************************************)
EXTENDS Provider, GrantProofs

\* An outcome whose parts have their types, whose budget is sound, and which
\* reserves and draws only in a live session.
SoundOutcome(o) ==
    /\ o \in Outcome
    /\ GrantSound(o.s.grant)
    /\ o.s.place # "peers" => o.s.grant.reserved = 0 /\ o.s.grant.second = None
    /\ o.s.place = "none" => o.s.grant.open = {}

\* What a payer could still spend by an outcome: Held, of the outcome.
HeldOf(o) ==
    IF o.s.place = "none" THEN BudgetAt(o.kept, now).remaining
    ELSE BudgetOf(o.s.grant, now).remaining

\* The host and the enforcer hold a peer only while its session is live.
Tied(o) == o.s.linked => o.s.place = "peers" /\ ~o.s.closing

\* A peer we charge, and what the host keeps for it: at least the budget of a
\* live session, and exactly that of a session held.
Charged(o) == o.s.policy # "no_charge"
Even(o)    == BudgetAt(o.kept, now) = BudgetOf(o.s.grant, now)
Saved(o) ==
    /\ o.s.place = "peers" => CoversAt(o.kept, o.s.grant, now)
    /\ o.s.place = "parked" => Even(o)

\* A node that charges every peer, to which none is back before it has gone.
Accountable == "no_charge" \notin Overrides /\ Overlap = FALSE

\* A connected payer reserves what it did, or nothing.
ReservesLess(o, q) ==
    q.s.linked => \/ q.s.grant.reserved = 0
                  \/ o.s.linked /\ q.s.grant.reserved = o.s.grant.reserved

\* q gives the payer nothing that o did not.
Keeps(o, q) ==
    /\ HeldOf(o) \in Nat /\ HeldOf(q) \in Nat
    /\ Tied(o) => Tied(q)
    /\ ReservesLess(o, q)
    /\ Accountable /\ Charged(o) /\ Saved(o) =>
          Charged(q) /\ Saved(q) /\ HeldOf(q) <= HeldOf(o)

\* q comes after o: it recognises no further channel, leaves the ratchets of
\* those it still recognises alone, settles the others and nothing else, and
\* gives the payer nothing.
Follows(o, q) ==
    /\ q.s.grant.open \subseteq o.s.grant.open
    /\ \A c \in q.s.grant.open : q.s.grant.signed[c] = o.s.grant.signed[c]
    /\ o.settle \subseteq q.settle
    /\ o.s.grant.open \subseteq q.s.grant.open \cup q.settle
    /\ q.settle \subseteq o.settle \cup (o.s.grant.open \ q.s.grant.open)
    /\ Keeps(o, q)

\* The two differ in the grant at most, and in what was heard from the peer.
SameTerms(o, q) ==
    /\ q.kept = o.kept
    /\ q.s.place = o.s.place /\ q.s.closing = o.s.closing /\ q.s.linked = o.s.linked
    /\ q.s.policy = o.s.policy /\ q.s.access = o.s.access /\ q.s.applied = o.s.applied

\* A live budget is not gated, and what is charged is shaped within its budget.
Gated(o) ==
    o.s.place = "peers" /\ ~o.s.closing =>
        /\ IsLive(o.s.grant, now) => o.s.access # "None"
        /\ o.s.access = "Free" <=> o.s.policy = "no_charge"
        /\ o.s.access # "Free" =>
              units_in(o.s.applied, TICK) <=
                  Greatest(Remaining(o.s.grant), units_in(MINIMUM_FLOW, TICK))

\* What an outcome recognises is payer p's, and paid as `rec` says.
Booked(p, o, rec) ==
    \A c \in o.s.grant.open :
        Owner[c] = p /\ o.s.grant.signed[c] = rec[c] /\ rec[c] < Capacity[c]

-----------------------------------------------------------------------------
(* What an outcome is worth to the payer is a number of units. *)
LEMMA HeldType ==
    ASSUME NEW o, SoundOutcome(o)
    PROVE  HeldOf(o) \in Nat
<1>1. o.s.grant \in GrantState /\ o.kept \in Budget
  BY DEF SoundOutcome, Outcome, Session
<1>2. BudgetAt(o.kept, now) \in Budget /\ BudgetOf(o.s.grant, now) \in Budget
  BY <1>1, BudgetType
<1> QED BY <1>2, WidthNat DEF HeldOf, Budget

(* Giving nothing is transitive. *)
LEMMA KeepsOn ==
    ASSUME NEW o, NEW q, NEW r, Keeps(o, q), Keeps(q, r)
    PROVE  Keeps(o, r)
<1>1. ReservesLess(o, r)
  BY DEF Keeps, ReservesLess
<1> QED BY <1>1 DEF Keeps

(* So is following: what comes after what comes after. *)
LEMMA FollowsOn ==
    ASSUME NEW o, NEW q, NEW r, Follows(o, q), Follows(q, r)
    PROVE  Follows(o, r)
<1>1. Keeps(o, r)
  BY KeepsOn DEF Follows
<1> QED BY <1>1 DEF Follows

(* A change that leaves the budget and what is kept of it as they are. *)
LEMMA KeepsSame ==
    ASSUME NEW o, NEW q, SoundOutcome(o), SoundOutcome(q),
           q.s.place = o.s.place, q.kept = o.kept,
           SameBudget(o.s.grant, q.s.grant), q.s.grant.reserved = o.s.grant.reserved,
           q.s.linked => o.s.linked /\ (~o.s.closing => ~q.s.closing),
           q.s.policy = o.s.policy \/ (Accountable => Charged(q))
    PROVE  Keeps(o, q)
<1>1. HeldOf(o) \in Nat /\ HeldOf(q) \in Nat
  BY HeldType
<1>2. BudgetOf(q.s.grant, now) = BudgetOf(o.s.grant, now)
  BY DEF SameBudget, BudgetOf
<1>3. HeldOf(q) = HeldOf(o) /\ (Saved(o) => Saved(q))
  BY <1>2 DEF HeldOf, Saved, Even, CoversAt
<1>4. Accountable /\ Charged(o) => Charged(q)
  BY DEF Charged
<1> QED BY <1>1, <1>3, <1>4 DEF Keeps, Tied, ReservesLess

(* A live session whose budget dwindles. *)
LEMMA KeepsDrawn ==
    ASSUME NEW o, NEW q, SoundOutcome(o), SoundOutcome(q), now \in U64,
           o.s.place = "peers", SameTerms(o, q), Dwindles(o.s.grant, q.s.grant)
    PROVE  Keeps(o, q)
<1>1. HeldOf(o) \in Nat /\ HeldOf(q) \in Nat
  BY HeldType
<1>2. o.s.grant \in GrantState /\ q.s.grant \in GrantState /\ o.kept \in Budget
  BY DEF SoundOutcome, Outcome, Session
<1>3. HeldOf(q) <= HeldOf(o)
  BY <1>2, BudgetDwindles DEF HeldOf, SameTerms
<1>4. Saved(o) => Saved(q)
  BY <1>2, CoversDwindled DEF Saved, SameTerms
<1>5. ReservesLess(o, q)
  BY DEF ReservesLess, SameTerms, Dwindles
<1>6. (Tied(o) => Tied(q)) /\ (Charged(o) => Charged(q))
  BY DEF Tied, Charged, SameTerms
<1> QED BY <1>1, <1>3, <1>4, <1>5, <1>6 DEF Keeps

(* Books that are in order stay so in what follows. *)
LEMMA FollowsBooked ==
    ASSUME NEW p, NEW o, NEW q, NEW rec, Follows(o, q), Booked(p, o, rec)
    PROVE  Booked(p, q, rec)
BY DEF Follows, Booked

(* A change to the session that leaves its grant, its place and what is kept. *)
LEMMA FollowsSame ==
    ASSUME NEW o, NEW q, SoundOutcome(o), SoundOutcome(q),
           q.s.grant = o.s.grant, q.settle = o.settle,
           q.s.place = o.s.place, q.kept = o.kept,
           q.s.linked => o.s.linked /\ (~o.s.closing => ~q.s.closing),
           q.s.policy = o.s.policy \/ (Accountable => Charged(q))
    PROVE  Follows(o, q)
<1>1. SameBudget(o.s.grant, q.s.grant)
  BY DEF SameBudget
<1>2. Keeps(o, q)
  BY <1>1, KeepsSame
<1> QED BY <1>2 DEF Follows

(* Nothing done. *)
LEMMA FollowsNothing ==
    ASSUME NEW o, SoundOutcome(o)
    PROVE  Follows(o, o)
BY FollowsSame

(* A session can be given another sound grant. *)
LEMMA RegrantSound ==
    ASSUME NEW o \in Outcome, NEW g \in GrantState, GrantSound(g),
           o.s.place # "peers" => g.reserved = 0 /\ g.second = None,
           o.s.place = "none" => g.open = {}
    PROVE  /\ SoundOutcome([o EXCEPT !.s.grant = g])
           /\ [o EXCEPT !.s.grant = g].s.grant = g
           /\ [o EXCEPT !.s.grant = g].s.place = o.s.place
           /\ [o EXCEPT !.s.grant = g].settle = o.settle
           /\ SameTerms(o, [o EXCEPT !.s.grant = g])
<1> DEFINE q == [o EXCEPT !.s.grant = g]
<1>1. o.s \in Session /\ o.kept \in Budget /\ o.settle \in SUBSET Channels
  BY DEF Outcome
<1>2. /\ q = [s |-> [o.s EXCEPT !.grant = g], kept |-> o.kept, settle |-> o.settle]
  BY DEF Outcome
<1>3. [o.s EXCEPT !.grant = g] \in Session
  BY <1>1 DEF Session
<1>4. q.s.grant = g /\ q.s.place = o.s.place
  BY <1>1, <1>2 DEF Session
<1>5. q \in Outcome /\ q.settle = o.settle
  BY <1>1, <1>2, <1>3 DEF Outcome
<1>6. SameTerms(o, q)
  BY <1>1, <1>2 DEF SameTerms, Session
<1> HIDE DEF q
<1>7. SoundOutcome(q)
  BY <1>4, <1>5 DEF SoundOutcome
<1> QED BY <1>4, <1>5, <1>6, <1>7 DEF q

(* save_budget keeps the session and writes what its budget is worth. *)
LEMMA SaveBudgetSound ==
    ASSUME NEW o, SoundOutcome(o), now \in U64, o.s.place # "none"
    PROVE  /\ SoundOutcome(SaveBudget(o))
           /\ SaveBudget(o).s = o.s
           /\ SaveBudget(o).settle = o.settle
           /\ Charged(o) => Even(SaveBudget(o))
           /\ Follows(o, SaveBudget(o))
<1>1. CASE o.s.policy = "no_charge"
  <2>1. SaveBudget(o) = o /\ ~Charged(o)
    BY <1>1 DEF SaveBudget, Charged
  <2> QED BY <2>1, FollowsNothing
<1>2. CASE o.s.policy # "no_charge"
  <2> DEFINE b == BudgetOf(o.s.grant, now)
             q == SaveBudget(o)
  <2>1. o \in Outcome /\ o.s \in Session /\ o.s.grant \in GrantState
    BY DEF SoundOutcome, Outcome, Session
  <2>2. b \in Budget /\ BudgetAt(b, now) = b
    <3>1. NoBudget \in Budget
      BY WidthNat DEF NoBudget, Budget
    <3> QED BY <2>1, <3>1, BudgetType, SavedIsWorth
  <2>3. q = [o EXCEPT !.kept = b]
    BY <1>2 DEF SaveBudget
  <2> HIDE DEF b, q
  <2>4. q \in Outcome /\ q.s = o.s /\ q.settle = o.settle /\ q.kept = b
    BY <2>1, <2>2, <2>3 DEF Outcome
  <2>5. SoundOutcome(q)
    BY <2>4 DEF SoundOutcome
  <2>6. Even(q)
    BY <2>2, <2>4 DEF Even, b
  <2>7. Saved(q)
    BY <2>1, <2>4, <2>6, EvenCovers DEF Saved, Even
  <2>8. HeldOf(q) = HeldOf(o) /\ HeldOf(o) \in Nat
    BY <2>4, HeldType DEF HeldOf
  <2>9. Keeps(o, q)
    BY <2>4, <2>7, <2>8 DEF Keeps, Tied, ReservesLess, Charged
  <2>10. Follows(o, q)
    BY <2>4, <2>9 DEF Follows
  <2> QED BY <2>4, <2>5, <2>6, <2>10 DEF q
<1> QED BY <1>1, <1>2

(* Channels handed to the settler are closed, and no others. *)
LEMMA SettleSound ==
    ASSUME NEW o, SoundOutcome(o), NEW cs \in SUBSET o.s.grant.open
    PROVE  /\ SoundOutcome(Settle(o, cs))
           /\ Follows(o, Settle(o, cs))
           /\ Settle(o, cs).s.grant.open = o.s.grant.open \ cs
           /\ SameTerms(o, Settle(o, cs))
           /\ SameBudget(o.s.grant, Settle(o, cs).s.grant)
<1> DEFINE g == CloseChannels(o.s.grant, cs)
           q == Settle(o, cs)
<1>1. /\ o \in Outcome /\ o.s \in Session /\ o.s.grant \in GrantState
      /\ o.settle \in SUBSET Channels /\ cs \in SUBSET Channels
  BY DEF SoundOutcome, Outcome, Session, GrantState
<1>2. /\ g \in GrantState /\ GrantSound(g)
      /\ g.reserved = o.s.grant.reserved /\ g.second = o.s.grant.second
      /\ g.open = o.s.grant.open \ cs
      /\ \A c \in g.open : g.signed[c] = o.s.grant.signed[c]
  BY <1>1, CloseChannelsSound DEF SoundOutcome
<1>b. SameBudget(o.s.grant, g)
  <2>1. ASSUME NEW c \in Channels PROVE SameBudget(o.s.grant, g)
    BY <1>1, ChannelsApart
  <2>2. Channels = {} => g = o.s.grant
    BY <1>1 DEF CloseChannels, GrantState
  <2>3. SameBudget(o.s.grant, o.s.grant)
    BY DEF SameBudget
  <2> QED BY <2>1, <2>2, <2>3
<1> DEFINE t == [o.s EXCEPT !.grant = g]
<1>3. q = [o EXCEPT !.s = t, !.settle = o.settle \cup cs]
  BY DEF Settle
<1> HIDE DEF g, q
<1>4. t \in Session /\ t.grant = g /\ t.place = o.s.place
  BY <1>1, <1>2 DEF Session
<1> HIDE DEF t
<1>5. /\ q.s.grant = g /\ q.s.place = o.s.place /\ q.settle = o.settle \cup cs
      /\ q.s = t /\ q.kept = o.kept
  BY <1>1, <1>3, <1>4 DEF Outcome
<1>6. q \in Outcome
  BY <1>1, <1>3, <1>4 DEF Outcome
<1>7. SoundOutcome(q)
  BY <1>2, <1>5, <1>6 DEF SoundOutcome
<1>8. SameTerms(o, q)
  BY <1>1, <1>5 DEF SameTerms, Session, t
<1>9. Keeps(o, q)
  BY <1>b, <1>2, <1>5, <1>7, <1>8, KeepsSame DEF SameTerms
<1>10. Follows(o, q)
  BY <1>2, <1>5, <1>9 DEF Follows
<1> QED BY <1>b, <1>2, <1>5, <1>7, <1>8, <1>10 DEF q

(* discard leaves no channel behind. *)
LEMMA DiscardSound ==
    ASSUME NEW o, SoundOutcome(o)
    PROVE  /\ SoundOutcome(Discard(o))
           /\ Follows(o, Discard(o))
           /\ Discard(o).s.grant.open = {}
           /\ SameTerms(o, Discard(o))
           /\ SameBudget(o.s.grant, Discard(o).s.grant)
<1>1. o.s.grant.open \in SUBSET o.s.grant.open
  OBVIOUS
<1> QED BY <1>1, SettleSound DEF Discard

(* settle_expiring_in settles some of the channels. *)
LEMMA SettleExpiringSound ==
    ASSUME NEW o, SoundOutcome(o)
    PROVE  /\ SoundOutcome(SettleExpiring(o))
           /\ Follows(o, SettleExpiring(o))
           /\ SameTerms(o, SettleExpiring(o))
<1>1. ExpiringChannels(o.s.grant, now, LEAD) \in SUBSET o.s.grant.open
  BY DEF ExpiringChannels
<1> QED BY <1>1, SettleSound DEF SettleExpiring

(* refresh changes what the peer is given, never what it holds: the gate is *)
(* set by the budget, and the notice of a spent one clears only that.       *)
LEMMA RefreshSound ==
    ASSUME NEW o, SoundOutcome(o), now \in U64
    PROVE  /\ SoundOutcome(Refresh(o))
           /\ Refresh(o).s.grant = o.s.grant
           /\ Refresh(o).s.place = o.s.place
           /\ Refresh(o).s.linked = o.s.linked
           /\ Refresh(o).s.policy = o.s.policy
           /\ Refresh(o).settle = o.settle
           /\ Follows(o, Refresh(o))
           /\ Gated(Refresh(o))
           /\ Even(o) => Even(Refresh(o))
<1> DEFINE access == AccessOf(o.s)
           live   == IsLive(o.s.grant, now)
           spent  == o.s.budget_live /\ ~live /\ access # "Free"
           rate   == IF access = "Free" THEN U64_MAX ELSE ShapingRate(o.s.grant, now)
           kept   == IF spent THEN NoBudget ELSE o.kept
           t      == [o.s EXCEPT !.access = access, !.budget_live = live, !.applied = rate]
           q      == Refresh(o)
<1>1. /\ o \in Outcome /\ o.s \in Session /\ o.s.grant \in GrantState /\ o.kept \in Budget
  BY DEF SoundOutcome, Outcome, Session
<1>2. /\ access \in Access
      /\ access = "Free" <=> o.s.policy = "no_charge"
      /\ live => access # "None"
  BY DEF AccessOf, Access
<1>3. live \in BOOLEAN
  BY DEF IsLive
<1>4. /\ rate \in U64
      /\ access # "Free" =>
            units_in(rate, TICK) <= Greatest(Remaining(o.s.grant), units_in(MINIMUM_FLOW, TICK))
  BY <1>1, ShapingRateType, ShapedWithinBudget, WidthNat
<1>5. kept \in Budget /\ (kept = o.kept \/ (kept = NoBudget /\ ~live))
  <2>1. NoBudget \in Budget
    BY WidthNat DEF NoBudget, Budget
  <2> QED BY <1>1, <2>1
<1>6. q = [o EXCEPT !.s = t, !.kept = kept]
  BY DEF Refresh
<1>7. live <=> IsLive(o.s.grant, now)
  OBVIOUS
<1> HIDE DEF access, live, rate, kept, q
<1>8. /\ t \in Session /\ t.grant = o.s.grant /\ t.place = o.s.place /\ t.access = access
      /\ t.policy = o.s.policy /\ t.closing = o.s.closing /\ t.linked = o.s.linked
      /\ t.applied = rate
  BY <1>1, <1>2, <1>3, <1>4 DEF Session
<1> HIDE DEF t
<1>9. q \in Outcome /\ q.s = t /\ q.settle = o.settle /\ q.kept = kept
  BY <1>1, <1>5, <1>6, <1>8 DEF Outcome
<1>10. SoundOutcome(q)
  BY <1>8, <1>9 DEF SoundOutcome
<1>11. Gated(q)
  BY <1>2, <1>4, <1>7, <1>8, <1>9 DEF Gated
<1>12. kept # o.kept => /\ BudgetAt(kept, now) = BudgetOf(o.s.grant, now)
                        /\ BudgetAt(kept, now).remaining = 0
  <2>1. ~live => BudgetOf(o.s.grant, now) = NoBudget
    BY <1>1, <1>7, BudgetOfIs
  <2>2. BudgetAt(NoBudget, now) = NoBudget /\ NoBudget.remaining = 0
    BY DEF BudgetAt, NoBudget
  <2> QED BY <1>5, <2>1, <2>2
<1>13. Keeps(o, q)
  <2>1. HeldOf(o) \in Nat /\ HeldOf(q) \in Nat
    BY <1>10, HeldType
  <2>2. HeldOf(q) <= HeldOf(o)
    BY <1>8, <1>9, <1>12, <2>1 DEF HeldOf
  <2>3. kept # o.kept => CoversAt(kept, o.s.grant, now)
    BY <1>1, <1>12, EvenCovers
  <2>4. Saved(o) => Saved(q)
    BY <1>8, <1>9, <1>12, <2>3 DEF Saved, Even
  <2>5. (Tied(o) => Tied(q)) /\ ReservesLess(o, q) /\ (Charged(o) => Charged(q))
    BY <1>8, <1>9 DEF Tied, ReservesLess, Charged
  <2> QED BY <2>1, <2>2, <2>4, <2>5 DEF Keeps
<1>14. Follows(o, q)
  BY <1>8, <1>9, <1>13 DEF Follows
<1>15. Even(o) => Even(q)
  BY <1>8, <1>9, <1>12 DEF Even
<1> QED BY <1>8, <1>9, <1>10, <1>11, <1>14, <1>15 DEF q

(* No session is a sound session. *)
LEMMA NoSessionSound ==
    /\ NoSession \in Session /\ NoSession.grant = NewGrant
    /\ NoSession.place = "none" /\ ~NoSession.linked /\ NoSession.policy = "charge"
<1>1. NewGrant \in GrantState /\ 0 \in U64
  BY NewGrantSound, WidthNat
<1> QED BY <1>1 DEF NoSession, Session, Places, Policies, Access

(* A session with no channels can be dropped, once its budget is saved. *)
LEMMA GoneSound ==
    ASSUME NEW o, SoundOutcome(o), o.s.grant.open = {}, o.s.place # "none",
           Charged(o) /\ Saved(o) => Even(o)
    PROVE  /\ SoundOutcome(Gone(o))
           /\ Follows(o, Gone(o))
           /\ Gone(o).s = NoSession
<1> DEFINE q == Gone(o)
<1>1. o \in Outcome
  BY DEF SoundOutcome
<1>2. q \in Outcome /\ q.s = NoSession /\ q.settle = o.settle /\ q.kept = o.kept
  BY <1>1, NoSessionSound DEF Gone, Outcome
<1> HIDE DEF q
<1>3. SoundOutcome(q)
  BY <1>2, NoSessionSound, NewGrantSound DEF SoundOutcome
<1>4. q.s.grant.open = {}
  BY <1>2, NoSessionSound, NewGrantSound
<1>5. HeldOf(o) \in Nat /\ HeldOf(q) \in Nat
  BY <1>3, HeldType
<1>6. Even(o) => HeldOf(q) = HeldOf(o)
  BY <1>2, NoSessionSound DEF Even, HeldOf
<1>7. Saved(q) /\ Tied(q) /\ Charged(q) /\ ReservesLess(o, q)
  BY <1>2, NoSessionSound DEF Saved, Tied, Charged, ReservesLess
<1>8. Keeps(o, q)
  BY <1>5, <1>6, <1>7 DEF Keeps
<1> QED BY <1>2, <1>3, <1>4, <1>8 DEF Follows, q

(* A session given up is settled and dropped. *)
LEMMA GivenUpSound ==
    ASSUME NEW o, SoundOutcome(o), o.s.place # "none", Charged(o) /\ Saved(o) => Even(o)
    PROVE  /\ SoundOutcome(Gone(Discard(o))) /\ Follows(o, Gone(Discard(o)))
           /\ Gone(Discard(o)).s = NoSession
<1> DEFINE q == Discard(o)
<1>1. /\ SoundOutcome(q) /\ Follows(o, q) /\ q.s.grant.open = {}
      /\ SameTerms(o, q) /\ SameBudget(o.s.grant, q.s.grant)
  BY DiscardSound
<1> HIDE DEF q
<1>2. BudgetOf(q.s.grant, now) = BudgetOf(o.s.grant, now)
  BY <1>1 DEF SameBudget, BudgetOf
<1>3. Charged(q) /\ Saved(q) => Even(q)
  BY <1>1, <1>2 DEF Charged, Saved, Even, SameTerms, CoversAt
<1>4. SoundOutcome(Gone(q)) /\ Follows(q, Gone(q)) /\ Gone(q).s = NoSession
  BY <1>1, <1>3, GoneSound DEF SameTerms
<1> QED BY <1>1, <1>4, FollowsOn DEF q

(* park holds a session that reserves and draws nothing, with its budget     *)
(* saved as it then stands, or settles it.                                   *)
LEMMA ParkSound ==
    ASSUME NEW o, SoundOutcome(o), now \in U64, o.s.place = "peers"
    PROVE  /\ SoundOutcome(Park(o)) /\ Follows(o, Park(o))
           /\ Park(o).s.place \in {"none", "parked"}
<1> DEFINE g     == EndReservation(o.s.grant)
           q     == [o EXCEPT !.s.grant = g]
           ended == SaveBudget(q)
<1>1. o \in Outcome /\ o.s \in Session /\ o.s.grant \in GrantState
  BY DEF SoundOutcome, Outcome, Session
<1>2. /\ g \in GrantState /\ GrantSound(g) /\ g.reserved = 0 /\ g.second = None
      /\ g.open = o.s.grant.open /\ g.signed = o.s.grant.signed
      /\ Dwindles(o.s.grant, g)
  BY <1>1, EndReservationSound, EndReservationDraws DEF SoundOutcome
<1> HIDE DEF g
<1>3. SoundOutcome(q) /\ q.s.grant = g /\ q.settle = o.settle /\ SameTerms(o, q)
  BY <1>1, <1>2, RegrantSound DEF SoundOutcome
<1>4. Follows(o, q)
  <2>1. Keeps(o, q)
    BY <1>2, <1>3, KeepsDrawn
  <2> QED BY <1>2, <1>3, <2>1 DEF Follows
<1> HIDE DEF q
<1>5. /\ SoundOutcome(ended) /\ ended.s = q.s /\ Follows(q, ended)
      /\ Charged(ended) => Even(ended)
  BY <1>3, SaveBudgetSound DEF SameTerms, Charged
<1>6. Follows(o, ended) /\ ended.s.grant = g /\ ended.s.place = "peers"
  BY <1>3, <1>4, <1>5, FollowsOn DEF SameTerms
<1>7. Park(o) = IF STALE = 0 THEN Gone(Discard(ended))
                ELSE [ended EXCEPT !.s = [ended.s EXCEPT !.place = "parked",
                                             !.linked = FALSE, !.since = now]]
  BY DEF Park, ended, q, g
<1> HIDE DEF ended
<1>8. CASE STALE = 0
  <2>1. /\ SoundOutcome(Gone(Discard(ended))) /\ Follows(ended, Gone(Discard(ended)))
        /\ Gone(Discard(ended)).s = NoSession
    BY <1>5, <1>6, GivenUpSound
  <2> QED BY <1>6, <1>7, <1>8, <2>1, FollowsOn, NoSessionSound
<1>9. CASE STALE # 0
  <2> DEFINE t == [ended.s EXCEPT !.place = "parked", !.linked = FALSE, !.since = now]
             r == Park(o)
  <2>1. ended \in Outcome /\ ended.s \in Session
    BY <1>5 DEF SoundOutcome, Outcome
  <2>2. /\ t \in Session /\ t.grant = g /\ t.place = "parked" /\ t.linked = FALSE
        /\ t.policy = ended.s.policy
    BY <1>6, <2>1 DEF Session, Places
  <2>3. r = [ended EXCEPT !.s = t]
    BY <1>7, <1>9
  <2> HIDE DEF t, r
  <2>4. r \in Outcome /\ r.s = t /\ r.settle = ended.settle /\ r.kept = ended.kept
    BY <2>1, <2>2, <2>3 DEF Outcome
  <2>5. SoundOutcome(r)
    BY <1>2, <2>2, <2>4 DEF SoundOutcome
  <2>6. HeldOf(r) \in Nat /\ HeldOf(r) = HeldOf(ended)
    BY <1>6, <2>2, <2>4, <2>5, HeldType DEF HeldOf
  <2>7. Charged(ended) => Saved(r) /\ Charged(r)
    BY <1>5, <1>6, <2>2, <2>4 DEF Saved, Even, Charged
  <2>8. Keeps(ended, r)
    BY <2>2, <2>4, <2>6, <2>7 DEF Keeps, Tied, ReservesLess
  <2>9. Follows(ended, r)
    BY <1>6, <2>2, <2>4, <2>8 DEF Follows
  <2>10. Follows(o, r)
    BY <1>6, <2>9, FollowsOn
  <2> QED BY <2>2, <2>4, <2>5, <2>10 DEF r
<1> QED BY <1>8, <1>9

(* A meter reading draws or pauses the budget of a live session, and leaves *)
(* its channels alone.                                                      *)
LEMMA MeteredSound ==
    ASSUME NEW o, SoundOutcome(o), now \in U64, o.s.place = "peers",
           NEW moved \in U64, NEW carried
    PROVE  /\ SoundOutcome(Metered(o, moved, carried))
           /\ Follows(o, Metered(o, moved, carried))
           /\ Metered(o, moved, carried).s.place = "peers"
           /\ Gated(Metered(o, moved, carried))
<1> DEFINE g == IF carried /\ o.s.access = "Active"
                THEN Draw(o.s.grant, moved, now) ELSE Pause(o.s.grant)
           q == [o EXCEPT !.s.grant = g]
<1>1. o \in Outcome /\ o.s.grant \in GrantState /\ GrantSound(o.s.grant)
  BY DEF SoundOutcome, Outcome, Session
<1>2. /\ g \in GrantState /\ GrantSound(g)
      /\ g.open = o.s.grant.open /\ g.signed = o.s.grant.signed
      /\ Dwindles(o.s.grant, g)
  BY <1>1, DrawSound, PauseSound, DrawDraws, PauseDraws
<1>3. Metered(o, moved, carried) = Refresh(q)
  BY DEF Metered
<1> HIDE DEF g
<1>4. /\ SoundOutcome(q) /\ q.s.grant = g /\ q.settle = o.settle /\ q.s.place = "peers"
      /\ SameTerms(o, q)
  BY <1>1, <1>2, RegrantSound
<1> HIDE DEF q
<1>5. Follows(o, q)
  <2>1. Keeps(o, q)
    BY <1>2, <1>4, KeepsDrawn
  <2> QED BY <1>2, <1>4, <2>1 DEF Follows
<1>6. /\ SoundOutcome(Refresh(q)) /\ Follows(q, Refresh(q)) /\ Refresh(q).s.place = "peers"
      /\ Gated(Refresh(q))
  BY <1>4, RefreshSound
<1> QED BY <1>3, <1>5, <1>6, FollowsOn

(* Core's tick keeps a session sound, parked or not. *)
LEMMA TickedSound ==
    ASSUME NEW o, SoundOutcome(o), now \in U64, o.s.place = "peers"
    PROVE  SoundOutcome(Ticked(o)) /\ Follows(o, Ticked(o)) /\ Gated(Ticked(o))
<1> DEFINE g == ExpireIfDue(o.s.grant, now)
           q == [o EXCEPT !.s.grant = g]
           r == SettleExpiring(q)
<1>1. CASE STALE > 0 /\ SatSub(now, o.s.last_seen) > STALE
  BY <1>1, ParkSound DEF Ticked, Gated
<1>2. CASE ~(STALE > 0 /\ SatSub(now, o.s.last_seen) > STALE)
  <2>1. o \in Outcome /\ o.s.grant \in GrantState /\ GrantSound(o.s.grant)
    BY DEF SoundOutcome, Outcome, Session
  <2>2. /\ g \in GrantState /\ GrantSound(g)
        /\ g.open = o.s.grant.open /\ g.signed = o.s.grant.signed
        /\ g.second = o.s.grant.second /\ Dwindles(o.s.grant, g)
    BY <2>1, ExpireSound, ExpireDraws
  <2>3. /\ o.s.place # "peers" => g.reserved = 0 /\ g.second = None
        /\ o.s.place = "none" => g.open = {}
    <3>1. /\ o.s.place # "peers" => o.s.grant.reserved = 0 /\ o.s.grant.second = None
          /\ o.s.place = "none" => o.s.grant.open = {}
      BY DEF SoundOutcome
    <3>2. g.reserved = 0 \/ g.reserved = o.s.grant.reserved
      BY <2>1 DEF ExpireIfDue, GrantState
    <3> QED BY <2>2, <3>1, <3>2
  <2>4. Ticked(o) = Refresh(r)
    BY <1>2 DEF Ticked
  <2> HIDE DEF g
  <2>5. SoundOutcome(q) /\ q.s.grant = g /\ q.settle = o.settle /\ SameTerms(o, q)
    BY <2>1, <2>2, <2>3, RegrantSound
  <2> HIDE DEF q
  <2>6. Follows(o, q)
    <3>1. Keeps(o, q)
      BY <2>2, <2>5, KeepsDrawn
    <3> QED BY <2>2, <2>5, <3>1 DEF Follows
  <2>7. SoundOutcome(r) /\ Follows(q, r)
    BY <2>5, SettleExpiringSound
  <2> HIDE DEF r
  <2>8. SoundOutcome(Refresh(r)) /\ Follows(r, Refresh(r)) /\ Gated(Refresh(r))
    BY <2>7, RefreshSound
  <2>9. Follows(o, r)
    BY <2>6, <2>7, FollowsOn
  <2> QED BY <2>4, <2>8, <2>9, FollowsOn
<1> QED BY <1>1, <1>2

(* A session held keeps its channels until they are due, or is given up. *)
LEMMA HeldOnSound ==
    ASSUME NEW o, SoundOutcome(o), o.s.place = "parked"
    PROVE  SoundOutcome(HeldOn(o)) /\ Follows(o, HeldOn(o)) /\ Gated(HeldOn(o))
<1>1. Saved(o) => Even(o)
  BY DEF Saved
<1>2. /\ SoundOutcome(Gone(Discard(o))) /\ Follows(o, Gone(Discard(o)))
      /\ Gated(Gone(Discard(o)))
  BY <1>1, GivenUpSound, NoSessionSound DEF Gated
<1>3. /\ SoundOutcome(SettleExpiring(o)) /\ Follows(o, SettleExpiring(o))
      /\ Gated(SettleExpiring(o))
  BY SettleExpiringSound DEF SameTerms, Gated
<1> QED BY <1>2, <1>3 DEF HeldOn

(* A tick, reading and all, for one payer. *)
LEMMA TickOutcomeSound ==
    ASSUME NEW p \in Payers, SoundOutcome(Start(p)), now \in U64,
           NEW moved \in U64, NEW carried
    PROVE  /\ SoundOutcome(TickOutcome(p, moved, carried))
           /\ Follows(Start(p), TickOutcome(p, moved, carried))
           /\ Gated(TickOutcome(p, moved, carried))
<1> DEFINE o    == Start(p)
           read == IF o.s.linked THEN Metered(o, moved, carried) ELSE o
           live == IF InPeers(p) THEN Ticked(read) ELSE o
<1>1. TickOutcome(p, moved, carried) =
        IF live.s.place = "parked" THEN HeldOn(live) ELSE live
  BY DEF TickOutcome
<1>2. Follows(o, o)
  BY FollowsNothing
<1>3. InPeers(p) <=> o.s.place = "peers"
  BY DEF InPeers, Start
<1> HIDE DEF o
<1>4. SoundOutcome(live) /\ Follows(o, live) /\ Gated(live)
  <2>1. CASE InPeers(p)
    <3>1. SoundOutcome(read) /\ Follows(o, read) /\ read.s.place = "peers"
      BY <1>2, <1>3, <2>1, MeteredSound DEF o
    <3> HIDE DEF read
    <3>2. SoundOutcome(Ticked(read)) /\ Follows(read, Ticked(read)) /\ Gated(Ticked(read))
      BY <3>1, TickedSound
    <3> QED BY <2>1, <3>1, <3>2, FollowsOn
  <2>2. CASE ~InPeers(p)
    BY <1>2, <1>3, <2>2 DEF o, Gated
  <2> QED BY <2>1, <2>2
<1> HIDE DEF live
<1>5. live.s.place = "parked" =>
        SoundOutcome(HeldOn(live)) /\ Follows(live, HeldOn(live)) /\ Gated(HeldOn(live))
  BY <1>4, HeldOnSound
<1>6. live.s.place = "parked" => Follows(o, HeldOn(live))
  BY <1>4, <1>5, FollowsOn
<1> QED BY <1>1, <1>4, <1>5, <1>6 DEF o

(* Failures counted, and the channels that reach the limit settled. *)
LEMMA UnverifiedSound ==
    ASSUME NEW o, SoundOutcome(o), now \in U64, NEW cs \in SUBSET Channels
    PROVE  /\ SoundOutcome(Unverified(o, cs)) /\ Follows(o, Unverified(o, cs))
           /\ Gated(Unverified(o, cs))
<1> DEFINE g      == RecordFailures(o.s.grant, cs)
           q      == [o EXCEPT !.s.grant = g]
           failed == FailedChannels(o.s.grant, cs)
           r      == Settle(q, failed)
<1>1. o \in Outcome /\ o.s.grant \in GrantState /\ GrantSound(o.s.grant)
  BY DEF SoundOutcome, Outcome, Session
<1>2. /\ g \in GrantState /\ GrantSound(g)
      /\ g.open = o.s.grant.open /\ g.signed = o.s.grant.signed
      /\ g.reserved = o.s.grant.reserved /\ g.second = o.s.grant.second
  BY <1>1, RecordFailuresSound
<1>b. SameBudget(o.s.grant, g)
  <2>1. ASSUME NEW c \in Channels PROVE SameBudget(o.s.grant, g)
    BY <1>1, ChannelsApart
  <2>2. Channels = {} => g = o.s.grant
    BY <1>1 DEF RecordFailures, GrantState
  <2>3. SameBudget(o.s.grant, o.s.grant)
    BY DEF SameBudget
  <2> QED BY <2>1, <2>2, <2>3
<1>3. failed \in SUBSET o.s.grant.open
  BY DEF FailedChannels
<1>4. Unverified(o, cs) = Refresh(r)
  BY DEF Unverified
<1> HIDE DEF g, failed
<1>5. /\ o.s.place # "peers" => g.reserved = 0 /\ g.second = None
      /\ o.s.place = "none" => g.open = {}
  BY <1>2 DEF SoundOutcome
<1>6. SoundOutcome(q) /\ q.s.grant = g /\ q.settle = o.settle /\ SameTerms(o, q)
  BY <1>1, <1>2, <1>5, RegrantSound
<1> HIDE DEF q
<1>7. Follows(o, q)
  <2>1. Keeps(o, q)
    BY <1>b, <1>2, <1>6, KeepsSame DEF SameTerms
  <2> QED BY <1>2, <1>6, <2>1 DEF Follows
<1>8. SoundOutcome(r) /\ Follows(q, r)
  BY <1>2, <1>3, <1>6, SettleSound
<1> HIDE DEF r
<1>9. SoundOutcome(Refresh(r)) /\ Follows(r, Refresh(r)) /\ Gated(Refresh(r))
  BY <1>8, RefreshSound
<1>10. Follows(o, r)
  BY <1>7, <1>8, FollowsOn
<1> QED BY <1>4, <1>9, <1>10, FollowsOn

\* What a purchase makes of o: the books are in order, what it closes it
\* settles, the rate asked for is reserved, and the budget that is left and
\* saved has grown by no more than the purchase.
Purchased(p, o, us, rate, b, then) ==
    /\ SoundOutcome(b) /\ Booked(p, b, then)
    /\ Gated(b) /\ (Tied(o) => Tied(b))
    /\ b.s.linked => o.s.linked /\ b.s.grant.reserved = rate
    /\ Charged(o) => /\ Charged(b) /\ Saved(b)
                     /\ HeldOf(b) <= HeldOf(o) + Increase(o.s.grant, us)
    /\ b.s.grant.open \subseteq o.s.grant.open
    /\ o.s.grant.open \subseteq b.s.grant.open \cup b.settle
    /\ b.settle \subseteq o.settle \cup (o.s.grant.open \ b.s.grant.open)

(* A purchase honoured: the books agree with what the backend then holds, and *)
(* a channel it fills is settled.                                             *)
LEMMA BoughtSound ==
    ASSUME NEW p, NEW o, SoundOutcome(o), now \in U64, o.s.place = "peers",
           NEW available, NEW us \in Updates, NEW window \in U64, NEW rate \in U64,
           Verdict(o.s.grant, available, us, window, rate) = "Accept",
           NEW rec \in [Channels -> U64], NEW then \in [Channels -> U64],
           Records(us, rec, then), Booked(p, o, rec),
           NEW b, b = Bought(o, us, window, rate)
    PROVE  Purchased(p, o, us, rate, b, then)
<1> DEFINE g    == Apply(o.s.grant, us, window, rate, now)
           q    == [o EXCEPT !.s.grant = g]
           full == ExhaustedChannels(q.s.grant)
           r    == Settle(q, full)
           done == SaveBudget(r)
           t    == [done EXCEPT !.s.budget_live = IsLive(done.s.grant, now)]
<1>1. o \in Outcome /\ o.s.grant \in GrantState /\ GrantSound(o.s.grant)
  BY DEF SoundOutcome, Outcome, Session
<1>2. /\ g \in GrantState /\ GrantSound(g) /\ g.open = o.s.grant.open
      /\ \A c \in Channels : g.signed[c] =
            IF c \in Named(us) THEN TotalOn(us, c) ELSE o.s.grant.signed[c]
      /\ g.reserved = rate
      /\ Remaining(g) <= BudgetOf(o.s.grant, now).remaining + Increase(o.s.grant, us)
  <2> DEFINE h == o.s.grant
  <2>1. h \in GrantState /\ GrantSound(h) /\ Verdict(h, available, us, window, rate) = "Accept"
    BY <1>1
  <2> HIDE DEF h
  <2>2. /\ Apply(h, us, window, rate, now) \in GrantState
        /\ GrantSound(Apply(h, us, window, rate, now))
        /\ Apply(h, us, window, rate, now).open = h.open
        /\ \A c \in Channels : Apply(h, us, window, rate, now).signed[c] =
              IF c \in Named(us) THEN TotalOn(us, c) ELSE h.signed[c]
    BY <2>1, ApplySound
  <2> DEFINE k == Apply(h, us, window, rate, now)
  <2>3. k.reserved = rate /\ Remaining(k) <= BudgetOf(h, now).remaining + Increase(h, us)
    <3>1. k = Apply(h, us, window, rate, now)
      OBVIOUS
    <3> HIDE DEF k
    <3> QED BY <2>1, <3>1, ApplyAdds
  <2>4. k = g
    BY DEF h
  <2> HIDE DEF k
  <2> QED BY <2>2, <2>3, <2>4 DEF h, k
<1>3. b = Refresh(t)
  BY DEF Bought
<1> HIDE DEF g
<1>4. /\ SoundOutcome(q) /\ q.s.grant = g /\ q.settle = o.settle /\ q.s.place = "peers"
      /\ SameTerms(o, q)
  BY <1>1, <1>2, RegrantSound
<1> HIDE DEF q
<1>5. g.open \subseteq Channels /\ g.signed \in [Channels -> U64]
  BY <1>2 DEF GrantState
<1>6. full = {c \in g.open : g.signed[c] >= Capacity[c]} /\ full \in SUBSET q.s.grant.open
  BY <1>4, <1>5 DEF ExhaustedChannels
<1> HIDE DEF full
<1>7. /\ SoundOutcome(r) /\ Follows(q, r) /\ r.s.grant.open = g.open \ full
      /\ r.s.place = "peers" /\ SameTerms(o, r) /\ SameBudget(g, r.s.grant)
      /\ r.s.grant.reserved = g.reserved
  <2>1. /\ SoundOutcome(r) /\ Follows(q, r) /\ r.s.grant.open = g.open \ full
        /\ SameTerms(q, r) /\ SameBudget(g, r.s.grant)
    BY <1>4, <1>6, SettleSound
  <2>2. r.s.grant.reserved = g.reserved
    <3>1. q \in Outcome /\ q.s \in Session
      BY <1>4 DEF SoundOutcome, Outcome
    <3>2. r.s.grant = CloseChannels(g, full)
      BY <1>4, <3>1 DEF Settle, Outcome, Session
    <3>3. full \in SUBSET Channels
      BY <1>5, <1>6
    <3> QED BY <1>2, <3>2, <3>3, CloseChannelsSound
  <2> QED BY <1>4, <2>1, <2>2 DEF SameTerms
<1> HIDE DEF r
<1>8. Booked(p, r, then)
  <2> SUFFICES ASSUME NEW c \in r.s.grant.open
               PROVE  Owner[c] = p /\ r.s.grant.signed[c] = then[c] /\ then[c] < Capacity[c]
    BY DEF Booked
  <2>1. c \in g.open /\ c \in Channels /\ ~(g.signed[c] >= Capacity[c])
    BY <1>5, <1>6, <1>7
  <2>2. Owner[c] = p /\ o.s.grant.signed[c] = rec[c]
    BY <1>2, <2>1 DEF Booked
  <2>3. g.signed[c] = then[c]
    BY <1>2, <2>1, <2>2 DEF Records
  <2>4. r.s.grant.signed[c] = g.signed[c]
    BY <1>4, <1>7 DEF Follows
  <2>5. then[c] \in Nat /\ Capacity[c] \in Nat
    BY <2>1, ChannelAssumption, WidthNat
  <2> QED BY <2>1, <2>2, <2>3, <2>4, <2>5
<1>9. /\ SoundOutcome(done) /\ done.s = r.s /\ done.settle = r.settle
      /\ Charged(r) => Even(done)
  BY <1>7, SaveBudgetSound
<1> HIDE DEF done
<1>10. /\ SoundOutcome(t) /\ t.s.grant = done.s.grant /\ t.settle = done.settle
       /\ SameTerms(done, t)
  <2> DEFINE live == IsLive(done.s.grant, now)
  <2>1. live \in BOOLEAN
    BY DEF IsLive
  <2>2. t = [done EXCEPT !.s.budget_live = live]
    OBVIOUS
  <2> HIDE DEF live, t
  <2>3. done \in Outcome /\ done.s \in Session
    BY <1>9 DEF SoundOutcome, Outcome
  <2> DEFINE u == [done.s EXCEPT !.budget_live = live]
  <2>4. u \in Session /\ u.grant = done.s.grant /\ u.place = done.s.place
    BY <2>1, <2>3 DEF Session
  <2>5. t.s = u /\ t.settle = done.settle /\ t.kept = done.kept
    BY <2>2, <2>3 DEF Outcome
  <2>t. SameTerms(done, t)
    BY <2>3, <2>5 DEF SameTerms, Session
  <2> HIDE DEF u
  <2>6. t \in Outcome
    BY <2>2, <2>3, <2>4, <2>5 DEF Outcome
  <2> QED BY <1>9, <2>t, <2>4, <2>5, <2>6 DEF SoundOutcome
<1> HIDE DEF t
<1>11. /\ SoundOutcome(Refresh(t)) /\ Refresh(t).s.grant = r.s.grant
       /\ Refresh(t).settle = r.settle /\ Refresh(t).s.place = "peers"
       /\ Gated(Refresh(t)) /\ Follows(t, Refresh(t)) /\ (Even(t) => Even(Refresh(t)))
       /\ Refresh(t).s.linked = t.s.linked /\ Refresh(t).s.policy = t.s.policy
  BY <1>7, <1>9, <1>10, RefreshSound DEF SameTerms
<1>12. Booked(p, Refresh(t), then)
  BY <1>8, <1>11 DEF Booked
<1>t. /\ t.s.linked = o.s.linked /\ t.s.closing = o.s.closing /\ t.s.place = "peers"
      /\ t.s.policy = o.s.policy /\ t.s.grant = r.s.grant
  BY <1>7, <1>9, <1>10 DEF SameTerms
<1>l. b.s.linked => o.s.linked /\ b.s.grant.reserved = rate
  BY <1>t, <1>2, <1>3, <1>7, <1>11
<1>h. ASSUME Charged(o)
      PROVE  /\ Charged(b) /\ Saved(b)
             /\ HeldOf(b) <= HeldOf(o) + Increase(o.s.grant, us)
  <2>1. Charged(r) /\ Charged(t)
    BY <1>h, <1>7, <1>t DEF Charged, SameTerms
  <2>2. Charged(b)
    BY <1>3, <1>11, <2>1 DEF Charged
  <2>3. Even(t)
    BY <1>9, <1>10, <2>1 DEF Even, SameTerms
  <2>4. Even(b) /\ b.s.grant = r.s.grant /\ b.s.place = "peers"
    BY <1>3, <1>11, <2>3
  <2>5. b.s.grant \in GrantState
    BY <1>3, <1>11 DEF SoundOutcome, Outcome, Session
  <2>6. Saved(b)
    BY <2>4, <2>5, EvenCovers DEF Saved, Even
  <2>7. /\ HeldOf(b) = BudgetOf(b.s.grant, now).remaining
        /\ HeldOf(o) = BudgetOf(o.s.grant, now).remaining
    BY <2>4 DEF HeldOf
  <2>8. BudgetOf(b.s.grant, now).remaining <= Remaining(g) /\ Remaining(g) \in Nat
    <3>1. Remaining(b.s.grant) = Remaining(g) /\ Remaining(g) \in Nat
      BY <1>2, <1>7, <2>4, RemainingType, WidthNat DEF SameBudget
    <3> QED BY <2>5, <3>1, BudgetOfIs
  <2>9. /\ HeldOf(o) \in Nat /\ HeldOf(b) \in Nat /\ Increase(o.s.grant, us) \in Nat
    <3>1. HeldOf(o) \in Nat /\ HeldOf(b) \in Nat
      BY <1>3, <1>11, HeldType
    <3> DEFINE h == o.s.grant
    <3>2. h \in GrantState /\ Verdict(h, available, us, window, rate) = "Accept"
      BY <1>1
    <3> HIDE DEF h
    <3>3. Increase(h, us) \in Nat
      BY <3>2, IncreaseType
    <3> QED BY <3>1, <3>3 DEF h
  <2> QED BY <1>2, <2>2, <2>6, <2>7, <2>8, <2>9
<1>g. Tied(o) => Tied(b)
  BY <1>3, <1>t, <1>11 DEF Follows, Keeps, Tied
<1>13. /\ o.s.grant.open \subseteq r.s.grant.open \cup r.settle
       /\ r.settle \subseteq o.settle \cup (o.s.grant.open \ r.s.grant.open)
  BY <1>2, <1>4, <1>7 DEF Follows
<1> QED BY <1>g, <1>h, <1>l, <1>2, <1>3, <1>7, <1>11, <1>12, <1>13 DEF Purchased

-----------------------------------------------------------------------------
(* The inductive invariant.  RecordedIsGranted is not inductive alone: a      *)
(* channel whose funding verifies starts with nothing signed, which is right  *)
(* only if nothing was recorded on it before, and that is PaidAfterVerified.  *)
(* ReservedFits needs LinkedInPeers: what is reserved elsewhere is counted    *)
(* over the live sessions, not over the links.  DiskCovers needs Covered: a   *)
(* budget kept for too short a time stops covering when it ends, and a held   *)
(* session is dropped in favour of what is on disk.                           *)

\* Channels are open in a session, live or held.
OpenInSession == \A p \in Payers : sess[p].place = "none" => sess[p].grant.open = {}

\* The host and the enforcer hold a peer only while its session is live.
LinkedInPeers == \A p \in Payers : sess[p].linked => InPeers(p) /\ ~sess[p].closing

\* Every peer is charged, and what is kept for it covers its live budget, for
\* as long, or is its held one.
Overridden == Accountable => \A p \in Payers : overrides[p] # "no_charge"
Covered ==
    Accountable => \A p \in Payers :
        /\ sess[p].policy # "no_charge"
        /\ InPeers(p) => CoversAt(disk[p], sess[p].grant, now)
        /\ sess[p].place = "parked" => BudgetAt(disk[p], now) = BudgetOf(sess[p].grant, now)

IInv ==
    /\ TypeOK /\ BudgetSound /\ RecordedIsGranted /\ PaidAfterVerified /\ OpenInSession
    /\ LinkedInPeers /\ GateFollowsBudget /\ ReservedFits /\ Overridden /\ Covered

\* Channels a worker may now answer for: their refund paths are far enough off.
Timely == {c \in verifying : ExpiresAt[c] # None => SatAdd(now, MIN_EXPIRY) <= ExpiresAt[c]}

\* An outcome a step may put in place for payer p.
Good(p, o) ==
    /\ SoundOutcome(o)
    /\ Booked(p, o, recorded')
    /\ o.s.grant.open \subseteq announced' \ verifying'
    /\ sess[p].grant.open \subseteq o.s.grant.open \cup o.settle
    /\ o.s.grant.open \subseteq sess[p].grant.open \cup Timely
    /\ MAX_CLOSES = 0 => o.settle \subseteq sess[p].grant.open \ o.s.grant.open
    /\ Tied(o) /\ Gated(o)
    /\ Accountable => /\ Charged(o) /\ Saved(o)
                      /\ HeldOf(o) + Paid(p) <= Held(p) + Paid(p)'

\* Every channel this step closes is handed to the settler; no channel is
\* opened but one a worker has verified in time; unless a peer asked for it, no
\* other channel is handed over; and no payer gains what it has not paid.
ClosesSettle == \A c \in Channels : IsOpen(c) /\ ~IsOpen(c)' => settled'[c] = settled[c] + 1
OpensVerified == \A p \in Payers : sess'[p].grant.open \subseteq sess[p].grant.open \cup Timely
HandsOverHeld ==
    MAX_CLOSES = 0 => \A c \in Channels :
        settled'[c] = settled[c] \/ (settled'[c] = settled[c] + 1 /\ IsOpen(c) /\ ~IsOpen(c)')
GivesNothing ==
    Accountable => \A p \in Payers : Held(p)' + Paid(p) <= Held(p) + Paid(p)'
StepSettles == ClosesSettle /\ OpensVerified /\ HandsOverHeld /\ GivesNothing

\* What putting good outcomes in place establishes.
Established ==
    /\ sess' \in [Payers -> Session]
    /\ disk' \in [Payers -> Budget]
    /\ settled' \in [Channels -> Nat]
    /\ BudgetSound'
    /\ RecordedIsGranted'
    /\ OpenInSession'
    /\ LinkedInPeers' /\ GateFollowsBudget' /\ ReservedFits' /\ Covered'
    /\ \A p \in Payers : sess'[p].grant.open \subseteq announced' \ verifying'
    /\ StepSettles

(* What a payer has paid is a number of units. *)
LEMMA PaidType ==
    ASSUME NEW p \in Payers, recorded \in [Channels -> U64]
    PROVE  Paid(p) \in Nat
<1> DEFINE S == {c \in Channels : Owner[c] = p}
<1>1. S \in SUBSET Channels /\ IsFiniteSet(S)
  <2>1. IsFiniteSet(Channels) /\ S \in SUBSET Channels
    BY ChannelAssumption
  <2> QED BY <2>1, FS_Subset
<1>2. recorded \in [Channels -> Nat]
  BY WidthNat
<1>3. Paid(p) = SumOver(recorded, S)
  BY DEF Paid
<1> HIDE DEF S
<1> QED BY <1>1, <1>2, <1>3, SumType

(* What a handler starts from is in order. *)
LEMMA StartSound ==
    ASSUME IInv, NEW p \in Payers
    PROVE  /\ SoundOutcome(Start(p)) /\ Booked(p, Start(p), recorded)
           /\ Start(p).s = sess[p] /\ Start(p).kept = disk[p] /\ Start(p).settle = {}
           /\ Start(p).s.grant.open \subseteq announced \ verifying
           /\ Tied(Start(p)) /\ Gated(Start(p))
           /\ Accountable => Charged(Start(p)) /\ Saved(Start(p))
           /\ HeldOf(Start(p)) = Held(p) /\ HeldOf(Start(p)) \in Nat
<1>1. sess[p] \in Session /\ disk[p] \in Budget
  BY DEF IInv, TypeOK
<1>2. Start(p).s = sess[p] /\ Start(p).kept = disk[p] /\ Start(p).settle = {}
  BY DEF Start
<1>3. Start(p) \in Outcome
  BY <1>1 DEF Start, Outcome
<1>4. /\ GrantSound(sess[p].grant)
      /\ sess[p].place # "peers" => sess[p].grant.reserved = 0 /\ sess[p].grant.second = None
  BY DEF IInv, BudgetSound
<1>5. \A c \in sess[p].grant.open : /\ Owner[c] = p
                                    /\ sess[p].grant.signed[c] = recorded[c]
                                    /\ recorded[c] < Capacity[c]
  BY DEF IInv, RecordedIsGranted
<1>6. sess[p].grant.open \subseteq announced \ verifying
  BY DEF IInv, PaidAfterVerified
<1>7. sess[p].place = "none" => sess[p].grant.open = {}
  BY DEF IInv, OpenInSession
<1>8. SoundOutcome(Start(p)) /\ Booked(p, Start(p), recorded)
  BY <1>2, <1>3, <1>4, <1>5, <1>6, <1>7 DEF SoundOutcome, Booked
<1>9. Tied(Start(p)) /\ Gated(Start(p))
  BY <1>2 DEF IInv, LinkedInPeers, GateFollowsBudget, Tied, Gated, InPeers
<1>10. Accountable => Charged(Start(p)) /\ Saved(Start(p))
  BY <1>2 DEF IInv, Covered, Charged, Saved, Even, InPeers
<1>11. HeldOf(Start(p)) = Held(p)
  BY <1>2 DEF HeldOf, Held
<1>12. HeldOf(Start(p)) \in Nat
  BY <1>8, HeldType
<1> QED BY <1>2, <1>6, <1>8, <1>9, <1>10, <1>11, <1>12

(* What gives a payer nothing is accounted for. *)
LEMMA KeepsGood ==
    ASSUME IInv, NEW p \in Payers, NEW o, Keeps(Start(p), o), recorded' = recorded
    PROVE  /\ Tied(o) /\ ReservesLess(Start(p), o)
           /\ Accountable => /\ Charged(o) /\ Saved(o)
                             /\ HeldOf(o) + Paid(p) <= Held(p) + Paid(p)'
<1>1. /\ Tied(Start(p)) /\ (Accountable => Charged(Start(p)) /\ Saved(Start(p)))
      /\ HeldOf(Start(p)) = Held(p) /\ HeldOf(Start(p)) \in Nat
  BY StartSound
<1>2. /\ Tied(o) /\ HeldOf(o) \in Nat /\ ReservesLess(Start(p), o)
      /\ Accountable => Charged(o) /\ Saved(o) /\ HeldOf(o) <= Held(p)
  BY <1>1 DEF Keeps
<1>3. Paid(p)' = Paid(p) /\ Paid(p) \in Nat
  <2>1. recorded \in [Channels -> U64]
    BY DEF IInv, TypeOK
  <2> QED BY <2>1, PaidType DEF Paid
<1>4. Accountable => HeldOf(o) + Paid(p) <= Held(p) + Paid(p)'
  BY <1>1, <1>2, <1>3
<1> QED BY <1>2, <1>4

(* What follows from where a handler started is good, unless the backend or *)
(* the fundings change under it.                                            *)
LEMMA FollowsGood ==
    ASSUME IInv, NEW p \in Payers, NEW o, SoundOutcome(o), Follows(Start(p), o), Gated(o),
           recorded' = recorded,
           announced \ verifying \subseteq announced' \ verifying'
    PROVE  Good(p, o)
<1>1. /\ Booked(p, Start(p), recorded) /\ Start(p).s = sess[p] /\ Start(p).settle = {}
      /\ Start(p).s.grant.open \subseteq announced \ verifying
  BY StartSound
<1>2. Booked(p, o, recorded')
  BY <1>1, FollowsBooked
<1>3. o.s.grant.open \subseteq announced' \ verifying'
  BY <1>1 DEF Follows
<1>4. /\ sess[p].grant.open \subseteq o.s.grant.open \cup o.settle
      /\ o.s.grant.open \subseteq sess[p].grant.open
      /\ o.settle \subseteq sess[p].grant.open \ o.s.grant.open
  BY <1>1 DEF Follows
<1>5. /\ Tied(o)
      /\ Accountable => /\ Charged(o) /\ Saved(o)
                        /\ HeldOf(o) + Paid(p) <= Held(p) + Paid(p)'
  BY KeepsGood DEF Follows
<1> QED BY <1>2, <1>3, <1>4, <1>5 DEF Good

(* Payers that each reserve what they did, or nothing, still fit. *)
LEMMA ReservedAgain ==
    ASSUME IInv, sess' \in [Payers -> Session],
           \A p \in Payers : sess'[p].linked =>
               \/ sess'[p].grant.reserved = 0
               \/ sess[p].linked /\ sess'[p].grant.reserved = sess[p].grant.reserved
    PROVE  ReservedFits'
<1> DEFINE f == [p \in Payers |-> sess[p].grant.reserved]
           g == [p \in Payers |-> sess'[p].grant.reserved]
           S == {p \in Payers : sess[p].linked}
           T == {p \in Payers : sess'[p].linked}
<1>1. sess \in [Payers -> Session]
  BY DEF IInv, TypeOK
<1>2. f \in [Payers -> Nat] /\ g \in [Payers -> Nat]
  BY <1>1, WidthNat DEF Session, GrantState
<1>3. S \in SUBSET Payers /\ T \in SUBSET Payers /\ IsFiniteSet(S) /\ IsFiniteSet(T)
  <2>1. S \in SUBSET Payers /\ T \in SUBSET Payers /\ IsFiniteSet(Payers)
    BY ProviderAssumption
  <2> QED BY <2>1, FS_Subset
<1>4. \A x \in T : g[x] = 0 \/ (x \in S /\ g[x] <= f[x])
  <2> SUFFICES ASSUME NEW x \in T PROVE g[x] = 0 \/ (x \in S /\ g[x] <= f[x])
    OBVIOUS
  <2>1. x \in Payers /\ g[x] \in Nat /\ f[x] \in Nat
    BY <1>2
  <2> QED BY <2>1
<1>5. SumOver(f, S) <= MAX_RATE
  BY DEF IInv, ReservedFits
<1>6. SumOver(g, T) <= MAX_RATE => ReservedFits'
  BY DEF ReservedFits
<1> HIDE DEF f, g, S, T
<1>7. SumOver(g, T) <= SumOver(f, S) /\ SumOver(g, T) \in Nat /\ SumOver(f, S) \in Nat
  BY <1>2, <1>3, <1>4, SumMonotone, SumType
<1>8. MAX_RATE \in Nat
  BY PolicyAssumption, WidthNat
<1>9. SumOver(g, T) <= MAX_RATE
  BY <1>5, <1>7, <1>8
<1> QED BY <1>6, <1>9

(* Good outcomes for every payer. *)
LEMMA CommitAllGood ==
    ASSUME IInv, NEW os, \A p \in Payers : Good(p, os[p]), CommitAll(os), now' = now,
           ReservedFits' \/ \A p \in Payers : ReservesLess(Start(p), os[p])
    PROVE  Established
<1>1. /\ sess' = [p \in Payers |-> os[p].s]
      /\ disk' = [p \in Payers |-> os[p].kept]
      /\ settled' = [c \in Channels |-> settled[c] +
            (IF c \in UNION {os[p].settle : p \in Payers} THEN 1 ELSE 0)]
  BY DEF CommitAll, CountSettled
<1>2. ASSUME NEW p \in Payers
      PROVE  /\ os[p].s \in Session /\ os[p].kept \in Budget
             /\ GrantSound(os[p].s.grant)
             /\ os[p].s.place # "peers" =>
                   os[p].s.grant.reserved = 0 /\ os[p].s.grant.second = None
             /\ Booked(p, os[p], recorded')
             /\ os[p].s.grant.open \subseteq announced' \ verifying'
             /\ sess[p].grant.open \subseteq os[p].s.grant.open \cup os[p].settle
             /\ os[p].s.place = "none" => os[p].s.grant.open = {}
             /\ os[p].s.grant.open \subseteq sess[p].grant.open \cup Timely
             /\ MAX_CLOSES = 0 => os[p].settle \subseteq sess[p].grant.open \ os[p].s.grant.open
  BY DEF Good, SoundOutcome, Outcome
<1>3. /\ sess' \in [Payers -> Session] /\ disk' \in [Payers -> Budget]
      /\ \A p \in Payers : sess'[p] = os[p].s /\ disk'[p] = os[p].kept
  BY <1>1, <1>2
<1>4. settled' \in [Channels -> Nat]
  <2>1. settled \in [Channels -> Nat]
    BY DEF IInv, TypeOK
  <2> QED BY <1>1, <2>1
<1>5. BudgetSound'
  BY <1>2, <1>3 DEF BudgetSound
<1>6. RecordedIsGranted'
  BY <1>2, <1>3 DEF RecordedIsGranted, Booked
<1>7. \A p \in Payers : sess'[p].grant.open \subseteq announced' \ verifying'
  BY <1>2, <1>3
<1>8. ClosesSettle
  <2> SUFFICES ASSUME NEW c \in Channels, IsOpen(c), ~IsOpen(c)'
               PROVE  settled'[c] = settled[c] + 1
    BY DEF ClosesSettle
  <2>1. PICK p \in Payers : c \in sess[p].grant.open
    BY DEF IsOpen
  <2>2. c \notin os[p].s.grant.open
    BY <1>3 DEF IsOpen
  <2>3. c \in os[p].settle
    BY <1>2, <2>1, <2>2
  <2>4. c \in UNION {os[q].settle : q \in Payers}
    BY <2>3
  <2> HIDE <2>1, <2>2, <2>3
  <2> QED BY <1>1, <2>4
<1>9. OpensVerified
  BY <1>2, <1>3 DEF OpensVerified
<1>10. HandsOverHeld
  <2> SUFFICES ASSUME MAX_CLOSES = 0, NEW c \in Channels, settled'[c] # settled[c]
               PROVE  settled'[c] = settled[c] + 1 /\ IsOpen(c) /\ ~IsOpen(c)'
    BY DEF HandsOverHeld
  <2>0. settled[c] \in Nat
    BY DEF IInv, TypeOK
  <2>1. c \in UNION {os[q].settle : q \in Payers} /\ settled'[c] = settled[c] + 1
    BY <1>1, <2>0
  <2>2. PICK p \in Payers : c \in os[p].settle
    BY <2>1
  <2>3. c \in sess[p].grant.open /\ c \notin os[p].s.grant.open
    BY <1>2, <2>2
  <2>4. Owner[c] = p
    BY <2>3 DEF IInv, RecordedIsGranted
  <2>5. ASSUME NEW q \in Payers
        PROVE  c \notin os[q].s.grant.open
    BY <1>2, <2>3, <2>4 DEF Booked
  <2>6. ~IsOpen(c)'
    BY <1>3, <2>5 DEF IsOpen
  <2>7. IsOpen(c)
    BY <2>3 DEF IsOpen
  <2> QED BY <2>1, <2>6, <2>7
<1>11. OpenInSession'
  BY <1>2, <1>3 DEF OpenInSession
<1>12. \A p \in Payers : /\ Tied(os[p]) /\ Gated(os[p])
                         /\ Accountable => /\ Charged(os[p]) /\ Saved(os[p])
                                           /\ HeldOf(os[p]) + Paid(p) <= Held(p) + Paid(p)'
  BY DEF Good
<1>13. LinkedInPeers' /\ GateFollowsBudget'
  <2>1. LinkedInPeers'
    BY <1>3, <1>12 DEF LinkedInPeers, Tied, InPeers
  <2>2. GateFollowsBudget'
    BY <1>3, <1>12 DEF GateFollowsBudget, Gated, InPeers
  <2> QED BY <2>1, <2>2
<1>14. Covered'
  BY <1>3, <1>12 DEF Covered, Charged, Saved, Even, InPeers
<1>15. GivesNothing
  <2>1. \A p \in Payers : Held(p)' = HeldOf(os[p])
    BY <1>3 DEF Held, HeldOf
  <2> QED BY <1>12, <2>1 DEF GivesNothing
<1>16. ReservedFits'
  <2>1. ASSUME \A p \in Payers : ReservesLess(Start(p), os[p])
        PROVE  ReservedFits'
    <3>1. \A p \in Payers : Start(p).s = sess[p]
      BY StartSound
    <3>2. \A p \in Payers : sess'[p].linked =>
             \/ sess'[p].grant.reserved = 0
             \/ sess[p].linked /\ sess'[p].grant.reserved = sess[p].grant.reserved
      BY <1>3, <2>1, <3>1 DEF ReservesLess
    <3> QED BY <1>3, <3>2, ReservedAgain
  <2> QED BY <2>1
<1> QED BY <1>3, <1>4, <1>5, <1>6, <1>7, <1>8, <1>9, <1>10, <1>11, <1>13, <1>14, <1>15, <1>16
    DEF Established, StepSettles

(* A good outcome for one payer; the others stay as they are. *)
LEMMA CommitGood ==
    ASSUME IInv, NEW p \in Payers, NEW o, Good(p, o), Commit(p, o), now' = now,
           ReservedFits' \/ ReservesLess(Start(p), o),
           \A q \in Payers \ {p} : Good(q, Start(q))
    PROVE  Established
<1> DEFINE os == [q \in Payers |-> IF q = p THEN o ELSE Start(q)]
<1>1. \A q \in Payers : Good(q, os[q])
  OBVIOUS
<1>2. /\ sess' = [sess EXCEPT ![p] = o.s]
      /\ disk' = [disk EXCEPT ![p] = o.kept]
      /\ settled' = CountSettled(o.settle)
  BY DEF Commit
<1>3. sess \in [Payers -> Session] /\ disk \in [Payers -> Budget]
  BY DEF IInv, TypeOK
<1>4. \A q \in Payers : /\ Start(q).s = sess[q] /\ Start(q).kept = disk[q]
                        /\ Start(q).settle = {}
  BY StartSound
<1>5. sess' = [q \in Payers |-> os[q].s]
  BY <1>2, <1>3, <1>4
<1>6. disk' = [q \in Payers |-> os[q].kept]
  BY <1>2, <1>3, <1>4
<1>7. UNION {os[q].settle : q \in Payers} = o.settle
  BY <1>4
<1>8. CommitAll(os)
  BY <1>2, <1>5, <1>6, <1>7 DEF CommitAll
<1>9. ReservesLess(Start(p), o) => \A q \in Payers : ReservesLess(Start(q), os[q])
  BY DEF ReservesLess
<1> HIDE DEF os
<1> QED BY <1>1, <1>8, <1>9, CommitAllGood

(* A step that leaves the backend alone and commits what follows for one payer. *)
LEMMA CommitFollows ==
    ASSUME IInv, NEW p \in Payers, NEW o, SoundOutcome(o), Follows(Start(p), o), Gated(o),
           Commit(p, o), recorded' = recorded, now' = now,
           announced \ verifying \subseteq announced' \ verifying'
    PROVE  Established
<1>1. Good(p, o)
  BY FollowsGood
<1>2. ASSUME NEW q \in Payers
      PROVE  Good(q, Start(q))
  <2>1. SoundOutcome(Start(q)) /\ Follows(Start(q), Start(q)) /\ Gated(Start(q))
    BY StartSound, FollowsNothing
  <2> QED BY <2>1, FollowsGood
<1>3. ReservesLess(Start(p), o)
  BY DEF Follows, Keeps
<1> QED BY <1>1, <1>2, <1>3, CommitGood

(* The invariant holds again once its other parts do. *)
LEMMA InvariantAgain ==
    ASSUME Established, now' \in U64, tickDue' \in BOOLEAN,
           overrides' \in [Payers -> Policies], recorded' \in [Channels -> U64],
           announced' \subseteq Channels, verifying' \subseteq announced', Overridden',
           \A c \in Channels : recorded'[c] # 0 => c \in announced' \ verifying'
    PROVE  IInv'
<1>1. TypeOK'
  BY DEF Established, TypeOK
<1>2. PaidAfterVerified'
  BY DEF Established, PaidAfterVerified
<1> QED BY <1>1, <1>2 DEF Established, IInv

(* A session can be exchanged for another sound one. *)
LEMMA ResessionSound ==
    ASSUME NEW o \in Outcome, NEW t \in Session, GrantSound(t.grant),
           t.place # "peers" => t.grant.reserved = 0 /\ t.grant.second = None,
           t.place = "none" => t.grant.open = {}
    PROVE  /\ SoundOutcome([o EXCEPT !.s = t])
           /\ [o EXCEPT !.s = t].s = t
           /\ [o EXCEPT !.s = t].settle = o.settle
           /\ [o EXCEPT !.s = t].kept = o.kept
BY DEF SoundOutcome, Outcome

(* A gate is as good for a session that differs in nothing the gate reads. *)
LEMMA GatedSame ==
    ASSUME NEW o, NEW q, Gated(o), SameTerms(o, q), SameBudget(o.s.grant, q.s.grant)
    PROVE  Gated(q)
BY DEF Gated, SameTerms, SameBudget, IsLive

(* Hearing from the peer. *)
LEMMA HeardSound ==
    ASSUME IInv, NEW p \in Payers
    PROVE  /\ SoundOutcome(Heard(p)) /\ Follows(Start(p), Heard(p))
           /\ SameTerms(Start(p), Heard(p)) /\ Gated(Heard(p))
           /\ Heard(p).s.place = sess[p].place
           /\ Heard(p).s.grant = sess[p].grant
           /\ Heard(p).settle = {}
<1> DEFINE t == [sess[p] EXCEPT !.last_seen = now]
<1>1. sess[p] \in Session /\ now \in U64
  BY DEF IInv, TypeOK
<1>2. /\ t \in Session /\ t.grant = sess[p].grant /\ t.place = sess[p].place
      /\ t.closing = sess[p].closing /\ t.linked = sess[p].linked
      /\ t.policy = sess[p].policy /\ t.access = sess[p].access /\ t.applied = sess[p].applied
  BY <1>1 DEF Session
<1>3. /\ SoundOutcome(Start(p)) /\ Start(p).s = sess[p] /\ Start(p).settle = {}
      /\ Gated(Start(p))
  BY StartSound
<1>4. Heard(p) = [Start(p) EXCEPT !.s = t]
  BY <1>3 DEF Heard, Start
<1> HIDE DEF t
<1>5. Start(p) \in Outcome
  BY <1>3 DEF SoundOutcome
<1>6. /\ SoundOutcome(Heard(p)) /\ Heard(p).s = t /\ Heard(p).settle = {}
      /\ Heard(p).kept = Start(p).kept
  BY <1>2, <1>3, <1>4, <1>5, ResessionSound DEF SoundOutcome
<1>7. Follows(Start(p), Heard(p))
  BY <1>2, <1>3, <1>6, FollowsSame
<1>8. SameTerms(Start(p), Heard(p))
  BY <1>2, <1>3, <1>6 DEF SameTerms
<1>9. Gated(Heard(p))
  <2>1. SameBudget(Start(p).s.grant, Heard(p).s.grant)
    BY <1>2, <1>3, <1>6 DEF SameBudget
  <2> QED BY <1>3, <1>8, <2>1, GatedSame
<1> QED BY <1>2, <1>6, <1>7, <1>8, <1>9

(* A TopUp whose signatures were checked. *)
LEMMA CheckedSound ==
    ASSUME IInv, NEW p \in Payers
    PROVE  /\ SoundOutcome(Checked(p)) /\ Follows(Start(p), Checked(p))
           /\ SameTerms(Heard(p), Checked(p))
           /\ Checked(p).s.place = sess[p].place
           /\ Checked(p).s.grant.open = sess[p].grant.open
           /\ Checked(p).s.grant.signed = sess[p].grant.signed
           /\ Checked(p).s.grant.reserved = sess[p].grant.reserved
           /\ Checked(p).settle = {}
<1> DEFINE g == [sess[p].grant EXCEPT !.last_topup = now]
<1>1. sess[p].grant \in GrantState /\ now \in U64 /\ GrantSound(sess[p].grant)
  BY DEF IInv, TypeOK, BudgetSound, Session
<1>2. /\ g \in GrantState /\ g.open = sess[p].grant.open
      /\ g.signed = sess[p].grant.signed
      /\ g.reserved = sess[p].grant.reserved /\ g.second = sess[p].grant.second
      /\ g.consumed = sess[p].grant.consumed /\ g.authorized = sess[p].grant.authorized
      /\ g.deadline = sess[p].grant.deadline
  BY <1>1 DEF GrantState
<1>3. GrantSound(g) /\ SameBudget(sess[p].grant, g)
  BY <1>1, <1>2 DEF GrantSound, Remaining, SameBudget
<1>4. /\ SoundOutcome(Heard(p)) /\ Follows(Start(p), Heard(p))
      /\ Heard(p).s.grant = sess[p].grant /\ Heard(p).settle = {}
      /\ Heard(p).s.place = sess[p].place
  BY HeardSound
<1>5. Checked(p) = [Heard(p) EXCEPT !.s.grant = g]
  BY <1>4 DEF Checked
<1> HIDE DEF g
<1>6. /\ Heard(p) \in Outcome /\ (Heard(p).s.place # "peers" => g.reserved = 0 /\ g.second = None)
      /\ Heard(p).s.place = "none" => g.open = {}
  BY <1>2, <1>4 DEF SoundOutcome
<1>7. /\ SoundOutcome(Checked(p)) /\ Checked(p).s.grant = g
      /\ Checked(p).settle = {} /\ Checked(p).s.place = sess[p].place
      /\ SameTerms(Heard(p), Checked(p))
  BY <1>1, <1>2, <1>3, <1>4, <1>5, <1>6, RegrantSound
<1>8. Follows(Heard(p), Checked(p))
  <2>1. Keeps(Heard(p), Checked(p))
    BY <1>2, <1>3, <1>4, <1>7, KeepsSame DEF SameTerms
  <2> QED BY <1>2, <1>4, <1>7, <2>1 DEF Follows
<1> QED BY <1>2, <1>4, <1>7, <1>8, FollowsOn

(* An ended session keeps what it holds until its connection goes. *)
LEMMA EndedSound ==
    ASSUME NEW o, SoundOutcome(o)
    PROVE  SoundOutcome(Ended(o)) /\ Follows(o, Ended(o)) /\ Gated(Ended(o))
<1> DEFINE t == [o.s EXCEPT !.closing = TRUE, !.linked = FALSE]
<1>1. o \in Outcome /\ o.s \in Session
  BY DEF SoundOutcome, Outcome
<1>2. /\ t \in Session /\ t.grant = o.s.grant /\ t.place = o.s.place
      /\ t.closing = TRUE /\ t.linked = FALSE /\ t.policy = o.s.policy
  BY <1>1 DEF Session
<1>3. Ended(o) = [o EXCEPT !.s = t]
  BY DEF Ended
<1> HIDE DEF t
<1>4. /\ SoundOutcome(Ended(o)) /\ Ended(o).s = t /\ Ended(o).settle = o.settle
      /\ Ended(o).kept = o.kept
  BY <1>1, <1>2, <1>3, ResessionSound DEF SoundOutcome
<1>5. Follows(o, Ended(o))
  BY <1>2, <1>4, FollowsSame
<1>6. Gated(Ended(o))
  BY <1>2, <1>4 DEF Gated
<1> QED BY <1>4, <1>5, <1>6

(* A session wound up leaves its budget on disk. *)
LEMMA WoundUpSound ==
    ASSUME IInv, NEW p \in Payers, sess[p].place # "none",
           NEW o, o = Gone(Discard(SaveBudget(Start(p))))
    PROVE  SoundOutcome(o) /\ Follows(Start(p), o) /\ Gated(o)
<1> DEFINE q == SaveBudget(Start(p))
<1>1. SoundOutcome(Start(p)) /\ now \in U64 /\ Start(p).s = sess[p]
  BY StartSound DEF IInv, TypeOK
<1>2. /\ SoundOutcome(q) /\ Follows(Start(p), q) /\ q.s = Start(p).s
      /\ Charged(Start(p)) => Even(q)
  BY <1>1, SaveBudgetSound
<1>3. o = Gone(Discard(q))
  OBVIOUS
<1> HIDE DEF q
<1>4. q.s.place # "none" /\ (Charged(q) /\ Saved(q) => Even(q))
  BY <1>1, <1>2 DEF Charged
<1>5. /\ SoundOutcome(Gone(Discard(q))) /\ Follows(q, Gone(Discard(q)))
      /\ Gone(Discard(q)).s = NoSession
  BY <1>2, <1>4, GivenUpSound
<1>6. Gated(o)
  BY <1>3, <1>5, NoSessionSound DEF Gated
<1> QED BY <1>2, <1>3, <1>5, <1>6, FollowsOn

(* A session over is settled whole. *)
LEMMA OverSound ==
    ASSUME IInv, NEW p \in Payers
    PROVE  /\ SoundOutcome(Over(p)) /\ Follows(Start(p), Over(p))
           /\ Over(p).s.grant.open = {}
           /\ Over(p).s.linked = sess[p].linked
           /\ ~InPeers(p) => Over(p).kept = disk[p]
<1> DEFINE o == IF InPeers(p) THEN SaveBudget(Start(p)) ELSE Start(p)
<1>1. /\ SoundOutcome(Start(p)) /\ now \in U64 /\ Follows(Start(p), Start(p))
      /\ Start(p).s = sess[p] /\ Start(p).kept = disk[p]
  BY StartSound, FollowsNothing DEF IInv, TypeOK
<1>2. SoundOutcome(o) /\ Follows(Start(p), o) /\ o.s = sess[p]
  <2>1. CASE InPeers(p)
    <3>1. Start(p).s.place # "none"
      BY <1>1, <2>1 DEF InPeers
    <3> QED BY <1>1, <2>1, <3>1, SaveBudgetSound
  <2> QED BY <1>1, <2>1
<1>3. Over(p) = Discard(o) /\ (~InPeers(p) => o.kept = disk[p])
  BY <1>1 DEF Over
<1> HIDE DEF o
<1>4. /\ SoundOutcome(Discard(o)) /\ Follows(o, Discard(o))
      /\ Discard(o).s.grant.open = {} /\ SameTerms(o, Discard(o))
  BY <1>2, DiscardSound
<1>5. Discard(o).s.linked = sess[p].linked /\ Discard(o).kept = o.kept
  BY <1>2, <1>4 DEF SameTerms
<1> QED BY <1>2, <1>3, <1>4, <1>5, FollowsOn

(* A session on a fresh connection. *)
LEMMA NewSessionType ==
    ASSUME IInv, NEW policy \in Policies, NEW g \in GrantState
    PROVE  /\ NewSession(policy, g) \in Session
           /\ NewSession(policy, g).grant = g
           /\ NewSession(policy, g).place = "peers"
           /\ NewSession(policy, g).closing = FALSE
           /\ NewSession(policy, g).policy = policy
<1>1. now \in U64
  BY DEF IInv, TypeOK
<1>2. NoSession.closing = FALSE
  BY DEF NoSession
<1> QED BY <1>1, <1>2, NoSessionSound DEF NewSession, Session, Places

(* The session kept is taken up with its channels and what was left of its *)
(* budget.                                                                 *)
LEMMA ResumedSound ==
    ASSUME IInv, NEW p \in Payers, Kept(p)
    PROVE  SoundOutcome(Resumed(p)) /\ Follows(Start(p), Resumed(p))
<1> DEFINE g == Restart(sess[p].grant, now)
           n == NewSession(overrides[p], g)
           t == [n EXCEPT !.resumed = Buying]
           q == Resumed(p)
<1>1. /\ now \in U64 /\ overrides[p] \in Policies /\ disk[p] \in Budget
      /\ sess[p].grant \in GrantState /\ GrantSound(sess[p].grant)
  BY DEF IInv, TypeOK, BudgetSound, Session
<1>2. /\ g \in GrantState /\ GrantSound(g) /\ g.reserved = 0
      /\ g.open = sess[p].grant.open /\ g.signed = sess[p].grant.signed
      /\ Dwindles(sess[p].grant, g)
  BY <1>1, RestartSound, RestartDraws
<1>3. q = [Start(p) EXCEPT !.s = t]
  BY DEF Resumed
<1> HIDE DEF g, q
<1>4. /\ n \in Session /\ n.grant = g /\ n.place = "peers" /\ n.closing = FALSE
      /\ n.policy = overrides[p]
  BY <1>1, <1>2, NewSessionType
<1> HIDE DEF n
<1>5. /\ t \in Session /\ t.grant = g /\ t.place = "peers" /\ t.closing = FALSE
      /\ t.policy = overrides[p]
  BY <1>4, ProviderAssumption DEF Session
<1> HIDE DEF t
<1>6. /\ SoundOutcome(Start(p)) /\ Start(p) \in Outcome /\ Start(p).s = sess[p]
      /\ Start(p).kept = disk[p]
  BY StartSound DEF SoundOutcome
<1>7. /\ SoundOutcome(q) /\ q.s = t /\ q.settle = Start(p).settle /\ q.kept = disk[p]
  BY <1>2, <1>3, <1>5, <1>6, ResessionSound
<1>8. HeldOf(Start(p)) \in Nat /\ HeldOf(q) \in Nat
  BY <1>6, <1>7, HeldType
<1>9. sess[p].place = "peers" \/ sess[p].place = "parked"
  BY DEF Kept
<1>10. HeldOf(q) <= HeldOf(Start(p))
  <2>1. /\ HeldOf(q) = BudgetOf(g, now).remaining
        /\ HeldOf(Start(p)) = BudgetOf(sess[p].grant, now).remaining
    BY <1>5, <1>6, <1>7, <1>9 DEF HeldOf
  <2> QED BY <1>1, <1>2, <2>1, BudgetDwindles
<1>11. Saved(Start(p)) => Saved(q)
  <2> SUFFICES ASSUME Saved(Start(p))
               PROVE  CoversAt(disk[p], g, now)
    BY <1>5, <1>7 DEF Saved
  <2>1. CoversAt(disk[p], sess[p].grant, now)
    <3>1. sess[p].place = "parked" =>
            BudgetAt(disk[p], now) = BudgetOf(sess[p].grant, now)
      BY <1>6 DEF Saved, Even
    <3>2. sess[p].place = "peers" => CoversAt(disk[p], sess[p].grant, now)
      BY <1>6 DEF Saved
    <3> QED BY <1>1, <1>9, <3>1, <3>2, EvenCovers
  <2> QED BY <1>1, <1>2, <2>1, CoversDwindled
<1>12. Accountable => Charged(q)
  BY <1>5, <1>7 DEF IInv, Overridden, Charged
<1>13. Tied(q) /\ ReservesLess(Start(p), q)
  BY <1>2, <1>5, <1>7 DEF Tied, ReservesLess
<1>14. Keeps(Start(p), q)
  BY <1>8, <1>10, <1>11, <1>12, <1>13 DEF Keeps
<1>15. Follows(Start(p), q)
  BY <1>2, <1>5, <1>6, <1>7, <1>14 DEF Follows
<1> QED BY <1>7, <1>15 DEF q

(* A session from disk has no channels, and the budget that was kept. *)
LEMMA FreshSound ==
    ASSUME IInv, NEW p \in Payers, ~Kept(p), InPeers(p) /\ sess[p].closing => Overlap
    PROVE  SoundOutcome(Fresh(p)) /\ Follows(Start(p), Fresh(p))
<1> DEFINE g == Restore(NewGrant, disk[p], now)
           t == NewSession(overrides[p], g)
           q == Fresh(p)
<1>1. now \in U64 /\ overrides[p] \in Policies /\ disk[p] \in Budget /\ sess[p] \in Session
  BY DEF IInv, TypeOK
<1>2. /\ g \in GrantState /\ GrantSound(g) /\ g.open = {} /\ g.reserved = 0
      /\ BudgetOf(g, now) = BudgetAt(disk[p], now)
  BY <1>1, NewGrantSound, RestoreSound, RestoreHolds
<1>3. q = [Over(p) EXCEPT !.s = t]
  BY DEF Fresh
<1> HIDE DEF g, q
<1>4. /\ t \in Session /\ t.grant = g /\ t.place = "peers" /\ t.closing = FALSE
      /\ t.policy = overrides[p]
  BY <1>1, <1>2, NewSessionType, ZenonT(30)
<1> HIDE DEF t
<1>5. /\ Over(p) \in Outcome /\ Follows(Start(p), Over(p))
      /\ Over(p).s.grant.open = {} /\ (~InPeers(p) => Over(p).kept = disk[p])
  BY OverSound DEF SoundOutcome
<1>6. /\ SoundOutcome(q) /\ q.s = t /\ q.settle = Over(p).settle /\ q.kept = Over(p).kept
  BY <1>2, <1>3, <1>4, <1>5, ResessionSound
<1>7. /\ SoundOutcome(Start(p)) /\ Start(p).s = sess[p] /\ Start(p).kept = disk[p]
  BY StartSound
<1>8. HeldOf(Start(p)) \in Nat /\ HeldOf(q) \in Nat
  BY <1>6, <1>7, HeldType
<1>9. Accountable => sess[p].place = "none" \/ sess[p].place = "parked"
  <2>1. sess[p].place \in Places
    BY <1>1 DEF Session
  <2> QED BY <2>1 DEF Kept, InPeers, Accountable, Places
<1>10. Accountable /\ Saved(Start(p)) => HeldOf(q) <= HeldOf(Start(p)) /\ Saved(q)
  <2> SUFFICES ASSUME Accountable, Saved(Start(p))
               PROVE  HeldOf(q) <= HeldOf(Start(p)) /\ Saved(q)
    OBVIOUS
  <2>1. q.kept = disk[p] /\ q.s.grant = g /\ q.s.place = "peers"
    BY <1>4, <1>5, <1>6, <1>9 DEF InPeers
  <2>2. HeldOf(q) = BudgetAt(disk[p], now).remaining
    BY <1>2, <2>1 DEF HeldOf
  <2>3. HeldOf(Start(p)) = BudgetAt(disk[p], now).remaining
    BY <1>7, <1>9 DEF HeldOf, Saved, Even
  <2>4. CoversAt(disk[p], g, now)
    BY <1>1, <1>2, EvenCovers
  <2>5. Saved(q)
    BY <2>1, <2>4 DEF Saved
  <2> QED BY <1>8, <2>2, <2>3, <2>5
<1>11. Accountable => Charged(q)
  BY <1>4, <1>6 DEF IInv, Overridden, Charged
<1>12. Tied(q) /\ ReservesLess(Start(p), q)
  BY <1>2, <1>4, <1>6 DEF Tied, ReservesLess
<1>13. Keeps(Start(p), q)
  BY <1>8, <1>10, <1>11, <1>12 DEF Keeps
<1>14. Follows(Start(p), q)
  BY <1>2, <1>4, <1>5, <1>6, <1>13 DEF Follows
<1> QED BY <1>6, <1>14 DEF q

-----------------------------------------------------------------------------
(* One lemma per action. *)

(* What most steps leave alone of the invariant. *)
LEMMA QuietStep ==
    ASSUME IInv, Established, UNCHANGED <<now, overrides, verifying, announced, recorded>>,
           tickDue' \in BOOLEAN
    PROVE  IInv' /\ StepSettles
<1>1. /\ now' \in U64 /\ overrides' \in [Payers -> Policies]
      /\ recorded' \in [Channels -> U64] /\ announced' \subseteq Channels
      /\ verifying' \subseteq announced'
      /\ \A c \in Channels : recorded'[c] # 0 => c \in announced' \ verifying'
  BY DEF IInv, TypeOK, PaidAfterVerified
<1>2. Overridden'
  BY DEF IInv, Overridden
<1> QED BY <1>1, <1>2, InvariantAgain DEF Established

(* A handler that commits what follows, and touches nothing else. *)
LEMMA HandlerStep ==
    ASSUME IInv, NEW p \in Payers, NEW o, SoundOutcome(o), Follows(Start(p), o), Gated(o),
           Commit(p, o),
           UNCHANGED <<now, tickDue, overrides, verifying, announced, recorded>>
    PROVE  IInv' /\ StepSettles
<1>1. Established
  BY CommitFollows
<1>2. tickDue' \in BOOLEAN
  BY DEF IInv, TypeOK
<1> QED BY <1>1, <1>2, QuietStep

(* A connection, whether it resumes, starts from disk, or replaces another. *)
LEMMA PeerUpStep ==
    ASSUME IInv, NEW p \in Payers, PeerUp(p)
    PROVE  IInv' /\ StepSettles
<1> DEFINE started == IF Kept(p) THEN SettleExpiring(Resumed(p)) ELSE Fresh(p)
           live    == overrides[p] # "no_charge" /\ IsLive(started.s.grant, now)
           t       == [started.s EXCEPT !.budget_live = live]
           told    == [started EXCEPT !.s = t]
<1>1. now \in U64
  BY DEF IInv, TypeOK
<1>2. SoundOutcome(started) /\ Follows(Start(p), started)
  <2>1. CASE Kept(p)
    <3>1. SoundOutcome(Resumed(p)) /\ Follows(Start(p), Resumed(p))
      BY <2>1, ResumedSound
    <3>2. /\ SoundOutcome(SettleExpiring(Resumed(p)))
          /\ Follows(Resumed(p), SettleExpiring(Resumed(p)))
      BY <3>1, SettleExpiringSound
    <3> QED BY <2>1, <3>1, <3>2, FollowsOn
  <2>2. CASE ~Kept(p)
    <3>1. InPeers(p) /\ sess[p].closing => Overlap
      BY DEF PeerUp
    <3> QED BY <2>2, <3>1, FreshSound
  <2> QED BY <2>1, <2>2
<1>3. live \in BOOLEAN
  BY DEF IsLive
<1>4. /\ Commit(p, Refresh([started EXCEPT !.s.budget_live = live]))
      /\ UNCHANGED <<now, tickDue, overrides, verifying, announced, recorded>>
  BY DEF PeerUp
<1> HIDE DEF started, live
<1>5. started \in Outcome /\ started.s \in Session
  BY <1>2 DEF SoundOutcome, Outcome
<1>6. /\ t \in Session /\ t.grant = started.s.grant /\ t.place = started.s.place
      /\ t.linked = started.s.linked /\ t.closing = started.s.closing
      /\ t.policy = started.s.policy
  BY <1>3, <1>5 DEF Session
<1>7. told = [started EXCEPT !.s.budget_live = live]
  BY <1>5 DEF Outcome
<1> HIDE DEF t
<1>8. SoundOutcome(told) /\ told.s = t /\ told.settle = started.settle /\ told.kept = started.kept
  BY <1>2, <1>5, <1>6, ResessionSound DEF SoundOutcome
<1> HIDE DEF told
<1>9. Follows(started, told)
  BY <1>2, <1>6, <1>8, FollowsSame
<1>10. SoundOutcome(Refresh(told)) /\ Follows(told, Refresh(told)) /\ Gated(Refresh(told))
  BY <1>1, <1>8, RefreshSound
<1>11. Follows(Start(p), Refresh(told))
  BY <1>2, <1>9, <1>10, FollowsOn
<1>12. Commit(p, Refresh(told))
  BY <1>4, <1>7
<1> QED BY <1>4, <1>10, <1>11, <1>12, HandlerStep

(* A change to a session that leaves its budget and place alone. *)
LEMMA TouchedSound ==
    ASSUME IInv, NEW p \in Payers, NEW t \in Session,
           t.grant = sess[p].grant, t.place = sess[p].place,
           t.linked => sess[p].linked, t.closing = sess[p].closing,
           t.policy = sess[p].policy \/ (Accountable => t.policy # "no_charge")
    PROVE  /\ SoundOutcome([Start(p) EXCEPT !.s = t])
           /\ Follows(Start(p), [Start(p) EXCEPT !.s = t])
           /\ [Start(p) EXCEPT !.s = t].s = t
<1> DEFINE q == [Start(p) EXCEPT !.s = t]
<1>1. /\ SoundOutcome(Start(p)) /\ Start(p).s = sess[p] /\ Start(p) \in Outcome
  BY StartSound DEF SoundOutcome
<1>2. SoundOutcome(q) /\ q.s = t /\ q.settle = Start(p).settle /\ q.kept = Start(p).kept
  BY <1>1, ResessionSound DEF SoundOutcome
<1> HIDE DEF q
<1>3. q.s.policy = Start(p).s.policy \/ (Accountable => Charged(q))
  BY <1>1, <1>2 DEF Charged
<1>4. Follows(Start(p), q)
  BY <1>1, <1>2, <1>3, FollowsSame
<1> QED BY <1>2, <1>4 DEF q

(* A blocked peer's connection changes nothing it holds. *)
LEMMA PeerUpBlockedStep ==
    ASSUME IInv, NEW p \in Payers, PeerUpBlocked(p)
    PROVE  IInv' /\ StepSettles
<1> DEFINE t == [sess[p] EXCEPT !.linked = FALSE]
           q == [Start(p) EXCEPT !.s = t]
<1>1. sess[p] \in Session
  BY DEF IInv, TypeOK
<1>2. /\ t \in Session /\ t.grant = sess[p].grant /\ t.place = sess[p].place
      /\ t.linked = FALSE /\ t.closing = sess[p].closing /\ t.policy = sess[p].policy
      /\ t.access = sess[p].access /\ t.applied = sess[p].applied
  BY <1>1 DEF Session
<1>3. /\ Commit(p, q)
      /\ UNCHANGED <<now, tickDue, overrides, verifying, announced, recorded>>
  BY DEF PeerUpBlocked
<1> HIDE DEF t
<1>4. SoundOutcome(q) /\ Follows(Start(p), q) /\ q.s = t
  BY <1>2, TouchedSound
<1> HIDE DEF q
<1>5. Gated(q)
  <2>1. Gated(Start(p)) /\ Start(p).s = sess[p]
    BY StartSound
  <2> QED BY <1>2, <1>4, <2>1 DEF Gated
<1> QED BY <1>3, <1>4, <1>5, HandlerStep

(* The end of a connection parks the session or settles it. *)
LEMMA PeerDownStep ==
    ASSUME IInv, NEW p \in Payers, PeerDown(p)
    PROVE  IInv' /\ StepSettles
<1> DEFINE w == Gone(Discard(SaveBudget(Start(p))))
           o == IF sess[p].closing THEN w ELSE Park(Start(p))
<1>1. SoundOutcome(Start(p)) /\ now \in U64 /\ Start(p).s.place = "peers" /\ sess[p].place = "peers"
  BY StartSound DEF IInv, TypeOK, PeerDown, InPeers
<1>2. SoundOutcome(w) /\ Follows(Start(p), w) /\ Gated(w)
  BY <1>1, WoundUpSound
<1>3. SoundOutcome(Park(Start(p))) /\ Follows(Start(p), Park(Start(p))) /\ Gated(Park(Start(p)))
  BY <1>1, ParkSound DEF Gated
<1>4. /\ Commit(p, o)
      /\ UNCHANGED <<now, tickDue, overrides, verifying, announced, recorded>>
  BY DEF PeerDown
<1> HIDE DEF w
<1>5. SoundOutcome(o) /\ Follows(Start(p), o) /\ Gated(o)
  BY <1>2, <1>3
<1> HIDE DEF o
<1> QED BY <1>4, <1>5, HandlerStep

(* A Disconnect ends the session. *)
LEMMA RecvDisconnectStep ==
    ASSUME IInv, NEW p \in Payers, RecvDisconnect(p)
    PROVE  IInv' /\ StepSettles
<1>1. SoundOutcome(Heard(p)) /\ Follows(Start(p), Heard(p))
  BY HeardSound
<1>2. /\ SoundOutcome(Ended(Heard(p))) /\ Follows(Heard(p), Ended(Heard(p)))
      /\ Gated(Ended(Heard(p)))
  BY <1>1, EndedSound
<1>3. Follows(Start(p), Ended(Heard(p)))
  BY <1>1, <1>2, FollowsOn
<1>4. /\ Commit(p, Ended(Heard(p)))
      /\ UNCHANGED <<now, tickDue, overrides, verifying, announced, recorded>>
  BY DEF RecvDisconnect
<1> QED BY <1>2, <1>3, <1>4, HandlerStep

(* An Offer, affirming or not, and a channel funded to pay the peer on. *)
LEMMA RecvOfferStep ==
    ASSUME IInv, NEW p \in Payers, RecvOffer(p)
    PROVE  IInv' /\ StepSettles
<1>1. /\ SoundOutcome(Heard(p)) /\ Follows(Start(p), Heard(p)) /\ now \in U64
      /\ Heard(p) \in Outcome /\ Heard(p).s \in Session
  BY HeardSound DEF IInv, TypeOK, SoundOutcome, Outcome
<1>2. PICK affirmed \in {FALSE, sess[p].resumed} : Commit(p, Opened(Heard(p), affirmed))
  BY DEF RecvOffer
<1>3. affirmed \in BOOLEAN
  BY DEF IInv, TypeOK, Session
<1> DEFINE s == Heard(p).s
           t == [s EXCEPT !.resumed = FALSE, !.closing = @ /\ ~affirmed]
           q == [Heard(p) EXCEPT !.s = t]
<1>4. Opened(Heard(p), affirmed) = Refresh(q)
  BY DEF Opened
<1>5. /\ t \in Session /\ t.grant = s.grant /\ t.place = s.place
      /\ t.linked = s.linked /\ t.policy = s.policy /\ (~s.closing => ~t.closing)
  BY <1>1, <1>3 DEF Session
<1> HIDE DEF t
<1>6. SoundOutcome(q) /\ q.s = t /\ q.settle = Heard(p).settle /\ q.kept = Heard(p).kept
  BY <1>1, <1>5, ResessionSound DEF SoundOutcome
<1> HIDE DEF q
<1>7. Follows(Heard(p), q)
  BY <1>1, <1>5, <1>6, FollowsSame
<1>8. SoundOutcome(Refresh(q)) /\ Follows(q, Refresh(q)) /\ Gated(Refresh(q))
  BY <1>1, <1>6, RefreshSound
<1>9. Follows(Start(p), Refresh(q))
  BY <1>1, <1>7, <1>8, FollowsOn
<1>10. UNCHANGED <<now, tickDue, overrides, verifying, announced, recorded>>
  BY DEF RecvOffer
<1> QED BY <1>2, <1>4, <1>8, <1>9, <1>10, HandlerStep

(* Our own channel is funded: the session is refreshed, as after any change. *)
LEMMA OutgoingFundedStep ==
    ASSUME IInv, NEW p \in Payers, OutgoingFunded(p)
    PROVE  IInv' /\ StepSettles
<1>1. SoundOutcome(Start(p)) /\ now \in U64
  BY StartSound DEF IInv, TypeOK
<1>2. /\ SoundOutcome(Refresh(Start(p))) /\ Follows(Start(p), Refresh(Start(p)))
      /\ Gated(Refresh(Start(p)))
  BY <1>1, RefreshSound
<1>3. /\ Commit(p, Refresh(Start(p)))
      /\ UNCHANGED <<now, tickDue, overrides, verifying, announced, recorded>>
  BY DEF OutgoingFunded
<1> QED BY <1>2, <1>3, HandlerStep

(* A new channel is announced: no channel recognised or paid on is among the *)
(* ones now being verified.                                                  *)
LEMMA AnnounceStep ==
    ASSUME IInv, NEW p \in Payers, NEW c \in Channels, c \notin announced,
           NEW o, SoundOutcome(o), Follows(Start(p), o), Gated(o), Commit(p, o),
           announced' = announced \cup {c}, verifying' = verifying \cup {c},
           UNCHANGED <<now, tickDue, overrides, recorded>>
    PROVE  IInv' /\ StepSettles
<1>1. announced \ verifying \subseteq announced' \ verifying'
  OBVIOUS
<1>2. Established
  BY <1>1, CommitFollows
<1>3. /\ now' \in U64 /\ tickDue' \in BOOLEAN /\ overrides' \in [Payers -> Policies]
      /\ recorded' \in [Channels -> U64] /\ announced' \subseteq Channels
      /\ verifying' \subseteq announced'
      /\ \A d \in Channels : recorded'[d] # 0 => d \in announced' \ verifying'
  BY <1>1 DEF IInv, TypeOK, PaidAfterVerified
<1>4. Overridden'
  BY DEF IInv, Overridden
<1> QED BY <1>2, <1>3, <1>4, InvariantAgain DEF Established

(* An Accept settles what the payer has forgotten, then has its funding *)
(* verified.                                                            *)
LEMMA RecvAcceptStep ==
    ASSUME IInv, NEW p \in Payers, NEW c \in Channels, RecvAccept(p, c)
    PROVE  IInv' /\ StepSettles
<1>1. SoundOutcome(Heard(p)) /\ Follows(Start(p), Heard(p)) /\ Gated(Heard(p))
  BY HeardSound
<1>2. /\ SoundOutcome(Discard(Heard(p))) /\ Follows(Heard(p), Discard(Heard(p)))
      /\ SameTerms(Heard(p), Discard(Heard(p)))
      /\ SameBudget(Heard(p).s.grant, Discard(Heard(p)).s.grant)
  BY <1>1, DiscardSound
<1>3. Follows(Start(p), Discard(Heard(p)))
  BY <1>1, <1>2, FollowsOn
<1>4. /\ c \notin announced /\ Commit(p, Discard(Heard(p)))
      /\ announced' = announced \cup {c} /\ verifying' = verifying \cup {c}
      /\ UNCHANGED <<now, tickDue, overrides, recorded>>
  BY DEF RecvAccept
<1>5. Gated(Discard(Heard(p)))
  BY <1>1, <1>2, GatedSame
<1> QED BY <1>2, <1>3, <1>4, <1>5, AnnounceStep

(* A replacement's funding is verified alongside the channel in use. *)
LEMMA RecvRolloverInitStep ==
    ASSUME IInv, NEW p \in Payers, NEW c \in Channels, RecvRolloverInit(p, c)
    PROVE  IInv' /\ StepSettles
<1>1. SoundOutcome(Heard(p)) /\ Follows(Start(p), Heard(p)) /\ Gated(Heard(p))
  BY HeardSound
<1>2. /\ c \notin announced /\ Commit(p, Heard(p))
      /\ announced' = announced \cup {c} /\ verifying' = verifying \cup {c}
      /\ UNCHANGED <<now, tickDue, overrides, recorded>>
  BY DEF RecvRolloverInit
<1> QED BY <1>1, <1>2, AnnounceStep

(* An Accept without funding settles what the payer paid on. *)
LEMMA RecvEmptyAcceptStep ==
    ASSUME IInv, NEW p \in Payers, RecvEmptyAccept(p)
    PROVE  IInv' /\ StepSettles
<1>1. SoundOutcome(Heard(p)) /\ Follows(Start(p), Heard(p)) /\ now \in U64
  BY HeardSound DEF IInv, TypeOK
<1>2. SoundOutcome(Discard(Heard(p))) /\ Follows(Heard(p), Discard(Heard(p)))
  BY <1>1, DiscardSound
<1>3. /\ SoundOutcome(Refresh(Discard(Heard(p))))
      /\ Follows(Discard(Heard(p)), Refresh(Discard(Heard(p))))
      /\ Gated(Refresh(Discard(Heard(p))))
  BY <1>1, <1>2, RefreshSound
<1>4. Follows(Start(p), Refresh(Discard(Heard(p))))
  BY <1>1, <1>2, <1>3, FollowsOn
<1>5. /\ Commit(p, Refresh(Discard(Heard(p))))
      /\ UNCHANGED <<now, tickDue, overrides, verifying, announced, recorded>>
  BY DEF RecvEmptyAccept
<1> QED BY <1>3, <1>4, <1>5, HandlerStep

(* A worker has answered: one channel fewer is being verified. *)
LEMMA AnsweredStep ==
    ASSUME IInv, NEW c \in verifying, Established, verifying' = verifying \ {c},
           UNCHANGED <<now, tickDue, overrides, announced, recorded>>
    PROVE  IInv' /\ StepSettles
<1>1. /\ now' \in U64 /\ tickDue' \in BOOLEAN /\ overrides' \in [Payers -> Policies]
      /\ recorded' \in [Channels -> U64] /\ announced' \subseteq Channels
      /\ verifying' \subseteq announced'
      /\ \A d \in Channels : recorded'[d] # 0 => d \in announced' \ verifying'
  BY DEF IInv, TypeOK, PaidAfterVerified
<1>2. Overridden'
  BY DEF IInv, Overridden
<1> QED BY <1>1, <1>2, InvariantAgain DEF Established

(* A channel recognised once its funding verified starts from nothing, as the *)
(* backend does.                                                              *)
LEMMA VerifiedGood ==
    ASSUME IInv, NEW p \in Payers, InPeers(p), NEW c \in Timely, Owner[c] = p,
           verifying' = verifying \ {c}, announced' = announced, recorded' = recorded
    PROVE  /\ Good(p, Verified(Start(p), c))
           /\ ReservesLess(Start(p), Verified(Start(p), c))
<1> DEFINE g == OpenChannel(sess[p].grant, c)
           t == [sess[p] EXCEPT !.grant = g, !.closing = FALSE]
           q == [Start(p) EXCEPT !.s = t]
<1>1. /\ sess[p] \in Session /\ sess[p].grant \in GrantState /\ now \in U64
      /\ GrantSound(sess[p].grant) /\ c \in Channels /\ c \in verifying
  BY DEF IInv, TypeOK, BudgetSound, Session, Timely
<1>2. /\ c \notin sess[p].grant.open /\ c \in announced /\ recorded[c] = 0
  BY <1>1 DEF IInv, PaidAfterVerified
<1>3. /\ g \in GrantState /\ GrantSound(g)
      /\ g.open = sess[p].grant.open \cup {c}
      /\ g.signed = [sess[p].grant.signed EXCEPT ![c] = 0]
      /\ g.reserved = sess[p].grant.reserved /\ SameBudget(sess[p].grant, g)
  <2>1. {} \in SUBSET Channels
    OBVIOUS
  <2>2. SameBudget(sess[p].grant, g)
    BY <1>1, <2>1, ChannelsApart
  <2> QED BY <1>1, <1>2, <2>2, OpenChannelSound
<1>4. /\ SoundOutcome(Start(p)) /\ Booked(p, Start(p), recorded)
      /\ Start(p) \in Outcome /\ Start(p).s = sess[p] /\ Start(p).settle = {}
      /\ sess[p].grant.open \subseteq announced \ verifying
  BY StartSound DEF SoundOutcome
<1>5. Verified(Start(p), c) = Refresh(q)
  BY <1>4 DEF Verified
<1> HIDE DEF g
<1>6. /\ t \in Session /\ t.grant = g /\ t.place = "peers" /\ t.closing = FALSE
      /\ t.linked = sess[p].linked /\ t.policy = sess[p].policy
  BY <1>1, <1>3 DEF Session, InPeers
<1> HIDE DEF t
<1>7. SoundOutcome(q) /\ q.s = t /\ q.settle = {} /\ q.kept = Start(p).kept
  BY <1>3, <1>4, <1>6, ResessionSound
<1> HIDE DEF q
<1>8. /\ SoundOutcome(Refresh(q)) /\ Refresh(q).s.grant = g /\ Refresh(q).settle = {}
      /\ Gated(Refresh(q)) /\ Follows(q, Refresh(q))
  BY <1>1, <1>6, <1>7, RefreshSound
<1>9. Booked(p, Refresh(q), recorded')
  <2> SUFFICES ASSUME NEW d \in g.open
               PROVE  Owner[d] = p /\ g.signed[d] = recorded[d] /\ recorded[d] < Capacity[d]
    BY <1>8 DEF Booked
  <2>1. sess[p].grant.signed \in [Channels -> U64]
    BY <1>1 DEF GrantState
  <2>2. CASE d = c
    <3>1. Capacity[c] \in Nat \ {0}
      BY <1>1, ChannelAssumption, WidthNat
    <3> QED BY <1>1, <1>2, <1>3, <2>1, <2>2, <3>1
  <2>3. CASE d # c
    <3>1. d \in sess[p].grant.open
      BY <1>3, <2>3
    <3>2. /\ Owner[d] = p /\ sess[p].grant.signed[d] = recorded[d]
          /\ recorded[d] < Capacity[d]
      BY <1>4, <3>1 DEF Booked
    <3>3. d \in Channels
      BY <1>1, <3>1 DEF GrantState
    <3> QED BY <1>3, <2>1, <2>3, <3>2, <3>3
  <2> QED BY <2>2, <2>3
<1>10. g.open \subseteq announced' \ verifying'
  BY <1>2, <1>3, <1>4
<1>11. sess[p].grant.open \subseteq g.open /\ g.open \subseteq sess[p].grant.open \cup Timely
  BY <1>3
<1>12. Keeps(Start(p), Refresh(q))
  <2>1. Start(p).s.place = "peers"
    BY <1>4 DEF InPeers
  <2>2. Keeps(Start(p), q)
    BY <1>3, <1>4, <1>6, <1>7, <2>1, KeepsSame
  <2> QED BY <1>8, <2>2, KeepsOn DEF Follows
<1>13. /\ Tied(Refresh(q)) /\ ReservesLess(Start(p), Refresh(q))
       /\ Accountable => /\ Charged(Refresh(q)) /\ Saved(Refresh(q))
                         /\ HeldOf(Refresh(q)) + Paid(p) <= Held(p) + Paid(p)'
  BY <1>12, KeepsGood
<1> QED BY <1>5, <1>8, <1>9, <1>10, <1>11, <1>13 DEF Good

(* The payers a step is not about. *)
LEMMA OthersGood ==
    ASSUME IInv, recorded' = recorded,
           announced \ verifying \subseteq announced' \ verifying'
    PROVE  \A q \in Payers : Good(q, Start(q)) /\ ReservesLess(Start(q), Start(q))
<1> SUFFICES ASSUME NEW q \in Payers
             PROVE  Good(q, Start(q)) /\ ReservesLess(Start(q), Start(q))
  OBVIOUS
<1>1. SoundOutcome(Start(q)) /\ Follows(Start(q), Start(q)) /\ Gated(Start(q))
  BY StartSound, FollowsNothing
<1>2. ReservesLess(Start(q), Start(q))
  BY DEF ReservesLess
<1> QED BY <1>1, <1>2, FollowsGood

(* A funding that verified, for a live session or for one gone. *)
LEMMA FundingVerifiedStep ==
    ASSUME IInv, NEW p \in Payers, NEW c \in Channels, FundingVerified(p, c)
    PROVE  IInv' /\ StepSettles
<1> DEFINE o == IF InPeers(p) THEN Verified(Start(p), c) ELSE Start(p)
<1>1. /\ c \in Timely /\ c \in verifying /\ Owner[c] = p
      /\ verifying' = verifying \ {c} /\ Commit(p, o)
      /\ UNCHANGED <<now, tickDue, overrides, announced, recorded>>
  BY DEF FundingVerified, Timely
<1>2. \A q \in Payers : Good(q, Start(q)) /\ ReservesLess(Start(q), Start(q))
  <2>1. announced \ verifying \subseteq announced' \ verifying'
    BY <1>1
  <2> QED BY <1>1, <2>1, OthersGood
<1>3. Good(p, o) /\ ReservesLess(Start(p), o)
  BY <1>1, <1>2, VerifiedGood
<1> HIDE DEF o
<1>4. Established
  BY <1>1, <1>2, <1>3, CommitGood
<1> QED BY <1>1, <1>4, AnsweredStep

(* A funding refused ends the session. *)
LEMMA FundingRejectedStep ==
    ASSUME IInv, NEW p \in Payers, NEW c \in Channels, FundingRejected(p, c)
    PROVE  IInv' /\ StepSettles
<1> DEFINE o == IF InPeers(p) THEN Ended(Start(p)) ELSE Start(p)
<1>1. /\ c \in verifying /\ verifying' = verifying \ {c} /\ Commit(p, o)
      /\ UNCHANGED <<now, tickDue, overrides, announced, recorded>>
  BY DEF FundingRejected
<1>2. SoundOutcome(Start(p)) /\ Follows(Start(p), Start(p)) /\ Gated(Start(p))
  BY StartSound, FollowsNothing
<1>3. SoundOutcome(o) /\ Follows(Start(p), o) /\ Gated(o)
  BY <1>2, EndedSound
<1> HIDE DEF o
<1>4. announced \ verifying \subseteq announced' \ verifying'
  BY <1>1
<1>5. Established
  BY <1>1, <1>3, <1>4, CommitFollows
<1> QED BY <1>1, <1>5, AnsweredStep

(* A rate admitted fits with what everyone else has reserved: it is no more *)
(* than the payer had, or than the others leave (reserved_elsewhere).       *)
LEMMA PurchaseFits ==
    ASSUME IInv, NEW p \in Payers, NEW rate \in U64, sess' \in [Payers -> Session],
           \A q \in Payers \ {p} : sess'[q] = sess[q],
           sess'[p].linked => sess[p].linked /\ sess'[p].grant.reserved = rate,
           ~(rate > sess[p].grant.reserved /\ rate > Available(p))
    PROVE  ReservedFits'
<1> DEFINE f == [q \in Payers |-> sess[q].grant.reserved]
           g == [q \in Payers |-> sess'[q].grant.reserved]
           S == {q \in Payers : sess[q].linked}
           T == {q \in Payers : sess'[q].linked}
           E == {q \in Payers \ {p} : InPeers(q) /\ ~sess[q].closing}
<1>1. CASE ~sess'[p].linked
  <2>1. \A q \in Payers : sess'[q].linked =>
           \/ sess'[q].grant.reserved = 0
           \/ sess[q].linked /\ sess'[q].grant.reserved = sess[q].grant.reserved
    BY <1>1
  <2> QED BY <2>1, ReservedAgain
<1>2. CASE sess'[p].linked
  <2>1. sess \in [Payers -> Session]
    BY DEF IInv, TypeOK
  <2>2. f \in [Payers -> Nat] /\ g \in [Payers -> Nat]
    BY <2>1, WidthNat DEF Session, GrantState
  <2>3. /\ S \in SUBSET Payers /\ T \in SUBSET Payers /\ E \in SUBSET Payers
        /\ IsFiniteSet(S) /\ IsFiniteSet(T) /\ IsFiniteSet(E)
    <3>1. S \in SUBSET Payers /\ T \in SUBSET Payers /\ E \in SUBSET Payers /\ IsFiniteSet(Payers)
      BY ProviderAssumption
    <3> QED BY <3>1, FS_Subset
  <2>4. p \in S /\ p \in T /\ \A q \in T \ {p} : q \in S /\ q \in E /\ g[q] = f[q]
    BY <1>2 DEF IInv, LinkedInPeers
  <2>5. g[p] = rate /\ f[p] = sess[p].grant.reserved /\ rate \in Nat
    BY <1>2, WidthNat
  <2>6. SumOver(f, S) <= MAX_RATE
    BY DEF IInv, ReservedFits
  <2>7. SumOver(g, T) <= MAX_RATE => ReservedFits'
    BY DEF ReservedFits
  <2>8. Available(p) = SatSub(MAX_RATE, SumOver(f, E))
    BY DEF Available, ReservedElsewhere
  <2> HIDE DEF f, g, S, T, E
  <2>9. SumOver(f, S) \in Nat /\ SumOver(g, T) \in Nat /\ SumOver(f, E) \in Nat /\ MAX_RATE \in Nat
    BY <2>2, <2>3, SumType, PolicyAssumption, WidthNat
  <2>10. CASE rate <= f[p]
    <3>1. \A q \in T : g[q] = 0 \/ (q \in S /\ g[q] <= f[q])
      <4> SUFFICES ASSUME NEW q \in T PROVE q \in S /\ g[q] <= f[q]
        OBVIOUS
      <4>1. f[q] \in Nat /\ g[q] \in Nat
        BY <2>2, <2>3
      <4> QED BY <2>4, <2>5, <2>10, <4>1
    <3>2. SumOver(g, T) <= SumOver(f, S)
      BY <2>2, <2>3, <3>1, SumMonotone
    <3>3. SumOver(g, T) <= MAX_RATE
      BY <2>6, <2>9, <3>2
    <3> QED BY <2>7, <3>3
  <2>11. CASE ~(rate <= f[p])
    <3> DEFINE R == T \ {p}
    <3>1. R \in SUBSET Payers /\ IsFiniteSet(R)
      <4>1. R \in SUBSET T
        OBVIOUS
      <4> QED BY <2>3, <4>1, FS_Subset
    <3>2. SumOver(g, T) = rate + SumOver(g, R)
      BY <2>2, <2>3, <2>4, <2>5, SumRemove
    <3>3. \A q \in R : g[q] = 0 \/ (q \in E /\ g[q] <= f[q])
      <4> SUFFICES ASSUME NEW q \in R PROVE q \in E /\ g[q] <= f[q]
        OBVIOUS
      <4>1. q \in Payers /\ g[q] = f[q] /\ q \in E
        BY <2>3, <2>4
      <4>2. f[q] \in Nat
        BY <2>2, <4>1
      <4> QED BY <4>1, <4>2
    <3> HIDE DEF R
    <3>4. SumOver(g, R) <= SumOver(f, E) /\ SumOver(g, R) \in Nat
      BY <2>2, <2>3, <3>1, <3>3, SumMonotone, SumType
    <3>5. rate <= SatSub(MAX_RATE, SumOver(f, E)) /\ rate > 0
      <4>1. f[p] \in Nat
        BY <2>2
      <4>2. SatSub(MAX_RATE, SumOver(f, E)) \in Nat
        BY <2>9, SaturationType
      <4> QED BY <2>5, <2>8, <2>11, <4>1, <4>2
    <3>6. rate + SumOver(f, E) <= MAX_RATE
      BY <2>5, <2>9, <3>5 DEF SatSub
    <3>7. SumOver(g, T) <= MAX_RATE
      BY <2>5, <2>9, <3>2, <3>4, <3>6
    <3> QED BY <2>7, <3>7
  <2> QED BY <2>10, <2>11
<1> QED BY <1>1, <1>2

(* A purchase honoured is recorded whole; one refused is not recorded at all. *)
LEMMA RecvTopUpStep ==
    ASSUME IInv, NEW p \in Payers, NEW us \in Updates, NEW window \in U64,
           NEW rate \in U64, RecvTopUp(p, us, window, rate)
    PROVE  IInv' /\ StepSettles
<1> DEFINE verdict == Verdict(Checked(p).s.grant, Available(p), us, window, rate)
           named   == Named(us)
<1>1. /\ InPeers(p) /\ UNCHANGED <<now, tickDue, overrides, verifying, announced>>
      /\ \/ /\ verdict = "Accept"
            /\ Commit(p, Bought(Checked(p), us, window, rate))
            /\ recorded' = [c \in Channels |->
                  IF c \in Named(us) THEN TotalOn(us, c) ELSE recorded[c]]
         \/ /\ Commit(p, Unverified(Checked(p), NotIncreasing(Checked(p).s.grant, us)))
            /\ UNCHANGED recorded
         \/ /\ Commit(p, Refresh(Checked(p)))
            /\ UNCHANGED recorded
  BY DEF RecvTopUp
<1>2. /\ SoundOutcome(Checked(p)) /\ Follows(Start(p), Checked(p))
      /\ Checked(p).s.place = "peers" /\ Checked(p).s.grant \in GrantState
      /\ Checked(p).s.grant.open = sess[p].grant.open /\ Checked(p).settle = {}
      /\ Checked(p).s.grant.reserved = sess[p].grant.reserved
      /\ Checked(p).s.linked = sess[p].linked
      /\ now \in U64 /\ recorded \in [Channels -> U64]
  <2>1. SameTerms(Heard(p), Checked(p)) /\ SameTerms(Start(p), Heard(p)) /\ Start(p).s = sess[p]
    BY CheckedSound, HeardSound, StartSound
  <2>2. Checked(p).s.linked = sess[p].linked
    BY <2>1 DEF SameTerms
  <2> QED BY <1>1, <2>2, CheckedSound
          DEF InPeers, SoundOutcome, Outcome, Session, IInv, TypeOK
<1>3. CASE /\ verdict = "Accept"
           /\ Commit(p, Bought(Checked(p), us, window, rate))
           /\ recorded' = [c \in Channels |->
                 IF c \in Named(us) THEN TotalOn(us, c) ELSE recorded[c]]
  <2> DEFINE o == Checked(p)
             b == Bought(o, us, window, rate)
  <2>1. Booked(p, o, recorded)
    BY <1>2, StartSound, FollowsBooked
  <2>2. ASSUME NEW c \in named
        PROVE  /\ c \in sess[p].grant.open /\ c \in Channels
               /\ TotalOn(us, c) \in U64
    <3> HIDE DEF o
    <3>1. c \in Named(us) /\ Verdict(o.s.grant, Available(p), us, window, rate) = "Accept"
      BY <1>3 DEF o
    <3>2. o.s.grant \in GrantState /\ o.s.grant.open = sess[p].grant.open
      BY <1>2 DEF o
    <3> DEFINE g == o.s.grant
               a == Available(p)
    <3>3. g \in GrantState /\ Verdict(g, a, us, window, rate) = "Accept"
      BY <3>1, <3>2
    <3> HIDE DEF g, a
    <3>4. c \in g.open /\ c \in Channels /\ TotalOn(us, c) \in U64
      BY <3>1, <3>3, TotalType
    <3> QED BY <3>2, <3>4 DEF g
  <2>3. /\ recorded' \in [Channels -> U64]
        /\ \A c \in Channels : recorded'[c] =
              IF c \in Named(us) THEN TotalOn(us, c) ELSE recorded[c]
    BY <1>2, <1>3, <2>2
  <2>4. /\ Purchased(p, o, us, rate, b, recorded')
        /\ SumOver(recorded, {c \in Channels : Owner[c] = p}) + Increase(o.s.grant, us)
              <= SumOver(recorded', {c \in Channels : Owner[c] = p})
        /\ Increase(o.s.grant, us) \in Nat
        /\ ~(rate > o.s.grant.reserved /\ rate > Available(p))
    <3> DEFINE a == Available(p)
               then == recorded'
               g == o.s.grant
    <3>1. /\ SoundOutcome(o) /\ o.s.place = "peers" /\ Booked(p, o, recorded)
          /\ Verdict(o.s.grant, a, us, window, rate) = "Accept"
          /\ then \in [Channels -> U64] /\ Records(us, recorded, then)
          /\ b = Bought(o, us, window, rate)
      BY <1>2, <1>3, <2>1, <2>3 DEF Records
    <3>2. /\ g \in GrantState /\ Verdict(g, a, us, window, rate) = "Accept"
          /\ \A c \in g.open : Owner[c] = p /\ g.signed[c] = recorded[c]
      BY <1>2, <3>1 DEF Booked
    <3> HIDE DEF a, then, b, o, verdict, named, g
    <3>3. Purchased(p, o, us, rate, b, then)
      BY <1>2, <3>1, BoughtSound
    <3>4. SumOver(recorded, {c \in Channels : Owner[c] = p}) + Increase(g, us)
              <= SumOver(then, {c \in Channels : Owner[c] = p})
      <4> DEFINE S == {c \in Channels : Owner[c] = p}
      <4>1. S \in SUBSET Channels /\ \A c \in g.open : c \in S /\ g.signed[c] = recorded[c]
        BY <3>2 DEF GrantState
      <4> HIDE DEF S
      <4> QED BY <1>2, <3>1, <3>2, <4>1, PurchasePaid DEF S
    <3>5. Increase(g, us) \in Nat
      BY <3>2, IncreaseType
    <3>6. ~(rate > g.reserved /\ rate > a)
      BY <3>2, AcceptedFaultless
    <3> QED BY <3>3, <3>4, <3>5, <3>6 DEF then, g, a
  <2>5. sess[p].grant.open \subseteq announced \ verifying
    BY DEF IInv, PaidAfterVerified
  <2>p. Commit(p, b)
    BY <1>3
  <2> HIDE DEF b
  <2>6. Good(p, b)
    <3>1. /\ SoundOutcome(b) /\ Booked(p, b, recorded') /\ Gated(b) /\ (Tied(o) => Tied(b))
          /\ b.s.grant.open \subseteq o.s.grant.open
          /\ o.s.grant.open \subseteq b.s.grant.open \cup b.settle
          /\ b.settle \subseteq o.settle \cup (o.s.grant.open \ b.s.grant.open)
          /\ Charged(o) => /\ Charged(b) /\ Saved(b)
                           /\ HeldOf(b) <= HeldOf(o) + Increase(o.s.grant, us)
      BY <2>4 DEF Purchased
    <3>2. /\ Tied(o) /\ (Accountable => Charged(o) /\ HeldOf(o) <= Held(p))
          /\ HeldOf(o) \in Nat /\ Held(p) \in Nat
      <4>1. Keeps(Start(p), o)
        BY <1>2 DEF Follows
      <4>2. /\ Tied(Start(p)) /\ (Accountable => Charged(Start(p)) /\ Saved(Start(p)))
            /\ HeldOf(Start(p)) = Held(p) /\ HeldOf(Start(p)) \in Nat
        BY StartSound
      <4> HIDE DEF o
      <4> QED BY <4>1, <4>2 DEF Keeps
    <3>3. /\ Paid(p) + Increase(o.s.grant, us) <= Paid(p)'
          /\ Paid(p) \in Nat /\ Paid(p)' \in Nat
      <4>1. Paid(p) + Increase(o.s.grant, us) <= Paid(p)'
        BY <2>4 DEF Paid
      <4>2. Paid(p) \in Nat
        BY <1>2, PaidType
      <4>3. Paid(p)' \in Nat
        <5> DEFINE S == {c \in Channels : Owner[c] = p}
        <5>1. S \in SUBSET Channels /\ IsFiniteSet(S)
          <6>1. S \in SUBSET Channels /\ IsFiniteSet(Channels)
            BY ChannelAssumption
          <6> QED BY <6>1, FS_Subset
        <5>2. recorded' \in [Channels -> Nat]
          BY <2>3, WidthNat
        <5>3. Paid(p)' = SumOver(recorded', S)
          BY DEF Paid
        <5> HIDE DEF S
        <5> QED BY <5>1, <5>2, <5>3, SumType
      <4> QED BY <4>1, <4>2, <4>3
    <3>4. HeldOf(b) \in Nat
      BY <3>1, HeldType
    <3>5. Accountable => HeldOf(b) + Paid(p) <= Held(p) + Paid(p)'
      <4> DEFINE inc == Increase(o.s.grant, us)
      <4>1. inc \in Nat /\ Paid(p) + inc <= Paid(p)'
        BY <2>4, <3>3
      <4>2. Accountable => HeldOf(b) <= HeldOf(o) + inc /\ HeldOf(o) <= Held(p)
        BY <3>1, <3>2
      <4> HIDE DEF inc, o
      <4> QED BY <3>2, <3>3, <3>4, <4>1, <4>2
    <3>6. Accountable => Charged(b) /\ Saved(b)
      BY <3>1, <3>2
    <3>7. /\ b.s.grant.open \subseteq announced' \ verifying'
          /\ sess[p].grant.open \subseteq b.s.grant.open \cup b.settle
          /\ b.s.grant.open \subseteq sess[p].grant.open
          /\ b.settle \subseteq sess[p].grant.open \ b.s.grant.open
      BY <1>1, <1>2, <2>5, <3>1
    <3> HIDE DEF o
    <3> QED BY <3>1, <3>2, <3>5, <3>6, <3>7 DEF Good
  <2>7. ASSUME NEW q \in Payers \ {p}
        PROVE  Good(q, Start(q))
    <3>1. /\ SoundOutcome(Start(q)) /\ Booked(q, Start(q), recorded)
          /\ Start(q).s = sess[q] /\ Start(q).settle = {}
          /\ Start(q).s.grant.open \subseteq announced \ verifying
          /\ Tied(Start(q)) /\ Gated(Start(q))
          /\ Accountable => Charged(Start(q)) /\ Saved(Start(q))
          /\ HeldOf(Start(q)) = Held(q) /\ HeldOf(Start(q)) \in Nat
      BY StartSound
    <3>2. ASSUME NEW c \in Channels, Owner[c] = q
          PROVE  recorded'[c] = recorded[c]
      <4>1. c \notin named
        BY <3>2 DEF RecvTopUp
      <4> QED BY <2>3, <4>1
    <3>3. Booked(q, Start(q), recorded')
      <4>1. Start(q).s.grant.open \subseteq Channels
        BY <3>1 DEF SoundOutcome, Outcome, Session, GrantState
      <4> QED BY <3>1, <3>2, <4>1 DEF Booked
    <3>4. Paid(q)' = Paid(q) /\ Paid(q) \in Nat
      <4> DEFINE S == {c \in Channels : Owner[c] = q}
      <4>1. S \in SUBSET Channels /\ IsFiniteSet(S)
        <5>1. S \in SUBSET Channels /\ IsFiniteSet(Channels)
          BY ChannelAssumption
        <5> QED BY <5>1, FS_Subset
      <4>2. recorded \in [Channels -> Nat] /\ recorded' \in [Channels -> Nat]
        BY <1>2, <2>3, WidthNat
      <4>3. Paid(q)' = SumOver(recorded', S) /\ Paid(q) = SumOver(recorded, S)
        BY DEF Paid
      <4>4. \A c \in S : recorded[c] = recorded'[c]
        BY <3>2
      <4> DEFINE then == recorded'
      <4>5. then \in [Channels -> Nat] /\ \A c \in S : recorded[c] = then[c]
        BY <4>2, <4>4
      <4> HIDE DEF S, then
      <4>6. SumOver(recorded, S) = SumOver(then, S)
        BY <4>1, <4>2, <4>5, SumSame
      <4> QED BY <1>2, <4>3, <4>6, PaidType DEF then
    <3>5. HeldOf(Start(q)) + Paid(q) <= Held(q) + Paid(q)'
      BY <3>1, <3>4
    <3> QED BY <1>1, <3>1, <3>3, <3>5 DEF Good
  <2>8. ReservedFits'
    <3>1. /\ sess \in [Payers -> Session] /\ b.s \in Session
          /\ b.s.linked => sess[p].linked /\ b.s.grant.reserved = rate
      BY <1>2, <2>4 DEF IInv, TypeOK, Purchased, SoundOutcome, Outcome
    <3>2. /\ sess' \in [Payers -> Session] /\ sess'[p] = b.s
          /\ \A q \in Payers \ {p} : sess'[q] = sess[q]
      BY <2>p, <3>1 DEF Commit
    <3>3. ~(rate > sess[p].grant.reserved /\ rate > Available(p))
      BY <1>2, <2>4
    <3> QED BY <3>1, <3>2, <3>3, PurchaseFits
  <2>9. Established
    BY <1>1, <2>p, <2>6, <2>7, <2>8, CommitGood
  <2>10. ASSUME NEW c \in Channels, recorded'[c] # 0
        PROVE  c \in announced' \ verifying'
    <3>1. recorded[c] # 0 => c \in announced \ verifying
      BY DEF IInv, PaidAfterVerified
    <3>2. c \in named => c \in announced \ verifying
      BY <2>2, <2>5
    <3> QED BY <1>1, <2>3, <2>10, <3>1, <3>2
  <2>11. /\ now' \in U64 /\ tickDue' \in BOOLEAN /\ overrides' \in [Payers -> Policies]
         /\ announced' \subseteq Channels /\ verifying' \subseteq announced' /\ Overridden'
    BY <1>1 DEF IInv, TypeOK, PaidAfterVerified, Overridden
  <2> QED BY <2>3, <2>9, <2>10, <2>11, InvariantAgain DEF Established
<1>4. CASE /\ Commit(p, Unverified(Checked(p), NotIncreasing(Checked(p).s.grant, us)))
           /\ UNCHANGED recorded
  <2> DEFINE cs == NotIncreasing(Checked(p).s.grant, us)
  <2>1. cs \in SUBSET Channels
    BY <1>2 DEF NotIncreasing, GrantState
  <2> HIDE DEF cs
  <2>2. /\ SoundOutcome(Unverified(Checked(p), cs))
        /\ Follows(Checked(p), Unverified(Checked(p), cs))
        /\ Gated(Unverified(Checked(p), cs))
    BY <1>2, <2>1, UnverifiedSound
  <2>3. Follows(Start(p), Unverified(Checked(p), cs))
    BY <1>2, <2>2, FollowsOn
  <2>4. Commit(p, Unverified(Checked(p), cs))
    BY <1>4 DEF cs
  <2>5. UNCHANGED <<now, tickDue, overrides, verifying, announced, recorded>>
    BY <1>1, <1>4
  <2> QED BY <2>2, <2>3, <2>4, <2>5, HandlerStep
<1>5. CASE Commit(p, Refresh(Checked(p))) /\ UNCHANGED recorded
  <2>1. /\ SoundOutcome(Refresh(Checked(p))) /\ Follows(Checked(p), Refresh(Checked(p)))
        /\ Gated(Refresh(Checked(p)))
    BY <1>2, RefreshSound
  <2>2. Follows(Start(p), Refresh(Checked(p)))
    BY <1>2, <2>1, FollowsOn
  <2>3. UNCHANGED <<now, tickDue, overrides, verifying, announced, recorded>>
    BY <1>1, <1>5
  <2> QED BY <1>5, <2>1, <2>2, <2>3, HandlerStep
<1> QED BY <1>1, <1>3, <1>4, <1>5

(* A signature that does not verify is counted, and settles at the limit. *)
LEMMA RecvBadSignatureStep ==
    ASSUME IInv, NEW p \in Payers, NEW c \in Channels, RecvBadSignature(p, c)
    PROVE  IInv' /\ StepSettles
<1>1. SoundOutcome(Checked(p)) /\ Follows(Start(p), Checked(p)) /\ now \in U64
  BY CheckedSound DEF IInv, TypeOK
<1>2. /\ SoundOutcome(Unverified(Checked(p), {c}))
      /\ Follows(Checked(p), Unverified(Checked(p), {c}))
      /\ Gated(Unverified(Checked(p), {c}))
  BY <1>1, UnverifiedSound
<1>3. Follows(Start(p), Unverified(Checked(p), {c}))
  BY <1>1, <1>2, FollowsOn
<1>4. /\ Commit(p, Unverified(Checked(p), {c}))
      /\ UNCHANGED <<now, tickDue, overrides, verifying, announced, recorded>>
  BY DEF RecvBadSignature
<1> QED BY <1>2, <1>3, <1>4, HandlerStep

(* A close asked for by the peer settles, and closes nothing. *)
LEMMA RecvChannelCloseStep ==
    ASSUME IInv, NEW p \in Payers, NEW c \in Channels, RecvChannelClose(p, c)
    PROVE  IInv' /\ StepSettles
<1> DEFINE o == [Heard(p) EXCEPT !.settle = {c}]
<1>1. /\ SoundOutcome(Heard(p)) /\ Follows(Start(p), Heard(p)) /\ Heard(p).settle = {}
      /\ Gated(Heard(p))
  BY HeardSound
<1>2. o \in Outcome /\ o.s = Heard(p).s /\ o.settle = {c} /\ o.kept = Heard(p).kept
  BY <1>1 DEF SoundOutcome, Outcome
<1>3. /\ Commit(p, o)
      /\ UNCHANGED <<now, tickDue, overrides, verifying, announced, recorded>>
  BY DEF RecvChannelClose
<1> HIDE DEF o
<1>4. SoundOutcome(o)
  BY <1>1, <1>2 DEF SoundOutcome
<1>5. MAX_CLOSES # 0
  <2>1. settled[c] \in Nat /\ settled[c] < MAX_CLOSES
    BY DEF IInv, TypeOK, RecvChannelClose
  <2> QED BY <2>1
<1>6. Good(p, o)
  <2>1. Good(p, Heard(p))
    BY <1>1, <1>3, FollowsGood
  <2>2. /\ Tied(o) /\ Gated(o) /\ HeldOf(o) = HeldOf(Heard(p))
        /\ Charged(Heard(p)) => Charged(o)
        /\ Saved(Heard(p)) => Saved(o)
    BY <1>2, <2>1 DEF Good, Tied, Gated, HeldOf, Charged, Saved, Even
  <2>3. Booked(p, o, recorded')
    BY <1>2, <2>1 DEF Good, Booked
  <2> QED BY <1>1, <1>2, <1>4, <1>5, <2>1, <2>2, <2>3 DEF Good
<1>7. ReservesLess(Start(p), o)
  BY <1>1, <1>2 DEF Follows, Keeps, ReservesLess
<1>8. \A q \in Payers : Good(q, Start(q))
  BY <1>3, OthersGood
<1>9. Established /\ tickDue' \in BOOLEAN
  BY <1>3, <1>6, <1>7, <1>8, CommitGood DEF IInv, TypeOK
<1> QED BY <1>3, <1>9, QuietStep

(* Any other message. *)
LEMMA RecvOtherStep ==
    ASSUME IInv, NEW p \in Payers, RecvOther(p)
    PROVE  IInv' /\ StepSettles
<1>1. SoundOutcome(Heard(p)) /\ Follows(Start(p), Heard(p)) /\ Gated(Heard(p))
  BY HeardSound
<1>2. /\ Commit(p, Heard(p))
      /\ UNCHANGED <<now, tickDue, overrides, verifying, announced, recorded>>
  BY DEF RecvOther
<1> QED BY <1>1, <1>2, HandlerStep

(* An override changes what a peer is given, not what it holds. *)
LEMMA SetPeerPolicyStep ==
    ASSUME IInv, NEW p \in Payers, NEW policy \in Overrides, SetPeerPolicy(p, policy)
    PROVE  IInv' /\ StepSettles
<1> DEFINE t == [sess[p] EXCEPT !.policy = policy]
           q == [Start(p) EXCEPT !.s = t]
           o == IF ~InPeers(p) THEN Start(p) ELSE IF q.s.closing THEN q ELSE Refresh(q)
<1>1. sess[p] \in Session /\ now \in U64 /\ policy \in Policies
  BY ProviderAssumption DEF IInv, TypeOK, Policies
<1>2. /\ t \in Session /\ t.grant = sess[p].grant /\ t.place = sess[p].place
      /\ t.linked = sess[p].linked /\ t.closing = sess[p].closing /\ t.policy = policy
  BY <1>1 DEF Session
<1>3. /\ Commit(p, o) /\ overrides' = [overrides EXCEPT ![p] = policy]
      /\ UNCHANGED <<now, tickDue, verifying, announced, recorded>>
  BY DEF SetPeerPolicy
<1>4. Accountable => policy # "no_charge"
  BY DEF Accountable
<1> HIDE DEF t
<1>5. SoundOutcome(q) /\ Follows(Start(p), q) /\ (q.s.closing => Gated(q))
  BY <1>2, <1>4, TouchedSound DEF Gated
<1> HIDE DEF q
<1>6. SoundOutcome(Refresh(q)) /\ Follows(q, Refresh(q)) /\ Gated(Refresh(q))
  BY <1>1, <1>5, RefreshSound
<1>7. /\ Follows(Start(p), Refresh(q)) /\ Follows(Start(p), Start(p)) /\ SoundOutcome(Start(p))
      /\ Gated(Start(p))
  BY <1>5, <1>6, FollowsOn, FollowsNothing, StartSound
<1>8. SoundOutcome(o) /\ Follows(Start(p), o) /\ Gated(o)
  BY <1>5, <1>6, <1>7
<1> HIDE DEF o
<1>9. Established
  BY <1>3, <1>8, CommitFollows
<1>10. /\ now' \in U64 /\ tickDue' \in BOOLEAN /\ overrides' \in [Payers -> Policies]
       /\ recorded' \in [Channels -> U64] /\ announced' \subseteq Channels
       /\ verifying' \subseteq announced'
       /\ \A c \in Channels : recorded'[c] # 0 => c \in announced' \ verifying'
  BY <1>1, <1>3 DEF IInv, TypeOK, PaidAfterVerified
<1>11. Overridden'
  BY <1>3, <1>4 DEF IInv, TypeOK, Overridden
<1> QED BY <1>9, <1>10, <1>11, InvariantAgain DEF Established

(* Time passing. *)
LEMMA ElapseStep ==
    ASSUME IInv, Elapse
    PROVE  IInv' /\ StepSettles
<1>1. now \in U64 /\ now' \in U64 /\ now <= now'
  <2>1. now \in Nat /\ MAX_NOW \in Nat /\ MAX_NOW <= U64_MAX /\ U64_MAX \in Nat
    BY ProviderAssumption, WidthAssumption DEF IInv, TypeOK, U64
  <2> QED BY <2>1 DEF Elapse, U64
<1>2. UNCHANGED <<sess, overrides, disk, verifying, announced, recorded, settled>>
  BY DEF Elapse
<1>3. TypeOK'
  BY <1>1 DEF Elapse, IInv, TypeOK
<1>4. /\ BudgetSound' /\ RecordedIsGranted' /\ PaidAfterVerified' /\ OpenInSession'
      /\ LinkedInPeers' /\ ReservedFits' /\ Overridden'
  BY <1>2 DEF IInv, BudgetSound, RecordedIsGranted, PaidAfterVerified, OpenInSession,
              LinkedInPeers, InPeers, ReservedFits, Overridden
<1>5. ASSUME NEW p \in Payers
      PROVE  /\ BudgetOf(sess[p].grant, now').remaining <= BudgetOf(sess[p].grant, now).remaining
             /\ BudgetAt(disk[p], now').remaining <= BudgetAt(disk[p], now).remaining
             /\ CoversAt(disk[p], sess[p].grant, now) => CoversAt(disk[p], sess[p].grant, now')
             /\ BudgetAt(disk[p], now) = BudgetOf(sess[p].grant, now) =>
                   BudgetAt(disk[p], now') = BudgetOf(sess[p].grant, now')
             /\ IsLive(sess[p].grant, now') => IsLive(sess[p].grant, now)
  <2> DEFINE then == now'
  <2>1. sess[p].grant \in GrantState /\ disk[p] \in Budget
    BY DEF IInv, TypeOK, Session
  <2>2. then \in U64 /\ now <= then
    BY <1>1
  <2> HIDE DEF then
  <2>3. /\ BudgetOf(sess[p].grant, then).remaining <= BudgetOf(sess[p].grant, now).remaining
        /\ BudgetAt(disk[p], then).remaining <= BudgetAt(disk[p], now).remaining
        /\ CoversAt(disk[p], sess[p].grant, now) => CoversAt(disk[p], sess[p].grant, then)
        /\ BudgetAt(disk[p], now) = BudgetOf(sess[p].grant, now) =>
              BudgetAt(disk[p], then) = BudgetOf(sess[p].grant, then)
        /\ IsLive(sess[p].grant, then) => IsLive(sess[p].grant, now)
    BY <1>1, <2>1, <2>2, BudgetLater
  <2> QED BY <2>3 DEF then
<1>6. Covered'
  BY <1>2, <1>5 DEF IInv, Covered, InPeers
<1>7. GateFollowsBudget'
  BY <1>2, <1>5 DEF IInv, GateFollowsBudget, InPeers
<1>8. GivesNothing
  <2> SUFFICES ASSUME NEW p \in Payers
               PROVE  Held(p)' + Paid(p) <= Held(p) + Paid(p)'
    BY DEF GivesNothing
  <2>1. Held(p)' <= Held(p)
    BY <1>2, <1>5 DEF Held
  <2>2. Paid(p)' = Paid(p) /\ Paid(p) \in Nat
    <3>1. recorded \in [Channels -> U64]
      BY DEF IInv, TypeOK
    <3> QED BY <1>2, <3>1, PaidType DEF Paid
  <2>3. Held(p) \in Nat
    <3>1. HeldOf(Start(p)) \in Nat /\ HeldOf(Start(p)) = Held(p)
      BY StartSound
    <3> QED BY <3>1
  <2>4. Held(p)' \in Nat
    <3>1. sess[p].grant \in GrantState /\ disk[p] \in Budget
      BY DEF IInv, TypeOK, Session
    <3>2. BudgetAt(disk[p], now') \in Budget /\ BudgetOf(sess[p].grant, now') \in Budget
      BY <3>1, BudgetType
    <3> QED BY <1>2, <3>2, WidthNat DEF Held, Budget
  <2> QED BY <2>1, <2>2, <2>3, <2>4
<1>9. StepSettles
  BY <1>2, <1>8 DEF StepSettles, ClosesSettle, OpensVerified, HandsOverHeld, IsOpen
<1> QED BY <1>3, <1>4, <1>6, <1>7, <1>9 DEF IInv

(* A tick reads every meter and ticks every session. *)
LEMMA TickStep ==
    ASSUME IInv, Tick
    PROVE  IInv' /\ StepSettles
<1>1. PICK moved \in [Payers -> 0 .. MAX_MOVED], carried \in [Payers -> BOOLEAN] :
        CommitAll([p \in Payers |-> TickOutcome(p, moved[p], carried[p])])
  BY DEF Tick
<1>2. UNCHANGED <<now, overrides, verifying, announced, recorded>> /\ tickDue' \in BOOLEAN
  BY DEF Tick
<1> DEFINE os == [p \in Payers |-> TickOutcome(p, moved[p], carried[p])]
<1>3. ASSUME NEW p \in Payers
      PROVE  Good(p, os[p]) /\ ReservesLess(Start(p), os[p])
  <2>1. moved[p] \in U64 /\ now \in U64
    BY ProviderAssumption, WidthAssumption DEF IInv, TypeOK, U64
  <2>2. SoundOutcome(Start(p))
    BY StartSound
  <2>3. /\ SoundOutcome(TickOutcome(p, moved[p], carried[p]))
        /\ Follows(Start(p), TickOutcome(p, moved[p], carried[p]))
        /\ Gated(TickOutcome(p, moved[p], carried[p]))
    BY <2>1, <2>2, TickOutcomeSound
  <2>4. ReservesLess(Start(p), TickOutcome(p, moved[p], carried[p]))
    BY <2>3 DEF Follows, Keeps
  <2> QED BY <1>2, <2>3, <2>4, FollowsGood
<1> HIDE DEF os
<1>4. Established
  BY <1>1, <1>2, <1>3, CommitAllGood DEF os
<1> QED BY <1>2, <1>4, QuietStep

(* The node winding down settles every channel. *)
LEMMA ShutdownStep ==
    ASSUME IInv, Shutdown
    PROVE  IInv' /\ StepSettles
<1> DEFINE os == [p \in Payers |->
                    IF sess[p].place = "none" THEN Start(p)
                    ELSE Gone(Discard(SaveBudget(Start(p))))]
<1>1. /\ CommitAll(os) /\ verifying' = {}
      /\ UNCHANGED <<now, tickDue, overrides, announced, recorded>>
  BY DEF Shutdown
<1>2. ASSUME NEW p \in Payers
      PROVE  Good(p, os[p]) /\ ReservesLess(Start(p), os[p])
  <2> DEFINE w == Gone(Discard(SaveBudget(Start(p))))
  <2>1. SoundOutcome(Start(p)) /\ Follows(Start(p), Start(p)) /\ Gated(Start(p))
    BY StartSound, FollowsNothing
  <2>2. sess[p].place # "none" => SoundOutcome(w) /\ Follows(Start(p), w) /\ Gated(w)
    BY WoundUpSound
  <2>3. os[p] = IF sess[p].place = "none" THEN Start(p) ELSE w
    OBVIOUS
  <2> HIDE DEF w, os
  <2>4. SoundOutcome(os[p]) /\ Follows(Start(p), os[p]) /\ Gated(os[p])
    BY <2>1, <2>2, <2>3
  <2>5. announced \ verifying \subseteq announced' \ verifying'
    BY <1>1
  <2>6. ReservesLess(Start(p), os[p])
    BY <2>4 DEF Follows, Keeps
  <2> QED BY <1>1, <2>4, <2>5, <2>6, FollowsGood
<1> HIDE DEF os
<1>3. Established
  BY <1>1, <1>2, CommitAllGood
<1>4. /\ now' \in U64 /\ tickDue' \in BOOLEAN /\ overrides' \in [Payers -> Policies]
      /\ recorded' \in [Channels -> U64] /\ announced' \subseteq Channels
      /\ verifying' \subseteq announced' /\ Overridden'
      /\ \A c \in Channels : recorded'[c] # 0 => c \in announced' \ verifying'
  BY <1>1 DEF IInv, TypeOK, PaidAfterVerified, Overridden
<1> QED BY <1>3, <1>4, InvariantAgain DEF Established

(* Without sessions there is nothing to admit, gate or hold. *)
LEMMA NobodyReserves ==
    ASSUME \A p \in Payers : sess[p] = NoSession
    PROVE  LinkedInPeers /\ GateFollowsBudget /\ ReservedFits
<1> DEFINE f == [p \in Payers |-> 0]
           g == [p \in Payers |-> sess[p].grant.reserved]
           S == {p \in Payers : sess[p].linked}
<1>1. \A p \in Payers : ~sess[p].linked /\ sess[p].place = "none"
  BY NoSessionSound
<1>2. g = f /\ S = {} /\ f \in [Payers -> Nat] /\ S \in SUBSET Payers /\ IsFiniteSet(S)
  <2>1. S = {}
    BY <1>1
  <2>2. \A p \in Payers : sess[p].grant.reserved = 0
    BY NoSessionSound, NewGrantSound
  <2> QED BY <2>1, <2>2, FS_EmptySet
<1>3. SumOver(f, S) = 0
  <2> HIDE DEF f, g, S
  <2> QED BY <1>2, SumType
<1>4. MAX_RATE \in Nat
  BY PolicyAssumption, WidthNat
<1>5. SumOver(g, S) <= MAX_RATE
  <2> HIDE DEF f, g, S
  <2> QED BY <1>2, <1>3, <1>4
<1>6. ReservedFits
  BY <1>5 DEF ReservedFits
<1> QED BY <1>1, <1>6 DEF LinkedInPeers, GateFollowsBudget, InPeers

(* A crash loses the sessions, and leaves the rest in order. *)
LEMMA CrashStep ==
    ASSUME IInv, Crash
    PROVE  IInv'
<1>1. /\ sess' = [p \in Payers |-> NoSession] /\ verifying' = {}
      /\ UNCHANGED <<now, tickDue, overrides, disk, announced, recorded, settled>>
  BY DEF Crash
<1>2. /\ NoSession \in Session /\ NoSession.grant = NewGrant /\ NewGrant.open = {}
      /\ NoSession.place = "none" /\ NoSession.policy = "charge"
      /\ GrantSound(NewGrant) /\ NewGrant.reserved = 0 /\ NewGrant.second = None
  BY NoSessionSound, NewGrantSound
<1>3. TypeOK'
  BY <1>1, <1>2 DEF IInv, TypeOK
<1>4. BudgetSound'
  BY <1>1, <1>2 DEF BudgetSound
<1>5. RecordedIsGranted' /\ PaidAfterVerified' /\ OpenInSession'
  BY <1>1, <1>2 DEF IInv, RecordedIsGranted, PaidAfterVerified, OpenInSession
<1>6. (\A p \in Payers : sess[p] = NoSession)' => (LinkedInPeers /\ GateFollowsBudget /\ ReservedFits)'
  BY NobodyReserves, PTL
<1>7. LinkedInPeers' /\ GateFollowsBudget' /\ ReservedFits'
  BY <1>1, <1>6
<1>8. Overridden' /\ Covered'
  BY <1>1, <1>2 DEF IInv, Overridden, Covered, InPeers
<1> QED BY <1>3, <1>4, <1>5, <1>7, <1>8 DEF IInv

(* A node just started. *)
LEMMA InitInv ==
    ASSUME Init
    PROVE  IInv
<1>1. /\ NoSession \in Session /\ NoSession.grant = NewGrant /\ NewGrant.open = {}
      /\ NoSession.place = "none" /\ NoSession.policy = "charge"
      /\ GrantSound(NewGrant) /\ NewGrant.reserved = 0 /\ NewGrant.second = None
  BY NoSessionSound, NewGrantSound
<1>2. NoBudget \in Budget /\ 0 \in U64
  BY WidthNat DEF NoBudget, Budget
<1>3. TypeOK
  BY <1>1, <1>2 DEF Init, TypeOK, Policies
<1>4. BudgetSound
  BY <1>1 DEF Init, BudgetSound
<1>5. RecordedIsGranted /\ PaidAfterVerified /\ OpenInSession
  BY <1>1 DEF Init, RecordedIsGranted, PaidAfterVerified, OpenInSession
<1>6. LinkedInPeers /\ GateFollowsBudget /\ ReservedFits
  <2>1. \A p \in Payers : sess[p] = NoSession
    BY DEF Init
  <2> QED BY <2>1, NobodyReserves
<1>7. Overridden /\ Covered
  BY <1>1 DEF Init, Overridden, Covered, InPeers
<1> QED BY <1>3, <1>4, <1>5, <1>6, <1>7 DEF IInv

(* Every step preserves the invariant, and every step but a crash settles the *)
(* channels it closes.                                                        *)
LEMMA NextInv ==
    ASSUME IInv, [Next]_vars
    PROVE  IInv' /\ (Crash \/ StepSettles)
<1>1. CASE UNCHANGED vars
  <2>1. IInv'
    <3>1. /\ TypeOK' /\ BudgetSound' /\ RecordedIsGranted' /\ PaidAfterVerified'
          /\ OpenInSession' /\ LinkedInPeers'
      BY <1>1 DEF vars, IInv, TypeOK, BudgetSound, RecordedIsGranted, PaidAfterVerified,
                  OpenInSession, LinkedInPeers, InPeers
    <3>2. GateFollowsBudget' /\ ReservedFits' /\ Overridden' /\ Covered'
      BY <1>1 DEF vars, IInv, GateFollowsBudget, ReservedFits, Overridden, Covered, InPeers
    <3> QED BY <3>1, <3>2 DEF IInv
  <2>2. GivesNothing
    <3> SUFFICES ASSUME NEW p \in Payers
                 PROVE  Held(p)' + Paid(p) <= Held(p) + Paid(p)'
      BY DEF GivesNothing
    <3>1. Held(p)' = Held(p) /\ Paid(p)' = Paid(p)
      BY <1>1 DEF vars, Held, Paid
    <3>2. recorded \in [Channels -> U64] /\ HeldOf(Start(p)) = Held(p) /\ HeldOf(Start(p)) \in Nat
      BY StartSound DEF IInv, TypeOK
    <3>3. Held(p) \in Nat /\ Paid(p) \in Nat
      BY <3>2, PaidType
    <3> QED BY <3>1, <3>3
  <2>3. StepSettles
    BY <1>1, <2>2 DEF vars, StepSettles, ClosesSettle, OpensVerified, HandsOverHeld, IsOpen
  <2> QED BY <2>1, <2>3
<1>2. CASE Elapse
  BY <1>2, ElapseStep
<1>3. CASE Tick
  BY <1>3, TickStep
<1>4. CASE Shutdown
  BY <1>4, ShutdownStep
<1>5. CASE Crash
  BY <1>5, CrashStep
<1>6. ASSUME NEW p \in Payers,
             \/ PeerUp(p) \/ PeerUpBlocked(p) \/ PeerDown(p) \/ RecvDisconnect(p)
             \/ RecvOffer(p) \/ OutgoingFunded(p) \/ RecvEmptyAccept(p) \/ RecvOther(p)
      PROVE  IInv' /\ StepSettles
  BY <1>6, PeerUpStep, PeerUpBlockedStep, PeerDownStep, RecvDisconnectStep,
     RecvOfferStep, OutgoingFundedStep, RecvEmptyAcceptStep, RecvOtherStep
<1>7. ASSUME NEW p \in Payers, NEW c \in Channels,
             \/ RecvAccept(p, c) \/ RecvRolloverInit(p, c) \/ FundingVerified(p, c)
             \/ FundingRejected(p, c) \/ RecvBadSignature(p, c) \/ RecvChannelClose(p, c)
      PROVE  IInv' /\ StepSettles
  BY <1>7, RecvAcceptStep, RecvRolloverInitStep, FundingVerifiedStep,
     FundingRejectedStep, RecvBadSignatureStep, RecvChannelCloseStep
<1>8. ASSUME NEW p \in Payers, NEW us \in Purchases, NEW w \in Windows, NEW r \in Rates,
             RecvTopUp(p, us, w, r)
      PROVE  IInv' /\ StepSettles
  <2>1. us \in Updates /\ w \in U64 /\ r \in U64
    BY ProviderAssumption
  <2> QED BY <1>8, <2>1, RecvTopUpStep
<1>9. ASSUME NEW p \in Payers, NEW policy \in Overrides, SetPeerPolicy(p, policy)
      PROVE  IInv' /\ StepSettles
  BY <1>9, SetPeerPolicyStep
<1> QED BY <1>1, <1>2, <1>3, <1>4, <1>5, <1>6, <1>7, <1>8, <1>9 DEF Next

-----------------------------------------------------------------------------
(* Every field keeps its type in every run of the node: no counter leaves its *)
(* width, and failures never pass the limit on a channel still recognised.    *)
THEOREM TypeCorrect == Spec => []TypeOK
<1>1. Init => IInv
  BY InitInv
<1>2. IInv /\ [Next]_vars => IInv'
  BY NextInv
<1>3. IInv => TypeOK
  BY DEF IInv
<1> QED BY <1>1, <1>2, <1>3, PTL DEF Spec

(* No budget is overdrawn, and nothing is reserved without one, through every *)
(* interleaving of purchases, ticks, parking, returns and restarts (take,     *)
(* expire_if_due, apply, park).                                               *)
THEOREM BudgetsSound == Spec => []BudgetSound
<1>1. Init => IInv
  BY InitInv
<1>2. IInv /\ [Next]_vars => IInv'
  BY NextInv
<1>3. IInv => BudgetSound
  BY DEF IInv
<1> QED BY <1>1, <1>2, <1>3, PTL DEF Spec

(* The channel backend holds exactly what core granted on every channel core  *)
(* recognises, and each is recognised for its funder alone (on_topup,         *)
(* RecordUpdates, restart).                                                   *)
THEOREM BackendAgrees == Spec => []RecordedIsGranted
<1>1. Init => IInv
  BY InitInv
<1>2. IInv /\ [Next]_vars => IInv'
  BY NextInv
<1>3. IInv => RecordedIsGranted
  BY DEF IInv
<1> QED BY <1>1, <1>2, <1>3, PTL DEF Spec

(* Nothing is recognised or recorded on a channel before its funding verified *)
(* (on_incoming_verified, VerifyFunding).                                     *)
THEOREM NothingPaidUnverified == Spec => []PaidAfterVerified
<1>1. Init => IInv
  BY InitInv
<1>2. IInv /\ [Next]_vars => IInv'
  BY NextInv
<1>3. IInv => PaidAfterVerified
  BY DEF IInv
<1> QED BY <1>1, <1>2, <1>3, PTL DEF Spec

(* No channel is dropped unsettled, however its session ended, short of a     *)
(* crash (discard, settle_expiring_in, on_topup, on_unverified_topup).        *)
THEOREM NothingPaidIsLost == Spec => ClosedIsSettled
<1>1. Init => IInv
  BY InitInv
<1>2. IInv /\ [Next]_vars => IInv'
  BY NextInv
<1>3. IInv /\ [Next]_vars =>
        [Crash \/ \A c \in Channels :
            IsOpen(c) /\ ~IsOpen(c)' => settled'[c] = settled[c] + 1]_vars
  BY NextInv DEF StepSettles, ClosesSettle
<1> QED BY <1>1, <1>2, <1>3, PTL DEF Spec, ClosedIsSettled

-----------------------------------------------------------------------------
(* What the invariant gives the node and its payers: every channel is      *)
(* settled once and before its refund path opens, the rates reserved fit,  *)
(* the gate follows the budget, and no budget is conjured up or lost by    *)
(* saving, parking, resuming or restarting.                                *)

-----------------------------------------------------------------------------
(* Settlement happens once.                                                 *)

\* A channel that was settled was verified, and is not paid on again.
Once ==
    \A c \in Channels :
        /\ settled[c] <= 1
        /\ settled[c] = 1 => ~IsOpen(c) /\ c \in announced \ verifying

(* A channel whose funding was checked is never checked again: its funding is *)
(* announced once (on_accept, on_rollover_init).                              *)
LEMMA CheckedForGood ==
    ASSUME [Next]_vars
    PROVE  announced \ verifying \subseteq announced' \ verifying'
<1>1. CASE UNCHANGED vars
  BY <1>1 DEF vars
<1>2. CASE Elapse \/ Tick \/ Shutdown \/ Crash
  BY <1>2 DEF Elapse, Tick, Shutdown, Crash
<1>3. ASSUME NEW p \in Payers,
             \/ PeerUp(p) \/ PeerUpBlocked(p) \/ PeerDown(p) \/ RecvDisconnect(p)
             \/ RecvOffer(p) \/ OutgoingFunded(p) \/ RecvEmptyAccept(p) \/ RecvOther(p)
      PROVE  announced' = announced /\ verifying' = verifying
  BY <1>3 DEF PeerUp, PeerUpBlocked, PeerDown, RecvDisconnect, RecvOffer,
              OutgoingFunded, RecvEmptyAccept, RecvOther
<1>4. ASSUME NEW p \in Payers, NEW c \in Channels,
             \/ RecvAccept(p, c) \/ RecvRolloverInit(p, c) \/ FundingVerified(p, c)
             \/ FundingRejected(p, c) \/ RecvBadSignature(p, c) \/ RecvChannelClose(p, c)
      PROVE  announced \ verifying \subseteq announced' \ verifying'
  BY <1>4 DEF RecvAccept, RecvRolloverInit, FundingVerified, FundingRejected,
              RecvBadSignature, RecvChannelClose
<1>5. ASSUME NEW p \in Payers, NEW us, NEW w, NEW r, RecvTopUp(p, us, w, r)
      PROVE  announced' = announced /\ verifying' = verifying
  BY <1>5 DEF RecvTopUp
<1>6. ASSUME NEW p \in Payers, NEW policy, SetPeerPolicy(p, policy)
      PROVE  announced' = announced /\ verifying' = verifying
  BY <1>6 DEF SetPeerPolicy
<1> QED BY <1>1, <1>2, <1>3, <1>4, <1>5, <1>6 DEF Next

(* Every step keeps settlements single. *)
LEMMA OnceAgain ==
    ASSUME MAX_CLOSES = 0, IInv, Once, [Next]_vars
    PROVE  Once'
<1>1. IInv' /\ (Crash \/ StepSettles) /\ announced \ verifying \subseteq announced' \ verifying'
  BY NextInv, CheckedForGood
<1>2. settled \in [Channels -> Nat] /\ settled' \in [Channels -> Nat]
  BY <1>1 DEF IInv, TypeOK
<1>3. CASE Crash
  <2>1. \A c \in Channels : settled'[c] = settled[c] /\ ~IsOpen(c)'
    BY <1>3, NoSessionSound, NewGrantSound DEF Crash, IsOpen
  <2> QED BY <1>1, <2>1 DEF Once
<1>4. CASE StepSettles
  <2> SUFFICES ASSUME NEW c \in Channels
               PROVE  /\ settled'[c] <= 1
                      /\ settled'[c] = 1 => ~IsOpen(c)' /\ c \in announced' \ verifying'
    BY DEF Once
  <2>1. /\ settled[c] \in Nat /\ settled[c] <= 1
        /\ settled[c] = 1 => ~IsOpen(c) /\ c \in announced \ verifying
    BY <1>2 DEF Once
  <2>2. CASE settled'[c] = settled[c]
    <3>1. IsOpen(c)' => IsOpen(c) \/ c \in verifying
      BY <1>4 DEF StepSettles, OpensVerified, Timely, IsOpen
    <3> QED BY <1>1, <2>1, <2>2, <3>1
  <2>3. CASE settled'[c] = settled[c] + 1 /\ IsOpen(c) /\ ~IsOpen(c)'
    <3>1. c \in announced \ verifying
      BY <2>3 DEF IsOpen, IInv, PaidAfterVerified
    <3> QED BY <1>1, <2>1, <2>3, <3>1
  <2> QED BY <1>4, <2>2, <2>3 DEF StepSettles, HandsOverHeld
<1> QED BY <1>1, <1>3, <1>4

(* When peers ask for no settlement of their own, every channel is handed to  *)
(* the settler at most once, and never paid on after: through replacement of  *)
(* a session, parking, expiry, failures and shutdown (discard,                *)
(* settle_expiring_in, close_channels).                                       *)
THEOREM SettlesOnce ==
    ASSUME MAX_CLOSES = 0
    PROVE  Spec => []SettledOnce
<1>1. Init => IInv /\ Once
  <2>1. Init => IInv
    BY InitInv
  <2>2. Init => Once
    BY DEF Init, Once
  <2> QED BY <2>1, <2>2
<1>2. IInv /\ Once /\ [Next]_vars => IInv' /\ Once'
  BY NextInv, OnceAgain
<1>3. Once => SettledOnce
  BY DEF Once, SettledOnce, IsOpen
<1> QED BY <1>1, <1>2, <1>3, PTL DEF Spec

-----------------------------------------------------------------------------
(* Settlement happens in time.                                              *)

\* A channel with a refund path is recognised only while the clock has a step
\* to go before it opens, and two if the tick has yet to fall due.  The last
\* step the clock can take needs no second one.
Watched ==
    /\ now <= MAX_NOW
    /\ \A p \in Payers : \A c \in sess[p].grant.open : ExpiresAt[c] # None =>
          /\ now < ExpiresAt[c]
          /\ ~tickDue /\ now < MAX_NOW => now + 1 < ExpiresAt[c]

\* Channels an outcome still recognises after its expiring ones were settled.
Swept(o) ==
    \A c \in o.s.grant.open : ExpiresAt[c] # None => ~(SatAdd(now, LEAD) >= ExpiresAt[c])

(* What follows from a swept outcome is swept. *)
LEMMA SweptOn ==
    ASSUME NEW o, NEW q, Swept(o), Follows(o, q)
    PROVE  Swept(q)
BY DEF Swept, Follows

(* settle_expiring_in leaves no channel that is due. *)
LEMMA ExpiringSwept ==
    ASSUME NEW o, SoundOutcome(o)
    PROVE  Swept(SettleExpiring(o))
<1> DEFINE cs == ExpiringChannels(o.s.grant, now, LEAD)
<1>1. cs \in SUBSET o.s.grant.open
  BY DEF ExpiringChannels
<1>2. SettleExpiring(o).s.grant.open = o.s.grant.open \ cs
  BY <1>1, SettleSound DEF SettleExpiring
<1> QED BY <1>2 DEF Swept, ExpiringChannels

(* A tick sweeps every session, live, parked by this tick, or held. *)
LEMMA TickSweeps ==
    ASSUME IInv, NEW p \in Payers, NEW moved \in U64, NEW carried
    PROVE  Swept(TickOutcome(p, moved, carried))
<1> DEFINE o    == Start(p)
           read == IF o.s.linked THEN Metered(o, moved, carried) ELSE o
           live == IF InPeers(p) THEN Ticked(read) ELSE o
<1>1. TickOutcome(p, moved, carried) =
        IF live.s.place = "parked" THEN HeldOn(live) ELSE live
  BY DEF TickOutcome
<1>2. SoundOutcome(o) /\ now \in U64 /\ (InPeers(p) <=> o.s.place = "peers")
  BY StartSound DEF InPeers, IInv, TypeOK
<1> HIDE DEF o
<1>3. InPeers(p) => SoundOutcome(read) /\ read.s.place = "peers"
  BY <1>2, MeteredSound
<1>4. SoundOutcome(live)
  BY <1>2, <1>3, TickedSound
<1>5. InPeers(p) => \/ live = Park(read)
                    \/ Swept(live)
  <2> SUFFICES ASSUME InPeers(p), live # Park(read)
               PROVE  Swept(live)
    OBVIOUS
  <2> HIDE DEF read
  <2> DEFINE g == ExpireIfDue(read.s.grant, now)
             q == [read EXCEPT !.s.grant = g]
             r == SettleExpiring(q)
  <2>1. live = Refresh(r)
    BY DEF Ticked
  <2>2. SoundOutcome(q)
    <3>1. /\ read \in Outcome /\ read.s.grant \in GrantState /\ GrantSound(read.s.grant)
          /\ read.s.place # "peers" =>
                read.s.grant.reserved = 0 /\ read.s.grant.second = None
          /\ read.s.place = "none" => read.s.grant.open = {}
      BY <1>3 DEF SoundOutcome, Outcome, Session
    <3>2. /\ g \in GrantState /\ GrantSound(g) /\ g.open = read.s.grant.open
          /\ g.second = read.s.grant.second
          /\ g.reserved = 0 \/ g.reserved = read.s.grant.reserved
      BY <1>2, <3>1, ExpireSound, ExpireDraws DEF Dwindles
    <3> HIDE DEF g
    <3> QED BY <3>1, <3>2, RegrantSound
  <2> HIDE DEF q
  <2>3. Swept(r) /\ SoundOutcome(r)
    BY <2>2, ExpiringSwept, SettleExpiringSound
  <2> HIDE DEF r
  <2>4. Follows(r, Refresh(r))
    BY <1>2, <2>3, RefreshSound
  <2> QED BY <2>1, <2>3, <2>4, SweptOn
<1>6. ASSUME live.s.place = "none" \/ live.s.grant.open = {}
      PROVE  Swept(live)
  BY <1>4, <1>6 DEF Swept, SoundOutcome
<1>7. ASSUME live.s.place = "parked"
      PROVE  Swept(HeldOn(live))
  <2> HIDE DEF live
  <2>1. Swept(SettleExpiring(live))
    BY <1>4, ExpiringSwept
  <2>2. Swept(Gone(Discard(live)))
    BY NoSessionSound, NewGrantSound DEF Gone, Discard, Settle, Swept
  <2> QED BY <2>1, <2>2 DEF HeldOn
<1>8. InPeers(p) /\ live = Park(read) /\ live.s.place # "parked" => live.s.grant.open = {}
  <2> SUFFICES ASSUME InPeers(p), live = Park(read), live.s.place # "parked"
               PROVE  live.s.place = "none" \/ live.s.grant.open = {}
    BY <1>4 DEF SoundOutcome
  <2> HIDE DEF read, live
  <2> QED BY NoSessionSound, NewGrantSound DEF Park, Gone
<1> HIDE DEF live, read
<1>9. ~InPeers(p) => live = o
  BY DEF live
<1>10. ~InPeers(p) /\ live.s.place # "parked" => live.s.place = "none"
  BY <1>2, <1>9 DEF SoundOutcome, Outcome, Session, Places
<1> QED BY <1>1, <1>5, <1>6, <1>7, <1>8, <1>10

(* A step that leaves the clock alone opens no channel but one whose refund  *)
(* path is at least twice the lead away.                                     *)
LEMMA OpensWatched ==
    ASSUME LEAD > 0, MAX_NOW < U64_MAX, IInv, Watched, IInv', OpensVerified,
           UNCHANGED <<now, tickDue>>
    PROVE  Watched'
<1> SUFFICES ASSUME NEW p \in Payers, NEW c \in sess'[p].grant.open, ExpiresAt[c] # None
             PROVE  /\ now < ExpiresAt[c]
                    /\ ~tickDue /\ now < MAX_NOW => now + 1 < ExpiresAt[c]
  BY DEF Watched
<1>1. CASE c \in sess[p].grant.open
  BY <1>1 DEF Watched
<1>2. CASE c \in Timely
  <2>1. c \in Channels
    BY DEF IInv, TypeOK, Session, GrantState
  <2>2. /\ now \in Nat /\ MAX_NOW \in Nat /\ LEAD \in Nat /\ MIN_EXPIRY \in Nat
        /\ 2 * LEAD <= MIN_EXPIRY /\ ExpiresAt[c] \in Nat /\ U64_MAX \in Nat
        /\ now <= MAX_NOW
    BY <2>1, ProviderAssumption, ChannelAssumption, WidthNat DEF IInv, TypeOK, Watched
  <2>3. MIN_EXPIRY >= 2
    BY <2>2
  <2>4. now + MIN_EXPIRY <= ExpiresAt[c] \/ U64_MAX <= ExpiresAt[c]
    BY <1>2, <2>2 DEF Timely, SatAdd, Least
  <2> QED BY <2>2, <2>3, <2>4
<1> QED BY <1>1, <1>2 DEF OpensVerified

(* A tick settles what would be due before the next. *)
LEMMA TickWatched ==
    ASSUME LEAD > 0, IInv, Watched, Tick
    PROVE  Watched'
<1>1. PICK moved \in [Payers -> 0 .. MAX_MOVED], carried \in [Payers -> BOOLEAN] :
        CommitAll([p \in Payers |-> TickOutcome(p, moved[p], carried[p])])
  BY DEF Tick
<1>2. now' = now
  BY DEF Tick
<1>3. IInv'
  BY TickStep
<1> SUFFICES ASSUME NEW p \in Payers, NEW c \in sess'[p].grant.open, ExpiresAt[c] # None
             PROVE  now < ExpiresAt[c] /\ now + 1 < ExpiresAt[c]
  BY <1>2 DEF Watched
<1>4. sess'[p] = TickOutcome(p, moved[p], carried[p]).s
  BY <1>1 DEF CommitAll
<1>5. moved[p] \in U64
  BY ProviderAssumption, WidthAssumption DEF U64
<1>6. Swept(TickOutcome(p, moved[p], carried[p]))
  BY <1>5, TickSweeps
<1>7. ~(SatAdd(now, LEAD) >= ExpiresAt[c])
  BY <1>4, <1>6 DEF Swept
<1>8. c \in Channels
  BY <1>3 DEF IInv, TypeOK, Session, GrantState
<1>9. now \in Nat /\ LEAD \in Nat /\ ExpiresAt[c] \in U64 /\ U64_MAX \in Nat
  BY <1>8, ProviderAssumption, ChannelAssumption, WidthNat DEF IInv, TypeOK
<1> QED BY <1>7, <1>9 DEF SatAdd, Least, U64

(* Only Elapse and Tick touch the clock and its timer. *)
LEMMA ClockSteps ==
    ASSUME [Next]_vars, ~Elapse, ~Tick
    PROVE  UNCHANGED <<now, tickDue>>
<1>1. CASE UNCHANGED vars
  BY <1>1 DEF vars
<1>2. CASE Shutdown \/ Crash
  BY <1>2 DEF Shutdown, Crash
<1>3. ASSUME NEW p \in Payers,
             \/ PeerUp(p) \/ PeerUpBlocked(p) \/ PeerDown(p) \/ RecvDisconnect(p)
             \/ RecvOffer(p) \/ OutgoingFunded(p) \/ RecvEmptyAccept(p) \/ RecvOther(p)
      PROVE  UNCHANGED <<now, tickDue>>
  BY <1>3 DEF PeerUp, PeerUpBlocked, PeerDown, RecvDisconnect, RecvOffer,
              OutgoingFunded, RecvEmptyAccept, RecvOther
<1>4. ASSUME NEW p \in Payers, NEW c \in Channels,
             \/ RecvAccept(p, c) \/ RecvRolloverInit(p, c) \/ FundingVerified(p, c)
             \/ FundingRejected(p, c) \/ RecvBadSignature(p, c) \/ RecvChannelClose(p, c)
      PROVE  UNCHANGED <<now, tickDue>>
  BY <1>4 DEF RecvAccept, RecvRolloverInit, FundingVerified, FundingRejected,
              RecvBadSignature, RecvChannelClose
<1>5. ASSUME NEW p \in Payers, NEW us, NEW w, NEW r, RecvTopUp(p, us, w, r)
      PROVE  UNCHANGED <<now, tickDue>>
  BY <1>5 DEF RecvTopUp
<1>6. ASSUME NEW p \in Payers, NEW policy, SetPeerPolicy(p, policy)
      PROVE  UNCHANGED <<now, tickDue>>
  BY <1>6 DEF SetPeerPolicy
<1> QED BY <1>1, <1>2, <1>3, <1>4, <1>5, <1>6 DEF Next

(* Every step keeps every refund path ahead of the clock. *)
LEMMA WatchedAgain ==
    ASSUME LEAD > 0, MAX_NOW < U64_MAX, IInv, Watched, [Next]_vars
    PROVE  Watched'
<1>1. IInv' /\ (Crash \/ StepSettles)
  BY NextInv
<1>2. CASE Elapse
  <2>1. now \in Nat /\ MAX_NOW \in Nat
    BY ProviderAssumption, WidthNat DEF IInv, TypeOK
  <2> QED BY <1>2, <2>1 DEF Elapse, Watched
<1>3. CASE Tick
  BY <1>3, TickWatched
<1>4. CASE ~Elapse /\ ~Tick
  <2>1. UNCHANGED <<now, tickDue>>
    BY <1>4, ClockSteps
  <2>2. CASE Crash
    <3>1. \A p \in Payers : sess'[p].grant.open = {}
      BY <2>2, NoSessionSound, NewGrantSound DEF Crash
    <3> QED BY <2>1, <3>1 DEF Watched
  <2>3. CASE StepSettles
    BY <1>1, <2>1, <2>3, OpensWatched DEF StepSettles
  <2> QED BY <1>1, <2>2, <2>3
<1> QED BY <1>2, <1>3, <1>4

(* With a lead to settle in, no channel is paid on once its refund path is    *)
(* open, live or held, whatever a worker's answer or a peer's return crosses  *)
(* with: a funding is taken only with twice the lead to go, and every tick    *)
(* settles what the next could miss (settle_expiring, min_expiry_seconds).    *)
THEOREM RefundsSafe ==
    ASSUME LEAD > 0, MAX_NOW < U64_MAX
    PROVE  Spec => []RefundSafe
<1>1. Init => IInv /\ Watched
  <2>1. Init => IInv
    BY InitInv
  <2>2. Init => Watched
    <3>1. MAX_NOW \in Nat
      BY ProviderAssumption, WidthNat
    <3> QED BY <3>1, NoSessionSound, NewGrantSound DEF Init, Watched
  <2> QED BY <2>1, <2>2
<1>2. IInv /\ Watched /\ [Next]_vars => IInv' /\ Watched'
  BY NextInv, WatchedAgain
<1>3. Watched => RefundSafe
  BY DEF Watched, RefundSafe
<1> QED BY <1>1, <1>2, <1>3, PTL DEF Spec

-----------------------------------------------------------------------------
(* Admission and the gate.                                                  *)

(* The rates reserved by connected payers together never pass max_rate, for   *)
(* any number of payers and any order of their purchases, disconnects and     *)
(* returns: a session that is ending or held reserves nothing that a later    *)
(* return could bring back (evaluate_topup, reserved_elsewhere, park).        *)
THEOREM AdmissionFits == Spec => []ReservedFits
<1>1. Init => IInv
  BY InitInv
<1>2. IInv /\ [Next]_vars => IInv'
  BY NextInv
<1>3. IInv => ReservedFits
  BY DEF IInv
<1> QED BY <1>1, <1>2, <1>3, PTL DEF Spec

(* A live budget is never gated, and a charged payer never shaped so fast     *)
(* that one tick could pass its budget, whatever path its session took        *)
(* (refresh after every change, shaping_rate, per_tick_ceiling).              *)
THEOREM GateFollows == Spec => []GateFollowsBudget
<1>1. Init => IInv
  BY InitInv
<1>2. IInv /\ [Next]_vars => IInv'
  BY NextInv
<1>3. IInv => GateFollowsBudget
  BY DEF IInv
<1> QED BY <1>1, <1>2, <1>3, PTL DEF Spec

-----------------------------------------------------------------------------
(* What is kept on disk.                                                    *)

(* While every peer is charged and none is back before the end of its ended   *)
(* session has come, what is on disk covers every live budget, so a crash     *)
(* costs no payer anything (save_budget, refresh, park, restore).             *)
THEOREM CrashCostsNothing ==
    ASSUME Accountable
    PROVE  Spec => []DiskCovers
<1>1. Init => IInv
  BY InitInv
<1>2. IInv /\ [Next]_vars => IInv'
  BY NextInv
<1>3. IInv => DiskCovers
  <2> SUFFICES ASSUME IInv, NEW p \in Payers, InPeers(p)
               PROVE  BudgetAt(disk[p], now).remaining >= Held(p)
    BY DEF DiskCovers
  <2>1. CoversAt(disk[p], sess[p].grant, now)
    BY DEF IInv, Covered
  <2>2. Held(p) = BudgetOf(sess[p].grant, now).remaining
    BY DEF Held, InPeers
  <2> QED BY <2>1, <2>2 DEF CoversAt
<1> QED BY <1>1, <1>2, <1>3, PTL DEF Spec

(* What a payer holds, and has paid, are numbers of units. *)
LEMMA HeldPaidType ==
    IInv => \A p \in Payers : Held(p) \in Nat /\ Paid(p) \in Nat
<1> SUFFICES ASSUME IInv, NEW p \in Payers
             PROVE  Held(p) \in Nat /\ Paid(p) \in Nat
  OBVIOUS
<1>1. HeldOf(Start(p)) = Held(p) /\ HeldOf(Start(p)) \in Nat
  BY StartSound
<1>2. recorded \in [Channels -> U64]
  BY DEF IInv, TypeOK
<1> QED BY <1>1, <1>2, PaidType

(* On the same terms no step but a crash leaves a payer with more than it had *)
(* and has just paid: not parking, returning, restoring from disk, settling,  *)
(* expiry, or a purchase whose updates were partly counted before             *)
(* (authorized becomes what was left; evaluate_topup, apply, restart).        *)
THEOREM NothingForFree ==
    ASSUME Accountable
    PROVE  Spec => NoFreeBudget
<1>1. Init => IInv
  BY InitInv
<1>2. IInv /\ [Next]_vars => IInv'
  BY NextInv
<1>3. IInv' => (\A p \in Payers : Held(p) \in Nat /\ Paid(p) \in Nat)'
  BY HeldPaidType, PTL
<1>4. IInv /\ [Next]_vars =>
        [Crash \/ \A p \in Payers : Held(p)' - Held(p) <= Paid(p)' - Paid(p)]_vars
  <2> SUFFICES ASSUME IInv, [Next]_vars, ~Crash, NEW p \in Payers
               PROVE  Held(p)' - Held(p) <= Paid(p)' - Paid(p)
    OBVIOUS
  <2>1. IInv' /\ StepSettles
    BY NextInv
  <2>2. Held(p)' + Paid(p) <= Held(p) + Paid(p)'
    BY <2>1 DEF StepSettles, GivesNothing
  <2>3. Held(p) \in Nat /\ Paid(p) \in Nat
    BY HeldPaidType
  <2>4. Held(p)' \in Nat /\ Paid(p)' \in Nat
    BY <1>3, <2>1
  <2> QED BY <2>2, <2>3, <2>4
<1> QED BY <1>1, <1>2, <1>4, PTL DEF Spec, NoFreeBudget

-----------------------------------------------------------------------------
(* What a step costs.  A budget is drawn by the whole second, so a step may   *)
(* cost what the reservation owes for the second being drawn; what it still   *)
(* owes afterwards it has not cost yet.                                       *)

\* What an outcome still owes for the second being drawn: Owing, of the outcome.
OwedOf(o) == OwedAt(o.s.grant, now)

\* The second being drawn was last read in the past and, while the payer is
\* metered, began no more than `span` ago.
Steady(s, span) ==
    s.grant.second # None =>
        /\ ReadBy(s.grant.second, now)
        /\ s.linked => Within(s.grant.second, now, span)

\* Neither the session nor what is kept on disk holds more than `paid`.
FundedBy(o, paid) == o.s.grant.authorized <= paid /\ o.kept.remaining <= paid

\* q costs the payer no more than o owed, less what q still owes.
Spares(o, q, span) ==
    /\ OwedOf(o) \in Nat /\ OwedOf(q) \in Nat
    /\ \A paid \in Nat : FundedBy(o, paid) => FundedBy(q, paid)
    /\ Accountable /\ Charged(o) /\ Saved(o) /\ Steady(o.s, span) =>
          /\ Steady(q.s, span)
          /\ HeldOf(o) + OwedOf(q) <= HeldOf(q) + OwedOf(o)

(* What an outcome owes is a number of units. *)
LEMMA OwedOfType ==
    ASSUME NEW o, SoundOutcome(o), now \in U64
    PROVE  /\ OwedOf(o) \in Nat /\ HeldOf(o) \in Nat
           /\ o.s.grant \in GrantState /\ GrantSound(o.s.grant)
           /\ o.kept \in Budget
<1>1. o.s.grant \in GrantState /\ GrantSound(o.s.grant) /\ o.kept \in Budget
  BY DEF SoundOutcome, Outcome, Session
<1> DEFINE g == o.s.grant
<1>2. g \in GrantState
  BY <1>1
<1> HIDE DEF g
<1>3. OwedAt(g, now) \in Nat
  BY <1>2, OwedType
<1> QED BY <1>1, <1>3, HeldType DEF OwedOf, g

(* Sparing is transitive, as long as nothing is given either. *)
LEMMA SparesOn ==
    ASSUME NEW o, NEW q, NEW r, NEW span, Keeps(o, q), Keeps(q, r),
           Spares(o, q, span), Spares(q, r, span)
    PROVE  Spares(o, r, span)
<1>1. /\ OwedOf(o) \in Nat /\ OwedOf(q) \in Nat /\ OwedOf(r) \in Nat
      /\ HeldOf(o) \in Nat /\ HeldOf(q) \in Nat /\ HeldOf(r) \in Nat
      /\ \A paid \in Nat : FundedBy(o, paid) => FundedBy(r, paid)
  BY DEF Spares, Keeps
<1>2. ASSUME Accountable, Charged(o), Saved(o), Steady(o.s, span)
      PROVE  /\ Steady(r.s, span)
             /\ HeldOf(o) + OwedOf(r) <= HeldOf(r) + OwedOf(o)
  <2>1. /\ Charged(q) /\ Saved(q) /\ Steady(q.s, span)
        /\ HeldOf(o) + OwedOf(q) <= HeldOf(q) + OwedOf(o)
    BY <1>2 DEF Spares, Keeps
  <2>2. Steady(r.s, span) /\ HeldOf(q) + OwedOf(r) <= HeldOf(r) + OwedOf(q)
    BY <1>2, <2>1 DEF Spares
  <2> QED BY <1>1, <2>1, <2>2
<1> QED BY <1>1, <1>2 DEF Spares

(* A change that leaves what is drawn, and what is kept, as they are. *)
LEMMA SparesAlike ==
    ASSUME NEW o, NEW q, NEW span, SoundOutcome(o), SoundOutcome(q), now \in U64,
           Alike(o.s.grant, q.s.grant), q.kept = o.kept,
           q.s.place = "none" <=> o.s.place = "none", q.s.linked => o.s.linked
    PROVE  Spares(o, q, span)
<1>1. /\ OwedOf(o) \in Nat /\ OwedOf(q) \in Nat /\ HeldOf(o) \in Nat /\ HeldOf(q) \in Nat
  BY OwedOfType
<1>2. \A t : BudgetOf(q.s.grant, t) = BudgetOf(o.s.grant, t)
             /\ OwedAt(q.s.grant, t) = OwedAt(o.s.grant, t)
  BY AlikeHolds
<1>3. HeldOf(q) = HeldOf(o) /\ OwedOf(q) = OwedOf(o)
  BY <1>2 DEF HeldOf, OwedOf
<1>4. Steady(o.s, span) => Steady(q.s, span)
  BY DEF Steady, Alike
<1>5. \A paid \in Nat : FundedBy(o, paid) => FundedBy(q, paid)
  BY DEF FundedBy, Alike
<1> QED BY <1>1, <1>3, <1>4, <1>5 DEF Spares

(* Nothing done costs nothing. *)
LEMMA SparesNothing ==
    ASSUME NEW o, NEW span, SoundOutcome(o), now \in U64
    PROVE  Spares(o, o, span)
<1>1. Alike(o.s.grant, o.s.grant)
  BY DEF Alike
<1> QED BY <1>1, SparesAlike

(* Channels are settled at no cost. *)
LEMMA SettleSpares ==
    ASSUME NEW o, NEW span, SoundOutcome(o), now \in U64, NEW cs \in SUBSET o.s.grant.open
    PROVE  /\ Alike(o.s.grant, Settle(o, cs).s.grant)
           /\ Spares(o, Settle(o, cs), span)
<1>1. SoundOutcome(Settle(o, cs)) /\ SameTerms(o, Settle(o, cs))
  BY SettleSound
<1>2. o \in Outcome /\ o.s \in Session /\ o.s.grant \in GrantState
  BY DEF SoundOutcome, Outcome, Session
<1>3. Settle(o, cs).s.grant = CloseChannels(o.s.grant, cs)
  <2> DEFINE t == [o.s EXCEPT !.grant = CloseChannels(@, cs)]
  <2>1. Settle(o, cs).s = t
    BY <1>2 DEF Settle, Outcome
  <2>2. t.grant = CloseChannels(o.s.grant, cs)
    BY <1>2 DEF Session
  <2> QED BY <2>1, <2>2
<1>4. Alike(o.s.grant, Settle(o, cs).s.grant)
  <2> DEFINE g == o.s.grant
  <2>1. g \in GrantState
    BY <1>2
  <2> HIDE DEF g
  <2>2. \A c : Alike(g, CloseChannels(g, cs))
    BY <2>1, ChannelsAlike
  <2> QED BY <1>3, <2>2 DEF g
<1>5. Spares(o, Settle(o, cs), span)
  BY <1>1, <1>4, SparesAlike DEF SameTerms
<1> QED BY <1>4, <1>5

(* So are all of them, and those about to expire. *)
LEMMA DiscardSpares ==
    ASSUME NEW o, NEW span, SoundOutcome(o), now \in U64
    PROVE  /\ Spares(o, Discard(o), span)
           /\ Spares(o, SettleExpiring(o), span)
<1>1. o.s.grant.open \in SUBSET o.s.grant.open
  OBVIOUS
<1>2. ExpiringChannels(o.s.grant, now, LEAD) \in SUBSET o.s.grant.open
  BY DEF ExpiringChannels
<1> QED BY <1>1, <1>2, SettleSpares DEF Discard, SettleExpiring

(* refresh gives up nothing but what is kept of a budget already spent. *)
LEMMA RefreshSpares ==
    ASSUME NEW o, NEW span, SoundOutcome(o), now \in U64, o.s.place # "none"
    PROVE  Spares(o, Refresh(o), span)
<1> DEFINE q == Refresh(o)
<1>1. /\ SoundOutcome(q) /\ q.s.grant = o.s.grant /\ q.s.place = o.s.place
      /\ q.s.linked = o.s.linked
  BY RefreshSound
<1>2. q.kept = o.kept \/ q.kept = NoBudget
  <2>1. o \in Outcome
    BY DEF SoundOutcome
  <2> QED BY <2>1 DEF Refresh, Outcome
<1> HIDE DEF q
<1>3. OwedOf(o) \in Nat /\ OwedOf(q) \in Nat /\ HeldOf(o) \in Nat
  BY <1>1, OwedOfType
<1>4. HeldOf(q) = HeldOf(o) /\ OwedOf(q) = OwedOf(o)
  BY <1>1 DEF HeldOf, OwedOf
<1>5. \A paid \in Nat : FundedBy(o, paid) => FundedBy(q, paid)
  BY <1>1, <1>2 DEF FundedBy, NoBudget
<1>6. Steady(o.s, span) => Steady(q.s, span)
  BY <1>1 DEF Steady
<1>7. Spares(o, q, span)
  BY <1>3, <1>4, <1>5, <1>6 DEF Spares
<1> QED BY <1>7 DEF q

(* A budget is worth no more than was authorized. *)
LEMMA BudgetWithin ==
    ASSUME NEW g \in GrantState, NEW t \in U64
    PROVE  BudgetOf(g, t).remaining <= g.authorized
<1>1. g.authorized \in Nat /\ g.consumed \in Nat
  BY WidthNat DEF GrantState
<1>2. Remaining(g) <= g.authorized
  BY <1>1, SaturationType DEF Remaining
<1> QED BY <1>1, <1>2, BudgetOfIs

(* save_budget keeps no more than the session has. *)
LEMMA SaveBudgetSpares ==
    ASSUME NEW o, NEW span, SoundOutcome(o), now \in U64, o.s.place # "none"
    PROVE  Spares(o, SaveBudget(o), span)
<1> DEFINE q == SaveBudget(o)
           b == BudgetOf(o.s.grant, now)
<1>1. SoundOutcome(q) /\ q.s = o.s
  BY SaveBudgetSound
<1>2. q.kept = o.kept \/ q.kept = b
  <2>1. o \in Outcome
    BY DEF SoundOutcome
  <2> QED BY <2>1 DEF SaveBudget, Outcome
<1> HIDE DEF q
<1>3. /\ OwedOf(o) \in Nat /\ OwedOf(q) \in Nat /\ HeldOf(o) \in Nat
      /\ o.s.grant \in GrantState
  BY <1>1, OwedOfType
<1>4. b.remaining <= o.s.grant.authorized /\ b.remaining \in Nat /\ o.s.grant.authorized \in Nat
  <2> DEFINE g == o.s.grant
  <2>1. g \in GrantState
    BY <1>3
  <2>2. NoBudget \in Budget
    BY WidthNat DEF NoBudget, Budget
  <2> HIDE DEF g
  <2>3. BudgetOf(g, now).remaining <= g.authorized /\ BudgetOf(g, now) \in Budget
    BY <2>1, <2>2, BudgetWithin, BudgetType
  <2>4. g.authorized \in Nat
    BY <2>1, WidthNat DEF GrantState
  <2> QED BY <2>3, <2>4, WidthNat DEF g, Budget
<1> HIDE DEF b
<1>5. \A paid \in Nat : FundedBy(o, paid) => FundedBy(q, paid)
  BY <1>1, <1>2, <1>4 DEF FundedBy
<1>6. HeldOf(q) = HeldOf(o) /\ OwedOf(q) = OwedOf(o)
  BY <1>1 DEF HeldOf, OwedOf
<1>7. Spares(o, q, span)
  BY <1>1, <1>3, <1>5, <1>6 DEF Spares
<1> QED BY <1>7 DEF q

(* A session given up leaves its budget on disk. *)
LEMMA GivenUpSpares ==
    ASSUME NEW o, NEW span, SoundOutcome(o), now \in U64, o.s.place # "none",
           Charged(o) /\ Saved(o) => Even(o)
    PROVE  Spares(o, Gone(Discard(o)), span)
<1> DEFINE q == Discard(o)
           r == Gone(q)
<1>1. /\ SoundOutcome(q) /\ SameTerms(o, q) /\ Follows(o, q) /\ Spares(o, q, span)
      /\ SameBudget(o.s.grant, q.s.grant)
  BY DiscardSound, DiscardSpares
<1>2. SoundOutcome(r) /\ r.s = NoSession
  BY GivenUpSound
<1> HIDE DEF q
<1>3. r.kept = q.kept
  <2>1. q \in Outcome
    BY <1>1 DEF SoundOutcome
  <2> QED BY <2>1 DEF Gone, Outcome
<1> HIDE DEF r
<1>4. /\ OwedOf(o) \in Nat /\ OwedOf(r) \in Nat /\ HeldOf(o) \in Nat /\ HeldOf(r) \in Nat
      /\ o.s.grant \in GrantState
  BY <1>1, <1>2, OwedOfType
<1>5. OwedOf(r) = 0 /\ Steady(r.s, span)
  BY <1>2, NoSessionSound, NewGrantSound DEF OwedOf, OwedAt, Steady
<1>6. Even(o) => HeldOf(r) = HeldOf(o)
  BY <1>1, <1>2, <1>3, NoSessionSound DEF Even, HeldOf, SameTerms
<1>7. \A paid \in Nat : FundedBy(o, paid) => FundedBy(r, paid)
  <2>1. r.s.grant.authorized = 0 /\ r.kept = o.kept
    BY <1>1, <1>2, <1>3, NoSessionSound DEF NewGrant, SameTerms
  <2> QED BY <2>1 DEF FundedBy
<1>8. Spares(o, r, span)
  BY <1>4, <1>5, <1>6, <1>7 DEF Spares
<1> QED BY <1>8 DEF q, r

(* A session parked draws the part of a second it was metered for. *)
LEMMA ParkSpares ==
    ASSUME NEW o, NEW span, SoundOutcome(o), now \in U64, o.s.place = "peers"
    PROVE  Spares(o, Park(o), span)
<1> DEFINE g     == EndReservation(o.s.grant)
           q     == [o EXCEPT !.s.grant = g]
           ended == SaveBudget(q)
<1>1. o \in Outcome /\ o.s \in Session /\ o.s.grant \in GrantState /\ GrantSound(o.s.grant)
  BY DEF SoundOutcome, Outcome, Session
<1>2. /\ g \in GrantState /\ GrantSound(g) /\ g.reserved = 0 /\ g.second = None
      /\ g.open = o.s.grant.open /\ g.authorized = o.s.grant.authorized
      /\ Dwindles(o.s.grant, g)
      /\ (o.s.grant.second # None => ReadBy(o.s.grant.second, now)) =>
            BudgetOf(o.s.grant, now).remaining <= BudgetOf(g, now).remaining + OwedAt(o.s.grant, now)
  <2> DEFINE k == o.s.grant
             h == EndReservation(k)
  <2>1. k \in GrantState /\ GrantSound(k)
    BY <1>1
  <2> HIDE DEF k
  <2>2. /\ h \in GrantState /\ GrantSound(h) /\ h.reserved = 0 /\ h.second = None
        /\ h.open = k.open /\ h.authorized = k.authorized /\ Dwindles(k, h)
        /\ Remaining(h) = Remaining(Pause(k)) /\ h.deadline = k.deadline
    BY <2>1, EndReservationSound, EndReservationDraws
  <2>3. Pause(k).deadline = k.deadline
    BY <2>1, PauseDraws
  <2> HIDE DEF h
  <2>4. BudgetOf(h, now) = BudgetOf(Pause(k), now)
    BY <2>2, <2>3 DEF BudgetOf
  <2>5. (k.second # None => ReadBy(k.second, now)) =>
          BudgetOf(k, now).remaining <= BudgetOf(h, now).remaining + OwedAt(k, now)
    BY <2>1, <2>4, PauseCosts
  <2> QED BY <2>2, <2>5 DEF h, k
<1> HIDE DEF g
<1>3. SoundOutcome(q) /\ q.s.grant = g /\ q.settle = o.settle /\ SameTerms(o, q)
  BY <1>1, <1>2, RegrantSound DEF SoundOutcome
<1> HIDE DEF q
<1>4. Keeps(o, q)
  BY <1>2, <1>3, KeepsDrawn
<1>5. Spares(o, q, span)
  <2>1. /\ OwedOf(o) \in Nat /\ OwedOf(q) \in Nat /\ HeldOf(o) \in Nat /\ HeldOf(q) \in Nat
    BY <1>3, OwedOfType
  <2>2. OwedOf(q) = 0 /\ Steady(q.s, span)
    BY <1>2, <1>3 DEF OwedOf, OwedAt, Steady
  <2>3. Steady(o.s, span) => HeldOf(o) <= HeldOf(q) + OwedOf(o)
    BY <1>2, <1>3 DEF Steady, HeldOf, OwedOf, SameTerms
  <2>4. \A paid \in Nat : FundedBy(o, paid) => FundedBy(q, paid)
    BY <1>2, <1>3 DEF FundedBy, SameTerms
  <2> QED BY <2>1, <2>2, <2>3, <2>4 DEF Spares
<1>6. /\ SoundOutcome(ended) /\ ended.s = q.s /\ Keeps(q, ended) /\ Spares(q, ended, span)
      /\ Charged(ended) => Even(ended)
  BY <1>3, SaveBudgetSound, SaveBudgetSpares DEF SameTerms, Charged, Follows
<1>7. /\ Keeps(o, ended) /\ Spares(o, ended, span)
      /\ ended.s.grant = g /\ ended.s.place = "peers"
  BY <1>3, <1>4, <1>5, <1>6, KeepsOn, SparesOn DEF SameTerms
<1>8. Park(o) = IF STALE = 0 THEN Gone(Discard(ended))
                ELSE [ended EXCEPT !.s = [ended.s EXCEPT !.place = "parked",
                                             !.linked = FALSE, !.since = now]]
  BY DEF Park, ended, q, g
<1> HIDE DEF ended
<1>9. CASE STALE = 0
  <2>1. /\ Spares(ended, Gone(Discard(ended)), span)
        /\ Keeps(ended, Gone(Discard(ended)))
    BY <1>6, <1>7, GivenUpSpares, GivenUpSound DEF Follows
  <2> QED BY <1>7, <1>8, <1>9, <2>1, SparesOn
<1>10. CASE STALE # 0
  <2> DEFINE t == [ended.s EXCEPT !.place = "parked", !.linked = FALSE, !.since = now]
             r == Park(o)
  <2>1. ended \in Outcome /\ ended.s \in Session
    BY <1>6 DEF SoundOutcome, Outcome
  <2>2. /\ t \in Session /\ t.grant = g /\ t.place = "parked" /\ t.linked = FALSE
        /\ t.policy = ended.s.policy
    BY <1>7, <2>1 DEF Session, Places
  <2>3. r = [ended EXCEPT !.s = t]
    BY <1>8, <1>10
  <2>4. SoundOutcome(r)
    BY ParkSound
  <2> HIDE DEF t, r
  <2>5. r.s = t /\ r.kept = ended.kept
    BY <2>1, <2>3 DEF Outcome
  <2>6. Alike(ended.s.grant, r.s.grant)
    BY <1>7, <2>2, <2>5 DEF Alike
  <2>7. Spares(ended, r, span)
    BY <1>6, <1>7, <2>2, <2>4, <2>5, <2>6, SparesAlike
  <2>8. Keeps(ended, r)
    <3>1. HeldOf(r) \in Nat /\ HeldOf(ended) \in Nat /\ HeldOf(r) = HeldOf(ended)
      BY <1>6, <1>7, <2>2, <2>4, <2>5, HeldType DEF HeldOf
    <3>2. Charged(ended) => Saved(r) /\ Charged(r)
      BY <1>6, <1>7, <2>2, <2>5 DEF Saved, Even, Charged
    <3> QED BY <2>2, <2>5, <3>1, <3>2 DEF Keeps, Tied, ReservesLess
  <2> QED BY <1>7, <2>7, <2>8, SparesOn DEF r
<1> QED BY <1>9, <1>10

(* A meter reading costs what the reservation owed and what moved, and leaves *)
(* a second begun less than a whole one ago.                                  *)
LEMMA MeteredCosts ==
    ASSUME NEW o, SoundOutcome(o), now \in U64, o.s.place = "peers", o.s.linked,
           NEW moved \in U64, NEW carried, Steady(o.s, SECOND_MS),
           NEW r, r = Metered(o, moved, carried)
    PROVE  /\ OwedOf(r) \in Nat /\ Steady(r.s, SECOND_MS - 1)
           /\ \A paid \in Nat : FundedBy(o, paid) => FundedBy(r, paid)
           /\ HeldOf(o) + OwedOf(r) <= HeldOf(r) + (OwedOf(o) + moved)
<1> DEFINE g == IF carried /\ o.s.access = "Active"
                THEN Draw(o.s.grant, moved, now) ELSE Pause(o.s.grant)
           q == [o EXCEPT !.s.grant = g]
<1>1. o \in Outcome /\ o.s.grant \in GrantState /\ GrantSound(o.s.grant)
  BY DEF SoundOutcome, Outcome, Session
<1>2. /\ g \in GrantState /\ GrantSound(g) /\ g.authorized = o.s.grant.authorized
      /\ g.second # None => ReadBy(g.second, now) /\ Within(g.second, now, SECOND_MS - 1)
      /\ BudgetOf(o.s.grant, now).remaining + OwedAt(g, now)
            <= BudgetOf(g, now).remaining + (OwedAt(o.s.grant, now) + moved)
  <2> DEFINE k == o.s.grant
             d == Draw(k, moved, now)
             h == Pause(k)
  <2>1. /\ k \in GrantState /\ GrantSound(k)
        /\ k.second # None => ReadBy(k.second, now) /\ Within(k.second, now, SECOND_MS)
    BY <1>1 DEF Steady
  <2> HIDE DEF k
  <2>2. /\ d \in GrantState /\ GrantSound(d) /\ d.authorized = k.authorized
        /\ ReadBy(d.second, now) /\ Within(d.second, now, SECOND_MS - 1)
        /\ BudgetOf(k, now).remaining + OwedAt(d, now)
              <= BudgetOf(d, now).remaining + (OwedAt(k, now) + moved)
    BY <2>1, DrawSound, DrawCosts
  <2>3. /\ h \in GrantState /\ GrantSound(h) /\ h.authorized = k.authorized /\ h.second = None
        /\ BudgetOf(k, now).remaining <= BudgetOf(h, now).remaining + OwedAt(k, now)
    BY <2>1, PauseSound, PauseDraws, PauseCosts
  <2> HIDE DEF d, h
  <2>4. BudgetOf(k, now).remaining + OwedAt(h, now)
              <= BudgetOf(h, now).remaining + (OwedAt(k, now) + moved)
    <3>1. OwedAt(h, now) = 0
      BY <2>3 DEF OwedAt
    <3>2. OwedAt(k, now) \in Nat /\ moved \in Nat
      BY <2>1, OwedType, WidthNat
    <3>3. BudgetOf(k, now).remaining \in Nat /\ BudgetOf(h, now).remaining \in Nat
      BY <2>1, <2>3, BudgetOfIs, RemainingType, WidthNat
    <3> QED BY <2>3, <3>1, <3>2, <3>3
  <2>5. g = IF carried /\ o.s.access = "Active" THEN d ELSE h
    BY DEF d, h, k
  <2> HIDE DEF g
  <2> QED BY <2>2, <2>3, <2>4, <2>5 DEF k
<1>3. r = Refresh(q)
  BY DEF Metered
<1> HIDE DEF g
<1>4. SoundOutcome(q) /\ q.s.grant = g /\ q.s.place = "peers" /\ SameTerms(o, q)
  BY <1>1, <1>2, RegrantSound
<1> HIDE DEF q
<1>5. /\ SoundOutcome(r) /\ r.s.grant = g /\ r.s.place = "peers"
      /\ Spares(q, r, SECOND_MS)
  BY <1>3, <1>4, RefreshSound, RefreshSpares
<1>6. OwedOf(r) \in Nat
  BY <1>5, OwedOfType
<1>7. Steady(r.s, SECOND_MS - 1)
  BY <1>2, <1>5 DEF Steady
<1>8. \A paid \in Nat : FundedBy(o, paid) => FundedBy(r, paid)
  <2>1. \A paid \in Nat : FundedBy(o, paid) => FundedBy(q, paid)
    BY <1>2, <1>4 DEF FundedBy, SameTerms
  <2> QED BY <1>5, <2>1 DEF Spares
<1>9. HeldOf(o) + OwedOf(r) <= HeldOf(r) + (OwedOf(o) + moved)
  BY <1>2, <1>5 DEF HeldOf, OwedOf
<1> QED BY <1>6, <1>7, <1>8, <1>9

(* Core's tick costs what a session it parks owes. *)
LEMMA TickedSpares ==
    ASSUME NEW o, NEW span, SoundOutcome(o), now \in U64, o.s.place = "peers"
    PROVE  Spares(o, Ticked(o), span)
<1> DEFINE g == ExpireIfDue(o.s.grant, now)
           q == [o EXCEPT !.s.grant = g]
           r == SettleExpiring(q)
<1>1. CASE STALE > 0 /\ SatSub(now, o.s.last_seen) > STALE
  BY <1>1, ParkSpares DEF Ticked
<1>2. CASE ~(STALE > 0 /\ SatSub(now, o.s.last_seen) > STALE)
  <2>1. o \in Outcome /\ o.s.grant \in GrantState /\ GrantSound(o.s.grant)
    BY DEF SoundOutcome, Outcome, Session
  <2>2. /\ g \in GrantState /\ GrantSound(g) /\ g.second = o.s.grant.second
        /\ g.authorized = o.s.grant.authorized /\ Dwindles(o.s.grant, g)
        /\ BudgetOf(g, now).remaining = BudgetOf(o.s.grant, now).remaining
        /\ OwedAt(g, now) <= OwedAt(o.s.grant, now)
    <3> DEFINE k == o.s.grant
               h == ExpireIfDue(k, now)
    <3>1. k \in GrantState /\ GrantSound(k)
      BY <2>1
    <3> HIDE DEF k
    <3>2. /\ h \in GrantState /\ GrantSound(h) /\ h.second = k.second
          /\ h.authorized = k.authorized /\ Dwindles(k, h)
          /\ BudgetOf(h, now).remaining = BudgetOf(k, now).remaining
          /\ OwedAt(h, now) <= OwedAt(k, now)
      BY <3>1, ExpireSound, ExpireDraws, ExpireCosts
    <3> QED BY <3>2 DEF k
  <2>3. Ticked(o) = Refresh(r)
    BY <1>2 DEF Ticked
  <2> HIDE DEF g
  <2>4. SoundOutcome(q) /\ q.s.grant = g /\ q.s.place = "peers" /\ SameTerms(o, q)
    BY <2>1, <2>2, RegrantSound
  <2> HIDE DEF q
  <2>5. Keeps(o, q)
    BY <2>2, <2>4, KeepsDrawn
  <2>6. Spares(o, q, span)
    <3>1. /\ OwedOf(o) \in Nat /\ OwedOf(q) \in Nat /\ HeldOf(o) \in Nat /\ HeldOf(q) \in Nat
      BY <2>4, OwedOfType
    <3>2. HeldOf(o) = HeldOf(q) /\ OwedOf(q) <= OwedOf(o)
      BY <2>2, <2>4 DEF HeldOf, OwedOf
    <3>3. Steady(o.s, span) => Steady(q.s, span)
      BY <2>2, <2>4 DEF Steady, SameTerms
    <3>4. \A paid \in Nat : FundedBy(o, paid) => FundedBy(q, paid)
      BY <2>2, <2>4 DEF FundedBy, SameTerms
    <3> QED BY <3>1, <3>2, <3>3, <3>4 DEF Spares
  <2>7. SoundOutcome(r) /\ Keeps(q, r) /\ Spares(q, r, span) /\ r.s.place = "peers"
    BY <2>4, SettleExpiringSound, DiscardSpares DEF Follows, SameTerms
  <2> HIDE DEF r
  <2>8. Keeps(r, Refresh(r)) /\ Spares(r, Refresh(r), span)
    BY <2>7, RefreshSound, RefreshSpares DEF Follows
  <2>9. Keeps(o, r) /\ Spares(o, r, span)
    BY <2>5, <2>6, <2>7, KeepsOn, SparesOn
  <2> QED BY <2>3, <2>8, <2>9, SparesOn
<1> QED BY <1>1, <1>2

(* A session held costs nothing more. *)
LEMMA HeldOnSpares ==
    ASSUME NEW o, NEW span, SoundOutcome(o), now \in U64, o.s.place = "parked"
    PROVE  Spares(o, HeldOn(o), span)
<1>1. Saved(o) => Even(o)
  BY DEF Saved
<1>2. Spares(o, Gone(Discard(o)), span)
  BY <1>1, GivenUpSpares
<1>3. Spares(o, SettleExpiring(o), span)
  BY DiscardSpares
<1> QED BY <1>2, <1>3 DEF HeldOn

\* What a chain of outcomes has come to when it costs the payer n so far.
CostsOf(o, q, n, span) ==
    /\ SoundOutcome(q) /\ Charged(q) /\ Saved(q) /\ Steady(q.s, span)
    /\ \A paid \in Nat : FundedBy(o, paid) => FundedBy(q, paid)
    /\ OwedOf(q) \in Nat
    /\ HeldOf(o) + OwedOf(q) <= HeldOf(q) + (OwedOf(o) + n)

(* What spares the payer costs it no more. *)
LEMMA CostsOn ==
    ASSUME Accountable, NEW o, SoundOutcome(o), now \in U64, NEW q, NEW r, NEW n \in Nat, NEW span,
           CostsOf(o, q, n, span), SoundOutcome(r), Keeps(q, r), Spares(q, r, span)
    PROVE  CostsOf(o, r, n, span)
<1>1. /\ OwedOf(o) \in Nat /\ HeldOf(o) \in Nat /\ OwedOf(q) \in Nat /\ HeldOf(q) \in Nat
      /\ OwedOf(r) \in Nat /\ HeldOf(r) \in Nat
  BY OwedOfType DEF CostsOf
<1>2. /\ Charged(r) /\ Saved(r) /\ Steady(r.s, span)
      /\ HeldOf(q) + OwedOf(r) <= HeldOf(r) + OwedOf(q)
  BY DEF CostsOf, Keeps, Spares
<1>3. \A paid \in Nat : FundedBy(o, paid) => FundedBy(r, paid)
  BY DEF CostsOf, Spares
<1>4. HeldOf(o) + OwedOf(q) <= HeldOf(q) + (OwedOf(o) + n)
  BY DEF CostsOf
<1> QED BY <1>1, <1>2, <1>3, <1>4 DEF CostsOf

(* A tick costs what the reservation owed, and what moved if it is metered. *)
LEMMA TickCosts ==
    ASSUME Accountable, IInv, NEW p \in Payers, NEW moved \in U64, NEW carried,
           Steady(sess[p], SECOND_MS)
    PROVE  CostsOf(Start(p), TickOutcome(p, moved, carried),
                   IF sess[p].linked THEN moved ELSE 0, SECOND_MS - 1)
<1> DEFINE o    == Start(p)
           read == IF o.s.linked THEN Metered(o, moved, carried) ELSE o
           live == IF InPeers(p) THEN Ticked(read) ELSE o
           n    == IF sess[p].linked THEN moved ELSE 0
           r    == TickOutcome(p, moved, carried)
<1>1. r = IF live.s.place = "parked" THEN HeldOn(live) ELSE live
  BY DEF TickOutcome
<1>2. /\ SoundOutcome(o) /\ now \in U64 /\ o.s = sess[p] /\ Tied(o)
      /\ Charged(o) /\ Saved(o) /\ (InPeers(p) <=> o.s.place = "peers")
  BY StartSound DEF IInv, TypeOK, InPeers
<1>3. n \in Nat /\ moved \in Nat /\ OwedOf(o) \in Nat /\ HeldOf(o) \in Nat
  BY <1>2, OwedOfType, WidthNat
<1> HIDE DEF o
<1>4. CostsOf(o, read, n, SECOND_MS - 1) /\ (InPeers(p) => read.s.place = "peers")
  <2>1. CASE o.s.linked
    <3> DEFINE m == Metered(o, moved, carried)
    <3>1. o.s.place = "peers" /\ n = moved
      BY <1>2, <2>1 DEF Tied
    <3>2. SoundOutcome(m) /\ Keeps(o, m) /\ m.s.place = "peers"
      BY <1>2, <3>1, MeteredSound DEF Follows
    <3>3. /\ OwedOf(m) \in Nat /\ Steady(m.s, SECOND_MS - 1)
          /\ \A paid \in Nat : FundedBy(o, paid) => FundedBy(m, paid)
          /\ HeldOf(o) + OwedOf(m) <= HeldOf(m) + (OwedOf(o) + moved)
      BY <1>2, <2>1, <3>1, MeteredCosts
    <3>4. Charged(m) /\ Saved(m)
      BY <1>2, <3>2 DEF Keeps
    <3>5. read = m
      BY <2>1
    <3> HIDE DEF m, read, n
    <3> QED BY <3>1, <3>2, <3>3, <3>4, <3>5 DEF CostsOf
  <2>2. CASE ~o.s.linked
    <3>1. read = o /\ n = 0
      BY <1>2, <2>2
    <3>2. Steady(o.s, SECOND_MS - 1)
      BY <1>2, <2>2 DEF Steady
    <3> HIDE DEF read, n
    <3> QED BY <1>2, <1>3, <3>1, <3>2 DEF CostsOf
  <2> QED BY <2>1, <2>2
<1> HIDE DEF read, n
<1>5. CostsOf(o, live, n, SECOND_MS - 1)
  <2>1. CASE InPeers(p)
    <3>1. SoundOutcome(read) /\ read.s.place = "peers"
      BY <1>4, <2>1 DEF CostsOf
    <3>2. /\ SoundOutcome(Ticked(read)) /\ Keeps(read, Ticked(read))
          /\ Spares(read, Ticked(read), SECOND_MS - 1)
      BY <1>2, <3>1, TickedSound, TickedSpares DEF Follows
    <3> QED BY <1>2, <1>3, <1>4, <2>1, <3>2, CostsOn
  <2>2. CASE ~InPeers(p)
    <3>1. ~o.s.linked
      BY <1>2, <2>2 DEF Tied
    <3>2. live = read
      BY <2>2, <3>1 DEF read
    <3> QED BY <1>4, <3>2
  <2> QED BY <2>1, <2>2
<1> HIDE DEF live
<1>6. ASSUME live.s.place = "parked"
      PROVE  CostsOf(o, HeldOn(live), n, SECOND_MS - 1)
  <2>1. SoundOutcome(live)
    BY <1>5 DEF CostsOf
  <2>2. /\ SoundOutcome(HeldOn(live)) /\ Keeps(live, HeldOn(live))
        /\ Spares(live, HeldOn(live), SECOND_MS - 1)
    BY <1>2, <1>6, <2>1, HeldOnSound, HeldOnSpares DEF Follows
  <2> QED BY <1>2, <1>3, <1>5, <2>2, CostsOn
<1>7. CostsOf(o, r, n, SECOND_MS - 1)
  BY <1>1, <1>5, <1>6
<1> QED BY <1>7 DEF o, n

(* Failures are counted at no cost. *)
LEMMA UnverifiedSpares ==
    ASSUME NEW o, NEW span, SoundOutcome(o), now \in U64, o.s.place = "peers",
           NEW cs \in SUBSET Channels
    PROVE  Spares(o, Unverified(o, cs), span)
<1> DEFINE g      == RecordFailures(o.s.grant, cs)
           q      == [o EXCEPT !.s.grant = g]
           failed == FailedChannels(o.s.grant, cs)
           r      == Settle(q, failed)
<1>1. o \in Outcome /\ o.s.grant \in GrantState /\ GrantSound(o.s.grant)
  BY DEF SoundOutcome, Outcome, Session
<1>2. g \in GrantState /\ GrantSound(g) /\ g.open = o.s.grant.open /\ Alike(o.s.grant, g)
  <2> DEFINE k == o.s.grant
  <2>1. k \in GrantState /\ GrantSound(k)
    BY <1>1
  <2> HIDE DEF k
  <2>2. \A c : Alike(k, RecordFailures(k, cs))
    BY <2>1, ChannelsAlike
  <2>3. /\ RecordFailures(k, cs) \in GrantState /\ GrantSound(RecordFailures(k, cs))
        /\ RecordFailures(k, cs).open = k.open
    BY <2>1, RecordFailuresSound
  <2> QED BY <2>2, <2>3 DEF k
<1>3. failed \in SUBSET o.s.grant.open
  BY DEF FailedChannels
<1>4. Unverified(o, cs) = Refresh(r)
  BY DEF Unverified
<1> HIDE DEF g, failed
<1>5. SoundOutcome(q) /\ q.s.grant = g /\ q.s.place = "peers" /\ SameTerms(o, q)
  BY <1>1, <1>2, RegrantSound
<1> HIDE DEF q
<1>6. Keeps(o, q) /\ Spares(o, q, span)
  <2>1. SameBudget(o.s.grant, q.s.grant) /\ q.s.grant.reserved = o.s.grant.reserved
    BY <1>2, <1>5, AlikeHolds DEF Alike
  <2> QED BY <1>2, <1>5, <2>1, KeepsSame, SparesAlike DEF SameTerms
<1>7. SoundOutcome(r) /\ Keeps(q, r) /\ Spares(q, r, span) /\ r.s.place = "peers"
  BY <1>2, <1>3, <1>5, SettleSound, SettleSpares DEF Follows, SameTerms
<1> HIDE DEF r
<1>8. Keeps(r, Refresh(r)) /\ Spares(r, Refresh(r), span)
  BY <1>7, RefreshSound, RefreshSpares DEF Follows
<1>9. Keeps(o, r) /\ Spares(o, r, span)
  BY <1>6, <1>7, KeepsOn, SparesOn
<1> QED BY <1>4, <1>8, <1>9, SparesOn

(* A purchase that lasts gives all it bought, less what was owed. *)
LEMMA ApplyGives ==
    ASSUME NEW g \in GrantState, GrantSound(g), NEW available, NEW us \in Updates,
           NEW window \in U64, NEW rate \in U64, now \in U64,
           Verdict(g, available, us, window, rate) = "Accept",
           g.authorized + Increase(g, us) <= U64_MAX, now < SatAdd(now, window),
           NEW h, h = Apply(g, us, window, rate, now)
    PROVE  /\ h.authorized = g.authorized + Increase(g, us)
           /\ BudgetOf(g, now).remaining + Increase(g, us)
                 <= BudgetOf(h, now).remaining + OwedAt(g, now)
<1> DEFINE inc == Increase(g, us)
<1>1. /\ h.deadline >= SatAdd(now, window) /\ h.authorized = SatAdd(g.authorized, inc)
      /\ BudgetOf(g, now).remaining + inc <= Remaining(h) + OwedAt(g, now)
  BY ApplyAdds
<1>2. h \in GrantState
  BY ApplySound
<1>3. inc \in Nat /\ g.authorized \in Nat /\ now \in Nat /\ window \in Nat /\ h.deadline \in Nat
  BY <1>2, IncreaseType, WidthNat DEF GrantState
<1>4. h.authorized = g.authorized + inc
  BY <1>1, <1>3 DEF SatAdd, Least
<1>5. BudgetOf(h, now).remaining = Remaining(h)
  <2>1. SatAdd(now, window) \in Nat
    BY <1>3, SaturationType, WidthNat
  <2>2. now < h.deadline
    BY <1>1, <1>3, <2>1
  <2>3. Remaining(h) \in Nat
    BY <1>2, RemainingType, WidthNat
  <2>4. BudgetOf(h, now).remaining = IF IsLive(h, now) THEN Remaining(h) ELSE 0
    BY <1>2, BudgetOfIs
  <2> QED BY <2>2, <2>3, <2>4 DEF IsLive
<1> QED BY <1>1, <1>4, <1>5

(* A purchase honoured gives the payer all it paid for, less what was owed. *)
LEMMA BoughtCosts ==
    ASSUME NEW o, SoundOutcome(o), now \in U64, o.s.place = "peers",
           NEW available, NEW us \in Updates, NEW window \in U64, NEW rate \in U64,
           Verdict(o.s.grant, available, us, window, rate) = "Accept",
           o.s.grant.authorized + Increase(o.s.grant, us) <= U64_MAX,
           now < SatAdd(now, window), NEW span \in Nat, Steady(o.s, span),
           NEW b, b = Bought(o, us, window, rate)
    PROVE  /\ Steady(b.s, span)
           /\ \A paid \in Nat : FundedBy(o, paid) =>
                 FundedBy(b, paid + Increase(o.s.grant, us))
           /\ HeldOf(o) + Increase(o.s.grant, us) <= HeldOf(b) + OwedOf(o)
<1> DEFINE g    == Apply(o.s.grant, us, window, rate, now)
           inc  == Increase(o.s.grant, us)
           q    == [o EXCEPT !.s.grant = g]
           full == ExhaustedChannels(q.s.grant)
           r    == Settle(q, full)
           done == SaveBudget(r)
           t    == [done EXCEPT !.s.budget_live = IsLive(done.s.grant, now)]
<1>1. o \in Outcome /\ o.s.grant \in GrantState /\ GrantSound(o.s.grant)
  BY DEF SoundOutcome, Outcome, Session
<1>2. /\ g \in GrantState /\ GrantSound(g) /\ g.open = o.s.grant.open
      /\ g.authorized = o.s.grant.authorized + inc
      /\ BudgetOf(o.s.grant, now).remaining + inc
            <= BudgetOf(g, now).remaining + OwedAt(o.s.grant, now)
      /\ g.second \in {o.s.grant.second, SecondStarting(now)}
      /\ inc \in Nat /\ o.s.grant.authorized \in Nat
  <2> DEFINE k == o.s.grant
             h == Apply(k, us, window, rate, now)
  <2>1. /\ k \in GrantState /\ GrantSound(k) /\ Verdict(k, available, us, window, rate) = "Accept"
        /\ k.authorized + Increase(k, us) <= U64_MAX
    BY <1>1
  <2> HIDE DEF k
  <2>2. /\ Apply(k, us, window, rate, now) \in GrantState
        /\ GrantSound(Apply(k, us, window, rate, now))
        /\ Apply(k, us, window, rate, now).open = k.open
        /\ \A c \in Channels : Apply(k, us, window, rate, now).signed[c] =
              IF c \in Named(us) THEN TotalOn(us, c) ELSE k.signed[c]
    BY <2>1, ApplySound
  <2>3. h.second \in {k.second, SecondStarting(now)}
    BY <2>1, ApplySecond
  <2>4. Increase(k, us) \in Nat /\ k.authorized \in Nat
    BY <2>1, IncreaseType, WidthNat DEF GrantState
  <2>5. /\ h.authorized = k.authorized + Increase(k, us)
        /\ BudgetOf(k, now).remaining + Increase(k, us)
              <= BudgetOf(h, now).remaining + OwedAt(k, now)
    <3>1. h = Apply(k, us, window, rate, now)
      OBVIOUS
    <3> HIDE DEF h
    <3> QED BY <2>1, <3>1, ApplyGives
  <2> HIDE DEF h
  <2>6. g = h
    BY DEF h, k
  <2> HIDE DEF g
  <2> QED BY <2>2, <2>3, <2>4, <2>5, <2>6 DEF h, k
<1>3. b = Refresh(t)
  BY DEF Bought
<1> HIDE DEF g, inc
<1>4. SoundOutcome(q) /\ q.s.grant = g /\ q.s.place = "peers" /\ SameTerms(o, q)
  BY <1>1, <1>2, RegrantSound
<1> HIDE DEF q
<1>5. full \in SUBSET q.s.grant.open
  BY <1>4 DEF ExhaustedChannels
<1> HIDE DEF full
<1>6. /\ SoundOutcome(r) /\ Spares(q, r, span) /\ r.s.place = "peers" /\ SameTerms(q, r)
      /\ Alike(g, r.s.grant)
  <2>1. SoundOutcome(r) /\ SameTerms(q, r)
    BY <1>4, <1>5, SettleSound
  <2>2. Alike(q.s.grant, r.s.grant) /\ Spares(q, r, span)
    BY <1>4, <1>5, SettleSpares
  <2> HIDE DEF r
  <2> QED BY <1>4, <2>1, <2>2 DEF SameTerms
<1> HIDE DEF r
<1>7. SoundOutcome(done) /\ done.s = r.s /\ Spares(r, done, span)
  BY <1>6, SaveBudgetSound, SaveBudgetSpares
<1> HIDE DEF done
<1>8. /\ SoundOutcome(t) /\ t.s.grant = done.s.grant /\ t.s.place = done.s.place
      /\ t.s.linked = done.s.linked /\ t.kept = done.kept
  <2> DEFINE live == IsLive(done.s.grant, now)
             u    == [done.s EXCEPT !.budget_live = live]
  <2>1. live \in BOOLEAN
    BY DEF IsLive
  <2>2. t = [done EXCEPT !.s.budget_live = live]
    OBVIOUS
  <2> HIDE DEF live, t
  <2>3. done \in Outcome /\ done.s \in Session
    BY <1>7 DEF SoundOutcome, Outcome
  <2>4. /\ u \in Session /\ u.grant = done.s.grant /\ u.place = done.s.place
        /\ u.linked = done.s.linked
    BY <2>1, <2>3 DEF Session
  <2>5. t = [done EXCEPT !.s = u]
    BY <2>2, <2>3 DEF Outcome
  <2> HIDE DEF u
  <2>6. SoundOutcome(t) /\ t.s = u /\ t.kept = done.kept
    BY <1>7, <2>3, <2>4, <2>5, ResessionSound DEF SoundOutcome
  <2> QED BY <2>4, <2>6
<1> HIDE DEF t
<1>9. /\ SoundOutcome(b) /\ b.s.grant = r.s.grant /\ b.s.place = "peers"
      /\ b.s.linked = o.s.linked /\ Spares(t, b, span)
  BY <1>3, <1>4, <1>6, <1>7, <1>8, RefreshSound, RefreshSpares DEF SameTerms
<1>10. Steady(b.s, span)
  <2>1. b.s.grant.second = g.second /\ now \in Nat
    BY <1>6, <1>9, WidthNat DEF Alike
  <2>2. CASE g.second = o.s.grant.second
    BY <1>9, <2>1, <2>2 DEF Steady
  <2>3. CASE g.second = SecondStarting(now)
    <3>1. ReadBy(g.second, now) /\ Within(g.second, now, span)
      BY <2>1, <2>3 DEF SecondStarting, ReadBy, Within
    <3> QED BY <2>1, <3>1 DEF Steady
  <2> QED BY <1>2, <2>2, <2>3
<1>11. ASSUME NEW paid \in Nat, FundedBy(o, paid)
       PROVE  FundedBy(b, paid + inc)
  <2>1. FundedBy(q, paid + inc)
    <3>1. o.kept.remaining \in Nat
      BY <1>1, WidthNat DEF Outcome, Budget
    <3> QED BY <1>2, <1>4, <1>11, <3>1 DEF FundedBy, SameTerms
  <2>2. paid + inc \in Nat
    BY <1>2
  <2>3. FundedBy(done, paid + inc)
    BY <1>6, <1>7, <2>1, <2>2 DEF Spares
  <2>4. FundedBy(t, paid + inc)
    BY <1>8, <2>3 DEF FundedBy
  <2> QED BY <1>9, <2>2, <2>4 DEF Spares
<1>12. HeldOf(o) + inc <= HeldOf(b) + OwedOf(o)
  <2>1. HeldOf(o) = BudgetOf(o.s.grant, now).remaining /\ OwedOf(o) = OwedAt(o.s.grant, now)
    BY DEF HeldOf, OwedOf
  <2>2. HeldOf(b) = BudgetOf(g, now).remaining
    BY <1>6, <1>9, AlikeHolds DEF HeldOf
  <2> QED BY <1>2, <2>1, <2>2
<1> QED BY <1>10, <1>11, <1>12 DEF inc

(* A session exchanged for one that draws the same. *)
LEMMA ResessionSpares ==
    ASSUME NEW o, NEW span, SoundOutcome(o), now \in U64, NEW t \in Session,
           Alike(o.s.grant, t.grant), t.place = o.s.place, t.linked => o.s.linked,
           NEW q, SoundOutcome(q), q.s = t, q.kept = o.kept
    PROVE  Spares(o, q, span)
BY SparesAlike

(* Hearing from the peer costs nothing, nor does a TopUp checked. *)
LEMMA HeardSpares ==
    ASSUME IInv, NEW p \in Payers, NEW span
    PROVE  /\ Spares(Start(p), Heard(p), span)
           /\ Spares(Start(p), Checked(p), span)
<1>1. /\ SoundOutcome(Start(p)) /\ Start(p).s = sess[p] /\ now \in U64
      /\ sess[p].grant \in GrantState
  BY StartSound DEF IInv, TypeOK, Session
<1>2. /\ SoundOutcome(Heard(p)) /\ SameTerms(Start(p), Heard(p))
      /\ Heard(p).s.grant = sess[p].grant
  BY HeardSound
<1>3. Alike(Start(p).s.grant, Heard(p).s.grant)
  BY <1>1, <1>2 DEF Alike
<1>4. Spares(Start(p), Heard(p), span)
  BY <1>1, <1>2, <1>3, SparesAlike DEF SameTerms
<1>5. SoundOutcome(Checked(p)) /\ SameTerms(Heard(p), Checked(p))
  BY CheckedSound
<1>6. Alike(Heard(p).s.grant, Checked(p).s.grant)
  <2> DEFINE g == [sess[p].grant EXCEPT !.last_topup = now]
  <2>1. Alike(sess[p].grant, g)
    BY <1>1 DEF Alike, GrantState
  <2> HIDE DEF g
  <2>2. Heard(p) \in Outcome /\ Heard(p).s \in Session
    BY <1>2 DEF SoundOutcome, Outcome
  <2>3. Checked(p) = [Heard(p) EXCEPT !.s.grant = g]
    BY <1>2 DEF Checked, g
  <2>4. Checked(p).s.grant = g
    BY <2>2, <2>3 DEF Outcome, Session
  <2> QED BY <1>2, <2>1, <2>4
<1>7. Spares(Heard(p), Checked(p), span)
  BY <1>1, <1>2, <1>5, <1>6, SparesAlike DEF SameTerms
<1>8. Keeps(Start(p), Heard(p)) /\ Keeps(Heard(p), Checked(p))
  <2>1. Keeps(Start(p), Heard(p))
    BY HeardSound DEF Follows
  <2>2. SameBudget(Heard(p).s.grant, Checked(p).s.grant)
    BY <1>6, AlikeHolds
  <2>3. Keeps(Heard(p), Checked(p))
    BY <1>2, <1>5, <1>6, <2>2, KeepsSame DEF SameTerms, Alike
  <2> QED BY <2>1, <2>3
<1> QED BY <1>4, <1>7, <1>8, SparesOn

(* Ending a session costs nothing yet. *)
LEMMA EndedSpares ==
    ASSUME NEW o, NEW span, SoundOutcome(o), now \in U64
    PROVE  Spares(o, Ended(o), span)
<1> DEFINE t == [o.s EXCEPT !.closing = TRUE, !.linked = FALSE]
<1>1. o \in Outcome /\ o.s \in Session
  BY DEF SoundOutcome, Outcome
<1>2. t \in Session /\ t.grant = o.s.grant /\ t.place = o.s.place /\ t.linked = FALSE
  BY <1>1 DEF Session
<1>3. Ended(o) = [o EXCEPT !.s = t]
  BY DEF Ended
<1> HIDE DEF t
<1>4. SoundOutcome(Ended(o)) /\ Ended(o).s = t /\ Ended(o).kept = o.kept
  BY <1>1, <1>2, <1>3, ResessionSound DEF SoundOutcome
<1>5. Alike(o.s.grant, t.grant)
  BY <1>2 DEF Alike
<1> QED BY <1>2, <1>4, <1>5, ResessionSpares

(* A session wound up costs nothing: its budget stays on disk as it stood. *)
LEMMA WoundUpSpares ==
    ASSUME IInv, NEW p \in Payers, NEW span, sess[p].place # "none",
           NEW o, o = Gone(Discard(SaveBudget(Start(p))))
    PROVE  Spares(Start(p), o, span)
<1> DEFINE q == SaveBudget(Start(p))
<1>1. SoundOutcome(Start(p)) /\ now \in U64 /\ Start(p).s = sess[p]
  BY StartSound DEF IInv, TypeOK
<1>2. /\ SoundOutcome(q) /\ Keeps(Start(p), q) /\ q.s = Start(p).s
      /\ Spares(Start(p), q, span) /\ (Charged(Start(p)) => Even(q))
  BY <1>1, SaveBudgetSound, SaveBudgetSpares DEF Follows
<1>3. o = Gone(Discard(q))
  OBVIOUS
<1> HIDE DEF q
<1>4. q.s.place # "none" /\ (Charged(q) /\ Saved(q) => Even(q))
  BY <1>1, <1>2 DEF Charged
<1>5. Spares(q, Gone(Discard(q)), span) /\ Keeps(q, Gone(Discard(q)))
  BY <1>1, <1>2, <1>4, GivenUpSpares, GivenUpSound DEF Follows
<1> QED BY <1>2, <1>3, <1>5, SparesOn

(* A session resumed costs what its reservation owed. *)
LEMMA ResumedSpares ==
    ASSUME IInv, NEW p \in Payers, NEW span, Kept(p)
    PROVE  Spares(Start(p), Resumed(p), span)
<1> DEFINE g == Restart(sess[p].grant, now)
           n == NewSession(overrides[p], g)
           t == [n EXCEPT !.resumed = Buying]
           q == Resumed(p)
<1>1. /\ now \in U64 /\ overrides[p] \in Policies
      /\ sess[p].grant \in GrantState /\ GrantSound(sess[p].grant)
  BY DEF IInv, TypeOK, BudgetSound, Session
<1>2. /\ g \in GrantState /\ g.second = None /\ g.authorized <= sess[p].grant.authorized
      /\ (sess[p].grant.second # None => ReadBy(sess[p].grant.second, now)) =>
            BudgetOf(sess[p].grant, now).remaining
                <= BudgetOf(g, now).remaining + OwedAt(sess[p].grant, now)
      /\ g.authorized \in Nat /\ sess[p].grant.authorized \in Nat
  <2> DEFINE k == sess[p].grant
             h == Restart(k, now)
  <2>1. k \in GrantState /\ GrantSound(k)
    BY <1>1
  <2>2. CASE k.second # None => ReadBy(k.second, now)
    <3> HIDE DEF k
    <3>1. /\ h \in GrantState /\ h.second = None /\ h.authorized <= k.authorized
          /\ BudgetOf(k, now).remaining <= BudgetOf(h, now).remaining + OwedAt(k, now)
      BY <1>1, <2>1, <2>2, RestartSound, RestartCosts
    <3>2. h.authorized \in Nat /\ k.authorized \in Nat
      BY <2>1, <3>1, WidthNat DEF GrantState
    <3> QED BY <3>1, <3>2 DEF k
  <2>3. CASE ~(k.second # None => ReadBy(k.second, now))
    <3> HIDE DEF k
    <3>1. h \in GrantState
      BY <1>1, <2>1, RestartSound
    <3>2. h.authorized \in Nat /\ k.authorized \in Nat
      BY <2>1, <3>1, WidthNat DEF GrantState
    <3>3. h.second = None
      BY NewGrantSound DEF Restart, Restore, GrantState
    <3>4. h.authorized <= k.authorized
      <4>1. /\ Pause(k) \in GrantState /\ GrantSound(Pause(k))
            /\ Pause(k).authorized = k.authorized
        BY <2>1, PauseSound, PauseDraws
      <4>2. BudgetOf(Pause(k), now).remaining <= k.authorized
        BY <1>1, <4>1, BudgetWithin
      <4>3. h.authorized = BudgetOf(Pause(k), now).remaining
        BY <1>1, <2>1, RestartDraws
      <4> QED BY <4>2, <4>3
    <3> QED BY <2>3, <3>1, <3>2, <3>3, <3>4 DEF k
  <2> QED BY <2>2, <2>3
<1>3. q = [Start(p) EXCEPT !.s = t]
  BY DEF Resumed
<1> HIDE DEF g, q
<1>4. n \in Session /\ n.grant = g /\ n.place = "peers"
  BY <1>1, <1>2, NewSessionType
<1> HIDE DEF n
<1>5. t.grant = g /\ t.place = "peers"
  BY <1>4 DEF Session
<1> HIDE DEF t
<1>6. /\ SoundOutcome(Start(p)) /\ Start(p) \in Outcome /\ Start(p).s = sess[p]
      /\ Start(p).kept = disk[p]
  BY StartSound DEF SoundOutcome
<1>7. SoundOutcome(q)
  BY ResumedSound DEF q
<1>8. q.s = t /\ q.kept = disk[p]
  BY <1>3, <1>6 DEF Outcome
<1>9. sess[p].place = "peers" \/ sess[p].place = "parked"
  BY DEF Kept
<1>10. /\ OwedOf(Start(p)) \in Nat /\ OwedOf(q) \in Nat
       /\ HeldOf(Start(p)) \in Nat /\ HeldOf(q) \in Nat
  BY <1>1, <1>6, <1>7, OwedOfType
<1>11. OwedOf(q) = 0 /\ Steady(q.s, span)
  BY <1>2, <1>5, <1>8 DEF OwedOf, OwedAt, Steady
<1>12. Steady(Start(p).s, span) => HeldOf(Start(p)) <= HeldOf(q) + OwedOf(Start(p))
  BY <1>2, <1>5, <1>6, <1>8, <1>9 DEF Steady, HeldOf, OwedOf
<1>13. \A paid \in Nat : FundedBy(Start(p), paid) => FundedBy(q, paid)
  BY <1>2, <1>5, <1>6, <1>8 DEF FundedBy
<1>14. Spares(Start(p), q, span)
  BY <1>10, <1>11, <1>12, <1>13 DEF Spares
<1> QED BY <1>14 DEF q

(* A session from disk holds what was kept of the one before. *)
LEMMA FreshSpares ==
    ASSUME Accountable, IInv, NEW p \in Payers, NEW span,
           ~Kept(p), InPeers(p) /\ sess[p].closing => Overlap
    PROVE  Spares(Start(p), Fresh(p), span)
<1> DEFINE g == Restore(NewGrant, disk[p], now)
           t == NewSession(overrides[p], g)
           q == Fresh(p)
<1>1. now \in U64 /\ overrides[p] \in Policies /\ disk[p] \in Budget /\ sess[p] \in Session
  BY DEF IInv, TypeOK
<1>2. /\ g \in GrantState /\ g.second = None
      /\ BudgetOf(g, now) = BudgetAt(disk[p], now)
      /\ g.authorized = BudgetAt(disk[p], now).remaining
  <2>1. g.second = None
    BY DEF Restore, NewGrant
  <2> QED BY <1>1, <2>1, NewGrantSound, RestoreSound, RestoreHolds
<1>3. q = [Over(p) EXCEPT !.s = t]
  BY DEF Fresh
<1>4. SoundOutcome(q)
  BY FreshSound
<1> HIDE DEF g, q
<1>5. t.grant = g /\ t.place = "peers"
  BY <1>1, <1>2, NewSessionType, ZenonT(30)
<1> HIDE DEF t
<1>6. /\ SoundOutcome(Start(p)) /\ Start(p).s = sess[p] /\ Start(p).kept = disk[p]
      /\ Saved(Start(p))
  BY StartSound
<1>7. sess[p].place = "none" \/ sess[p].place = "parked"
  <2>1. sess[p].place \in Places
    BY <1>1 DEF Session
  <2> QED BY <2>1 DEF Kept, InPeers, Accountable, Places
<1>8. Over(p) \in Outcome /\ Over(p).kept = disk[p]
  BY <1>7, OverSound DEF SoundOutcome, InPeers
<1>9. q.s = t /\ q.kept = disk[p]
  BY <1>3, <1>8 DEF Outcome
<1>10. /\ OwedOf(Start(p)) \in Nat /\ OwedOf(q) \in Nat
       /\ HeldOf(Start(p)) \in Nat /\ HeldOf(q) \in Nat
  BY <1>1, <1>4, <1>6, OwedOfType
<1>11. OwedOf(q) = 0 /\ Steady(q.s, span)
  BY <1>2, <1>5, <1>9 DEF OwedOf, OwedAt, Steady
<1>12. HeldOf(q) = HeldOf(Start(p))
  <2>1. HeldOf(q) = BudgetAt(disk[p], now).remaining
    BY <1>2, <1>5, <1>9 DEF HeldOf
  <2>2. HeldOf(Start(p)) = BudgetAt(disk[p], now).remaining
    BY <1>6, <1>7 DEF HeldOf, Saved, Even
  <2> QED BY <2>1, <2>2
<1>13. \A paid \in Nat : FundedBy(Start(p), paid) => FundedBy(q, paid)
  <2>1. BudgetAt(disk[p], now).remaining = 0 \/ BudgetAt(disk[p], now) = disk[p]
    BY DEF BudgetAt, NoBudget
  <2> QED BY <1>2, <1>5, <1>6, <1>9, <2>1 DEF FundedBy
<1>14. Spares(Start(p), q, span)
  BY <1>10, <1>11, <1>12, <1>13 DEF Spares
<1> QED BY <1>14 DEF q

\* How old the second being drawn may be: the meters are read on every tick of
\* the clock, and reading one starts a new second in time.
Span == IF tickDue THEN SECOND_MS ELSE SECOND_MS - 1

\* No payer holds, or has on disk, more than it has paid, and what is being
\* drawn is drawn in time.
Funded(p) ==
    /\ Steady(sess[p], Span)
    /\ sess[p].grant.authorized <= Paid(p)
    /\ disk[p].remaining <= Paid(p)

Frugal ==
    /\ now <= MAX_NOW
    /\ \A c \in Channels : recorded[c] <= Capacity[c]
    /\ \A p \in Payers : Funded(p)

\* What a step may cost one payer, and every payer: BudgetKept, of one step.
CostsPayer(p) ==
    \/ now' # now /\ Held(p)' = 0
    \/ LET metered == tickDue /\ ~tickDue' /\ sess[p].linked
           moved   == IF metered THEN MAX_MOVED ELSE 0
       IN  Held(p) + Paid(p)' <= Held(p)' + Paid(p) + Owing(p) + moved
CostsLittle == \A p \in Payers : CostsPayer(p)

(* What a handler starts from, as it is priced. *)
LEMMA StartPriced ==
    ASSUME Accountable, IInv, Frugal, NEW p \in Payers
    PROVE  /\ SoundOutcome(Start(p)) /\ now \in U64 /\ Start(p).s = sess[p]
           /\ Charged(Start(p)) /\ Saved(Start(p)) /\ Steady(Start(p).s, Span)
           /\ FundedBy(Start(p), Paid(p)) /\ Paid(p) \in Nat
           /\ HeldOf(Start(p)) = Held(p) /\ HeldOf(Start(p)) \in Nat
           /\ OwedOf(Start(p)) = Owing(p) /\ OwedOf(Start(p)) \in Nat
<1>1. /\ SoundOutcome(Start(p)) /\ now \in U64 /\ Start(p).s = sess[p]
      /\ Start(p).kept = disk[p] /\ Charged(Start(p)) /\ Saved(Start(p))
      /\ HeldOf(Start(p)) = Held(p) /\ HeldOf(Start(p)) \in Nat
  BY StartSound DEF IInv, TypeOK
<1>2. recorded \in [Channels -> U64] /\ Funded(p)
  BY DEF IInv, TypeOK, Frugal
<1>3. Steady(Start(p).s, Span) /\ FundedBy(Start(p), Paid(p))
  BY <1>1, <1>2 DEF Funded, FundedBy
<1>4. OwedOf(Start(p)) = Owing(p)
  BY <1>1 DEF OwedOf, OwedAt, Owing
<1>5. OwedOf(Start(p)) \in Nat
  BY <1>1, OwedOfType
<1> QED BY <1>1, <1>2, <1>3, <1>4, <1>5, PaidType

(* An outcome that costs its payer little enough, once it is in place. *)
LEMMA PricedStep ==
    ASSUME Accountable, IInv, Frugal, NEW p \in Payers, NEW o, SoundOutcome(o),
           UNCHANGED <<now, recorded>>, sess'[p] = o.s, disk'[p] = o.kept,
           NEW span, Span' = span, Steady(o.s, span), FundedBy(o, Paid(p)),
           NEW n \in Nat,
           n <= (IF tickDue /\ ~tickDue' /\ sess[p].linked THEN MAX_MOVED ELSE 0),
           HeldOf(Start(p)) <= HeldOf(o) + (OwedOf(Start(p)) + n)
    PROVE  Funded(p)' /\ CostsPayer(p)
<1>1. /\ Paid(p) \in Nat /\ HeldOf(Start(p)) = Held(p) /\ HeldOf(Start(p)) \in Nat
      /\ OwedOf(Start(p)) = Owing(p) /\ OwedOf(Start(p)) \in Nat /\ HeldOf(o) \in Nat
  BY StartPriced, HeldType
<1>2. Paid(p)' = Paid(p)
  BY DEF Paid
<1>3. Held(p)' = HeldOf(o)
  BY DEF Held, HeldOf
<1>4. Steady(sess[p], Span)'
  BY DEF Steady
<1>5. Funded(p)'
  BY <1>2, <1>4 DEF Funded, FundedBy
<1>6. MAX_MOVED \in Nat
  BY ProviderAssumption, WidthNat
<1> DEFINE moved == IF tickDue /\ ~tickDue' /\ sess[p].linked THEN MAX_MOVED ELSE 0
<1>7. moved \in Nat /\ n <= moved
  BY <1>6
<1>8. CostsPayer(p) <=> \/ now' # now /\ Held(p)' = 0
                        \/ Held(p) + Paid(p)' <= Held(p)' + Paid(p) + Owing(p) + moved
  BY DEF CostsPayer
<1> HIDE DEF moved
<1>9. Held(p) + Paid(p)' <= Held(p)' + Paid(p) + Owing(p) + moved
  BY <1>1, <1>2, <1>3, <1>7
<1> QED BY <1>5, <1>8, <1>9

(* Outcomes that spare every payer. *)
LEMMA SparedStep ==
    ASSUME Accountable, IInv, Frugal, UNCHANGED <<now, tickDue, recorded>>, NEW os,
           \A p \in Payers : /\ SoundOutcome(os[p]) /\ Spares(Start(p), os[p], Span)
                             /\ sess'[p] = os[p].s /\ disk'[p] = os[p].kept
    PROVE  Frugal' /\ CostsLittle
<1>1. ASSUME NEW p \in Payers
      PROVE  Funded(p)' /\ CostsPayer(p)
  <2> DEFINE o == os[p]
             span == Span
             owed == OwedOf(Start(p))
  <2>1. /\ SoundOutcome(o) /\ Spares(Start(p), o, span) /\ sess'[p] = o.s /\ disk'[p] = o.kept
    OBVIOUS
  <2>2. Span' = span
    BY DEF Span
  <2> HIDE DEF o, span
  <2>3. /\ Charged(Start(p)) /\ Saved(Start(p)) /\ Steady(Start(p).s, span)
        /\ FundedBy(Start(p), Paid(p)) /\ Paid(p) \in Nat
        /\ HeldOf(Start(p)) \in Nat /\ OwedOf(Start(p)) \in Nat
    BY StartPriced DEF span
  <2>4. /\ Steady(o.s, span) /\ FundedBy(o, Paid(p)) /\ OwedOf(o) \in Nat
        /\ HeldOf(Start(p)) + OwedOf(o) <= HeldOf(o) + OwedOf(Start(p))
    BY <2>1, <2>3 DEF Spares
  <2>5. HeldOf(o) \in Nat
    BY <2>1, HeldType
  <2>6. HeldOf(Start(p)) <= HeldOf(o) + (owed + 0)
    BY <2>3, <2>4, <2>5
  <2>7. 0 \in Nat /\ 0 <= (IF tickDue /\ ~tickDue' /\ sess[p].linked THEN MAX_MOVED ELSE 0)
    BY ProviderAssumption, WidthNat
  <2> QED BY <2>1, <2>2, <2>4, <2>6, <2>7, PricedStep
<1>2. now' <= MAX_NOW /\ \A c \in Channels : recorded'[c] <= Capacity[c]
  BY DEF Frugal
<1> QED BY <1>1, <1>2 DEF Frugal, CostsLittle

(* A handler that spares its payer, and touches no other. *)
LEMMA HandlerSpares ==
    ASSUME Accountable, IInv, Frugal, UNCHANGED <<now, tickDue, recorded>>,
           NEW p \in Payers, NEW o, SoundOutcome(o), Spares(Start(p), o, Span), Commit(p, o)
    PROVE  Frugal' /\ CostsLittle
<1> DEFINE os == [q \in Payers |-> IF q = p THEN o ELSE Start(q)]
<1>1. sess \in [Payers -> Session] /\ disk \in [Payers -> Budget]
  BY DEF IInv, TypeOK
<1>2. ASSUME NEW q \in Payers
      PROVE  /\ SoundOutcome(os[q]) /\ Spares(Start(q), os[q], Span)
             /\ sess'[q] = os[q].s /\ disk'[q] = os[q].kept
  <2>1. CASE q = p
    BY <1>1, <2>1 DEF Commit
  <2>2. CASE q # p
    <3>1. SoundOutcome(Start(q)) /\ now \in U64
      BY StartPriced
    <3>2. Spares(Start(q), Start(q), Span)
      BY <3>1, SparesNothing
    <3> QED BY <1>1, <2>2, <3>1, <3>2 DEF Commit, Start
  <2> QED BY <2>1, <2>2
<1> HIDE DEF os
<1> QED BY <1>2, SparedStep

(* A change to a session that leaves its budget and place alone. *)
LEMMA TouchedSpares ==
    ASSUME IInv, NEW p \in Payers, NEW t \in Session, NEW span,
           t.grant = sess[p].grant, t.place = sess[p].place, t.linked => sess[p].linked,
           NEW q, SoundOutcome(q), q.s = t, q.kept = Start(p).kept
    PROVE  Spares(Start(p), q, span)
<1>1. SoundOutcome(Start(p)) /\ now \in U64 /\ Start(p).s = sess[p]
  BY StartSound DEF IInv, TypeOK
<1>2. Alike(Start(p).s.grant, t.grant)
  BY <1>1 DEF Alike
<1> QED BY <1>1, <1>2, ResessionSpares

(* What is refreshed in the end costs no more for it. *)
LEMMA RefreshedSpares ==
    ASSUME now \in U64, NEW o, NEW q, NEW span, SoundOutcome(q), q.s.place # "none",
           Follows(o, q), Spares(o, q, span)
    PROVE  SoundOutcome(Refresh(q)) /\ Spares(o, Refresh(q), span)
<1>1. SoundOutcome(Refresh(q)) /\ Keeps(q, Refresh(q)) /\ Spares(q, Refresh(q), span)
  BY RefreshSound, RefreshSpares DEF Follows
<1> QED BY <1>1, SparesOn DEF Follows

(* Whoever is back is in `peers`. *)
LEMMA BackInPeers ==
    ASSUME IInv, NEW p \in Payers
    PROVE  Resumed(p).s.place = "peers" /\ Fresh(p).s.place = "peers"
<1>1. \A policy, g : NewSession(policy, g).place = "peers"
  BY DEF NewSession, NoSession
<1>2. \A policy, g : [NewSession(policy, g) EXCEPT !.resumed = Buying].place = "peers"
  BY DEF NewSession, NoSession
<1>3. Over(p) \in Outcome
  BY OverSound DEF SoundOutcome
<1>4. Fresh(p).s.place = "peers"
  BY <1>1, <1>3 DEF Fresh, Outcome
<1>5. Resumed(p).s.place = "peers"
  BY <1>2 DEF Resumed, Start
<1> QED BY <1>4, <1>5

(* Coming back costs nothing: what was left is restarted or read from disk. *)
LEMMA PeerUpCosts ==
    ASSUME Accountable, IInv, Frugal, NEW p \in Payers, PeerUp(p)
    PROVE  Frugal' /\ CostsLittle
<1> DEFINE started == IF Kept(p) THEN SettleExpiring(Resumed(p)) ELSE Fresh(p)
           live    == overrides[p] # "no_charge" /\ IsLive(started.s.grant, now)
           t       == [started.s EXCEPT !.budget_live = live]
           told    == [started EXCEPT !.s = t]
<1>1. now \in U64
  BY DEF IInv, TypeOK
<1>2. /\ SoundOutcome(started) /\ Follows(Start(p), started)
      /\ Spares(Start(p), started, Span) /\ started.s.place = "peers"
  <2>1. CASE Kept(p)
    <3> DEFINE r == Resumed(p)
               q == SettleExpiring(r)
    <3>1. SoundOutcome(r) /\ Follows(Start(p), r) /\ Spares(Start(p), r, Span)
      BY <2>1, ResumedSound, ResumedSpares
    <3>2. r.s.place = "peers"
      BY <2>1, BackInPeers
    <3> HIDE DEF r
    <3>3. /\ SoundOutcome(q) /\ Follows(r, q) /\ SameTerms(r, q) /\ Spares(r, q, Span)
      BY <1>1, <3>1, SettleExpiringSound, DiscardSpares
    <3>4. q.s.place = "peers"
      BY <3>2, <3>3 DEF SameTerms
    <3> HIDE DEF q
    <3>5. Follows(Start(p), q) /\ Spares(Start(p), q, Span)
      BY <3>1, <3>3, FollowsOn, SparesOn DEF Follows
    <3> QED BY <2>1, <3>3, <3>4, <3>5 DEF q, r
  <2>2. CASE ~Kept(p)
    <3>1. InPeers(p) /\ sess[p].closing => Overlap
      BY DEF PeerUp
    <3>2. SoundOutcome(Fresh(p)) /\ Follows(Start(p), Fresh(p)) /\ Spares(Start(p), Fresh(p), Span)
      BY <2>2, <3>1, FreshSound, FreshSpares
    <3>3. Fresh(p).s.place = "peers"
      BY BackInPeers
    <3> QED BY <2>2, <3>2, <3>3
  <2> QED BY <2>1, <2>2
<1>3. live \in BOOLEAN
  BY DEF IsLive
<1>4. /\ Commit(p, Refresh([started EXCEPT !.s.budget_live = live]))
      /\ UNCHANGED <<now, tickDue, recorded>>
  BY DEF PeerUp
<1> HIDE DEF started, live
<1>5. started \in Outcome /\ started.s \in Session
  BY <1>2 DEF SoundOutcome, Outcome
<1>6. /\ t \in Session /\ t.grant = started.s.grant /\ t.place = started.s.place
      /\ t.linked = started.s.linked /\ t.closing = started.s.closing
      /\ t.policy = started.s.policy
  BY <1>3, <1>5 DEF Session
<1>7. told = [started EXCEPT !.s.budget_live = live]
  BY <1>5 DEF Outcome
<1> HIDE DEF t
<1>8. SoundOutcome(told) /\ told.s = t /\ told.settle = started.settle /\ told.kept = started.kept
  BY <1>2, <1>5, <1>6, ResessionSound DEF SoundOutcome
<1> HIDE DEF told
<1>9. Follows(started, told) /\ Spares(started, told, Span)
  <2>1. Alike(started.s.grant, t.grant)
    BY <1>6 DEF Alike
  <2> QED BY <1>1, <1>2, <1>6, <1>8, <2>1, FollowsSame, ResessionSpares
<1>10. Follows(Start(p), told) /\ Spares(Start(p), told, Span) /\ told.s.place # "none"
  BY <1>2, <1>6, <1>8, <1>9, FollowsOn, SparesOn DEF Follows
<1>11. SoundOutcome(Refresh(told)) /\ Spares(Start(p), Refresh(told), Span)
  BY <1>1, <1>8, <1>10, RefreshedSpares
<1>12. Commit(p, Refresh(told))
  BY <1>4, <1>7
<1> QED BY <1>4, <1>11, <1>12, HandlerSpares

(* Nor does being turned away, or losing the link. *)
LEMMA PeerUpBlockedCosts ==
    ASSUME Accountable, IInv, Frugal, NEW p \in Payers, PeerUpBlocked(p)
    PROVE  Frugal' /\ CostsLittle
<1> DEFINE t == [sess[p] EXCEPT !.linked = FALSE]
           q == [Start(p) EXCEPT !.s = t]
<1>1. sess[p] \in Session /\ Start(p) \in Outcome
  BY StartSound DEF IInv, TypeOK, SoundOutcome
<1>2. /\ t \in Session /\ t.grant = sess[p].grant /\ t.place = sess[p].place
      /\ t.linked = FALSE /\ t.closing = sess[p].closing /\ t.policy = sess[p].policy
  BY <1>1 DEF Session
<1>3. Commit(p, q) /\ UNCHANGED <<now, tickDue, recorded>>
  BY DEF PeerUpBlocked
<1> HIDE DEF t
<1>4. SoundOutcome(q) /\ q.s = t /\ q.kept = Start(p).kept
  BY <1>1, <1>2, TouchedSound DEF Outcome
<1> HIDE DEF q
<1>5. Spares(Start(p), q, Span)
  BY <1>2, <1>4, TouchedSpares
<1> QED BY <1>3, <1>4, <1>5, HandlerSpares

LEMMA PeerDownCosts ==
    ASSUME Accountable, IInv, Frugal, NEW p \in Payers, PeerDown(p)
    PROVE  Frugal' /\ CostsLittle
<1> DEFINE w == Gone(Discard(SaveBudget(Start(p))))
           o == IF sess[p].closing THEN w ELSE Park(Start(p))
<1>1. SoundOutcome(Start(p)) /\ now \in U64 /\ Start(p).s.place = "peers" /\ sess[p].place = "peers"
  BY StartSound DEF IInv, TypeOK, PeerDown, InPeers
<1>2. SoundOutcome(w) /\ Spares(Start(p), w, Span)
  BY <1>1, WoundUpSound, WoundUpSpares
<1>3. SoundOutcome(Park(Start(p))) /\ Spares(Start(p), Park(Start(p)), Span)
  BY <1>1, ParkSound, ParkSpares
<1>4. Commit(p, o) /\ UNCHANGED <<now, tickDue, recorded>>
  BY DEF PeerDown
<1> HIDE DEF w
<1>5. SoundOutcome(o) /\ Spares(Start(p), o, Span)
  BY <1>2, <1>3
<1> HIDE DEF o
<1> QED BY <1>4, <1>5, HandlerSpares

(* Messages that show the peer is there, end the session or settle channels, *)
(* and a channel of ours funded.                                            *)
LEMMA HeardCosts ==
    ASSUME Accountable, IInv, Frugal, NEW p \in Payers,
           \/ RecvDisconnect(p) \/ RecvOther(p) \/ OutgoingFunded(p) \/ RecvEmptyAccept(p)
           \/ \E c \in Channels : RecvAccept(p, c) \/ RecvRolloverInit(p, c)
    PROVE  Frugal' /\ CostsLittle
<1> DEFINE h == Heard(p)
           d == Discard(h)
<1>1. /\ SoundOutcome(Start(p)) /\ now \in U64 /\ Follows(Start(p), Start(p))
      /\ Start(p).s = sess[p] /\ Spares(Start(p), Start(p), Span) /\ InPeers(p)
  BY StartSound, FollowsNothing, SparesNothing DEF IInv, TypeOK, RecvDisconnect, RecvOther,
     OutgoingFunded, RecvEmptyAccept, RecvAccept, RecvRolloverInit
<1>2. /\ SoundOutcome(h) /\ Follows(Start(p), h) /\ Spares(Start(p), h, Span)
      /\ h.s.place = "peers"
  BY <1>1, HeardSound, HeardSpares DEF InPeers
<1>3. UNCHANGED <<now, tickDue, recorded>>
  BY DEF RecvDisconnect, RecvOther, OutgoingFunded, RecvEmptyAccept, RecvAccept, RecvRolloverInit
<1>4. \/ Commit(p, Ended(h)) \/ Commit(p, h) \/ Commit(p, Refresh(Start(p)))
      \/ Commit(p, Refresh(d)) \/ Commit(p, d)
  BY DEF RecvDisconnect, RecvOther, OutgoingFunded, RecvEmptyAccept, RecvAccept, RecvRolloverInit
<1> HIDE DEF h
<1>5. SoundOutcome(Ended(h)) /\ Spares(Start(p), Ended(h), Span)
  <2>1. SoundOutcome(Ended(h)) /\ Keeps(h, Ended(h)) /\ Spares(h, Ended(h), Span)
    BY <1>1, <1>2, EndedSound, EndedSpares DEF Follows
  <2> QED BY <1>2, <2>1, SparesOn DEF Follows
<1>6. SoundOutcome(d) /\ Spares(Start(p), d, Span) /\ Follows(Start(p), d) /\ d.s.place = "peers"
  <2>1. SoundOutcome(d) /\ Follows(h, d) /\ SameTerms(h, d) /\ Spares(h, d, Span)
    BY <1>1, <1>2, DiscardSound, DiscardSpares
  <2>2. d.s.place = "peers"
    BY <1>2, <2>1 DEF SameTerms
  <2> HIDE DEF d
  <2>3. Follows(Start(p), d) /\ Spares(Start(p), d, Span)
    BY <1>2, <2>1, FollowsOn, SparesOn DEF Follows
  <2> QED BY <2>1, <2>2, <2>3
<1> HIDE DEF d
<1>7. SoundOutcome(Refresh(d)) /\ Spares(Start(p), Refresh(d), Span)
  BY <1>1, <1>6, RefreshedSpares
<1>8. SoundOutcome(Refresh(Start(p))) /\ Spares(Start(p), Refresh(Start(p)), Span)
  BY <1>1, RefreshedSpares DEF InPeers
<1>9. \E o : SoundOutcome(o) /\ Spares(Start(p), o, Span) /\ Commit(p, o)
  BY <1>2, <1>4, <1>5, <1>6, <1>7, <1>8
<1> QED BY <1>3, <1>9, HandlerSpares

(* An Offer ends a session's closing at most. *)
LEMMA RecvOfferCosts ==
    ASSUME Accountable, IInv, Frugal, NEW p \in Payers, RecvOffer(p)
    PROVE  Frugal' /\ CostsLittle
<1>1. /\ SoundOutcome(Heard(p)) /\ Follows(Start(p), Heard(p)) /\ now \in U64
      /\ Heard(p) \in Outcome /\ Heard(p).s \in Session /\ Spares(Start(p), Heard(p), Span)
      /\ Heard(p).s.place = "peers"
  BY HeardSound, HeardSpares DEF IInv, TypeOK, SoundOutcome, Outcome, RecvOffer, InPeers
<1>2. PICK affirmed \in {FALSE, sess[p].resumed} : Commit(p, Opened(Heard(p), affirmed))
  BY DEF RecvOffer
<1>3. affirmed \in BOOLEAN
  BY DEF IInv, TypeOK, Session
<1> DEFINE h == Heard(p)
           s == h.s
           t == [s EXCEPT !.resumed = FALSE, !.closing = @ /\ ~affirmed]
           q == [h EXCEPT !.s = t]
<1>4. Opened(h, affirmed) = Refresh(q)
  BY DEF Opened
<1>5. /\ t \in Session /\ t.grant = s.grant /\ t.place = s.place
      /\ t.linked = s.linked /\ t.policy = s.policy /\ (~s.closing => ~t.closing)
  BY <1>1, <1>3 DEF Session
<1> HIDE DEF t
<1>6. SoundOutcome(q) /\ q.s = t /\ q.settle = h.settle /\ q.kept = h.kept
  BY <1>1, <1>5, ResessionSound DEF SoundOutcome
<1> HIDE DEF q, h
<1>7. Follows(h, q) /\ Spares(h, q, Span)
  <2>1. Alike(h.s.grant, t.grant) /\ SoundOutcome(h)
    BY <1>1, <1>5 DEF Alike, h
  <2> QED BY <1>1, <1>5, <1>6, <2>1, FollowsSame, ResessionSpares
<1>8. Follows(Start(p), q) /\ Spares(Start(p), q, Span) /\ q.s.place = "peers"
  <2>1. Follows(Start(p), h) /\ Spares(Start(p), h, Span) /\ s.place = "peers"
    BY <1>1 DEF h
  <2> QED BY <1>5, <1>6, <1>7, <2>1, FollowsOn, SparesOn DEF Follows
<1>9. SoundOutcome(Refresh(q)) /\ Spares(Start(p), Refresh(q), Span)
  BY <1>1, <1>6, <1>8, RefreshedSpares
<1>10. UNCHANGED <<now, tickDue, recorded>> /\ Commit(p, Refresh(q))
  BY <1>2, <1>4 DEF RecvOffer, h
<1> QED BY <1>9, <1>10, HandlerSpares

(* Nor does a peer lose anything by an override. *)
LEMMA SetPeerPolicyCosts ==
    ASSUME Accountable, IInv, Frugal, NEW p \in Payers, NEW policy \in Overrides,
           SetPeerPolicy(p, policy)
    PROVE  Frugal' /\ CostsLittle
<1> DEFINE t == [sess[p] EXCEPT !.policy = policy]
           q == [Start(p) EXCEPT !.s = t]
           o == IF ~InPeers(p) THEN Start(p) ELSE IF q.s.closing THEN q ELSE Refresh(q)
<1>1. /\ sess[p] \in Session /\ now \in U64 /\ policy \in Policies /\ Start(p) \in Outcome
      /\ SoundOutcome(Start(p)) /\ Spares(Start(p), Start(p), Span)
  BY ProviderAssumption, StartSound, SparesNothing DEF IInv, TypeOK, Policies, SoundOutcome
<1>2. /\ t \in Session /\ t.grant = sess[p].grant /\ t.place = sess[p].place
      /\ t.linked = sess[p].linked /\ t.closing = sess[p].closing /\ t.policy = policy
  BY <1>1 DEF Session
<1>3. Commit(p, o) /\ UNCHANGED <<now, tickDue, recorded>>
  BY DEF SetPeerPolicy
<1>4. Accountable => policy # "no_charge"
  BY DEF Accountable
<1> HIDE DEF t
<1>5. SoundOutcome(q) /\ Follows(Start(p), q) /\ q.s = t /\ q.kept = Start(p).kept
  BY <1>1, <1>2, <1>4, TouchedSound DEF Outcome
<1> HIDE DEF q
<1>6. Spares(Start(p), q, Span)
  BY <1>2, <1>5, TouchedSpares
<1>7. InPeers(p) => SoundOutcome(Refresh(q)) /\ Spares(Start(p), Refresh(q), Span)
  BY <1>1, <1>2, <1>5, <1>6, RefreshedSpares DEF InPeers
<1>8. SoundOutcome(o) /\ Spares(Start(p), o, Span)
  BY <1>1, <1>5, <1>6, <1>7
<1> HIDE DEF o
<1> QED BY <1>3, <1>8, HandlerSpares

(* A channel is recognised at no cost, or its session ended. *)
LEMMA FundingCosts ==
    ASSUME Accountable, IInv, Frugal, NEW p \in Payers, NEW c \in Channels,
           FundingVerified(p, c) \/ FundingRejected(p, c)
    PROVE  Frugal' /\ CostsLittle
<1> DEFINE g == OpenChannel(sess[p].grant, c)
           t == [sess[p] EXCEPT !.grant = g, !.closing = FALSE]
           q == [Start(p) EXCEPT !.s = t]
<1>1. /\ sess[p] \in Session /\ sess[p].grant \in GrantState /\ now \in U64
      /\ GrantSound(sess[p].grant) /\ c \in verifying /\ verifying \subseteq announced
      /\ sess[p].grant.open \subseteq announced \ verifying
  BY DEF IInv, TypeOK, BudgetSound, Session, PaidAfterVerified, FundingVerified, FundingRejected
<1>2. /\ SoundOutcome(Start(p)) /\ Start(p) \in Outcome /\ Start(p).s = sess[p]
      /\ Spares(Start(p), Start(p), Span)
  BY <1>1, StartSound, SparesNothing DEF SoundOutcome
<1>3. UNCHANGED <<now, tickDue, recorded>>
  BY DEF FundingVerified, FundingRejected
<1>4. SoundOutcome(Ended(Start(p))) /\ Spares(Start(p), Ended(Start(p)), Span)
  BY <1>1, <1>2, EndedSound, EndedSpares
<1>5. /\ g \in GrantState /\ GrantSound(g) /\ Alike(sess[p].grant, g)
      /\ g.reserved = sess[p].grant.reserved /\ SameBudget(sess[p].grant, g)
  <2> DEFINE k == sess[p].grant
  <2>1. k \in GrantState /\ GrantSound(k) /\ c \notin k.open
    BY <1>1
  <2> HIDE DEF k
  <2>2. {} \in SUBSET Channels
    OBVIOUS
  <2>3. Alike(k, OpenChannel(k, c))
    BY <2>1, ChannelsAlike
  <2>4. /\ OpenChannel(k, c) \in GrantState /\ GrantSound(OpenChannel(k, c))
        /\ OpenChannel(k, c).reserved = k.reserved
    BY <2>1, OpenChannelSound
  <2>5. SameBudget(k, OpenChannel(k, c))
    BY <2>1, <2>2, ChannelsApart
  <2> QED BY <2>3, <2>4, <2>5 DEF k
<1>6. Verified(Start(p), c) = Refresh(q)
  BY <1>2 DEF Verified
<1> HIDE DEF g
<1>7. InPeers(p) => SoundOutcome(Refresh(q)) /\ Spares(Start(p), Refresh(q), Span)
  <2> SUFFICES ASSUME InPeers(p)
               PROVE  SoundOutcome(Refresh(q)) /\ Spares(Start(p), Refresh(q), Span)
    OBVIOUS
  <2>1. /\ t \in Session /\ t.grant = g /\ t.place = "peers" /\ t.closing = FALSE
        /\ t.linked = sess[p].linked /\ t.policy = sess[p].policy
    BY <1>1, <1>5 DEF Session, InPeers
  <2> HIDE DEF t
  <2>2. SoundOutcome(q) /\ q.s = t /\ q.kept = Start(p).kept
    BY <1>2, <1>5, <2>1, ResessionSound
  <2> HIDE DEF q
  <2>3. Start(p).s.place = "peers"
    BY <1>2 DEF InPeers
  <2>4. Spares(Start(p), q, Span)
    BY <1>1, <1>2, <1>5, <2>1, <2>2, <2>3, ResessionSpares
  <2>5. Keeps(Start(p), q)
    BY <1>2, <1>5, <2>1, <2>2, <2>3, KeepsSame
  <2>6. SoundOutcome(Refresh(q)) /\ Keeps(q, Refresh(q)) /\ Spares(q, Refresh(q), Span)
    BY <1>1, <2>1, <2>2, RefreshSound, RefreshSpares DEF Follows
  <2> QED BY <2>4, <2>5, <2>6, SparesOn
<1> HIDE DEF q
<1>8. \/ InPeers(p) /\ Commit(p, Refresh(q))
      \/ Commit(p, Ended(Start(p)))
      \/ Commit(p, Start(p))
  BY <1>6 DEF FundingVerified, FundingRejected
<1>9. \E o : SoundOutcome(o) /\ Spares(Start(p), o, Span) /\ Commit(p, o)
  BY <1>2, <1>4, <1>7, <1>8
<1> QED BY <1>3, <1>9, HandlerSpares

(* A purchase refused, or badly signed, costs no more than what it settles: *)
(* nothing.                                                                 *)
LEMMA RefusedCosts ==
    ASSUME Accountable, IInv, Frugal, NEW p \in Payers, InPeers(p),
           UNCHANGED <<now, tickDue, recorded>>,
           \/ \E cs \in SUBSET Channels : Commit(p, Unverified(Checked(p), cs))
           \/ Commit(p, Refresh(Checked(p)))
    PROVE  Frugal' /\ CostsLittle
<1> DEFINE o == Checked(p)
<1>1. /\ SoundOutcome(o) /\ Follows(Start(p), o) /\ Spares(Start(p), o, Span)
      /\ o.s.place = "peers" /\ now \in U64
  BY CheckedSound, HeardSpares DEF IInv, TypeOK, InPeers
<1>2. \/ \E cs \in SUBSET Channels : Commit(p, Unverified(o, cs))
      \/ Commit(p, Refresh(o))
  OBVIOUS
<1> HIDE DEF o
<1>3. ASSUME NEW cs \in SUBSET Channels
      PROVE  SoundOutcome(Unverified(o, cs)) /\ Spares(Start(p), Unverified(o, cs), Span)
  <2>1. /\ SoundOutcome(Unverified(o, cs)) /\ Keeps(o, Unverified(o, cs))
        /\ Spares(o, Unverified(o, cs), Span)
    BY <1>1, UnverifiedSound, UnverifiedSpares DEF Follows
  <2> QED BY <1>1, <2>1, SparesOn DEF Follows
<1>4. SoundOutcome(Refresh(o)) /\ Spares(Start(p), Refresh(o), Span)
  BY <1>1, RefreshedSpares
<1>5. \E q : SoundOutcome(q) /\ Spares(Start(p), q, Span) /\ Commit(p, q)
  BY <1>2, <1>3, <1>4
<1> QED BY <1>5, HandlerSpares

LEMMA RecvBadSignatureCosts ==
    ASSUME Accountable, IInv, Frugal, NEW p \in Payers, NEW c \in Channels,
           RecvBadSignature(p, c)
    PROVE  Frugal' /\ CostsLittle
<1>1. /\ InPeers(p) /\ UNCHANGED <<now, tickDue, recorded>>
      /\ Commit(p, Unverified(Checked(p), {c})) /\ {c} \in SUBSET Channels
  BY DEF RecvBadSignature
<1>2. \E cs \in SUBSET Channels : Commit(p, Unverified(Checked(p), cs))
  BY <1>1
<1> QED BY <1>1, <1>2, RefusedCosts

(* A close asked for by the peer settles, and costs nothing. *)
LEMMA RecvChannelCloseCosts ==
    ASSUME Accountable, IInv, Frugal, NEW p \in Payers, NEW c \in Channels,
           RecvChannelClose(p, c)
    PROVE  Frugal' /\ CostsLittle
<1> DEFINE o == [Heard(p) EXCEPT !.settle = {c}]
<1>1. SoundOutcome(Heard(p)) /\ Spares(Start(p), Heard(p), Span)
  BY HeardSound, HeardSpares
<1>2. o \in Outcome /\ o.s = Heard(p).s /\ o.kept = Heard(p).kept
  BY <1>1 DEF SoundOutcome, Outcome
<1>3. Commit(p, o) /\ UNCHANGED <<now, tickDue, recorded>>
  BY DEF RecvChannelClose
<1> HIDE DEF o
<1>4. SoundOutcome(o)
  BY <1>1, <1>2 DEF SoundOutcome
<1>5. /\ OwedOf(o) = OwedOf(Heard(p)) /\ HeldOf(o) = HeldOf(Heard(p))
      /\ \A paid : FundedBy(o, paid) <=> FundedBy(Heard(p), paid)
  BY <1>2 DEF OwedOf, HeldOf, FundedBy
<1>6. Spares(Start(p), o, Span)
  BY <1>1, <1>2, <1>5 DEF Spares
<1> QED BY <1>3, <1>4, <1>6, HandlerSpares

(* A tick costs what the reservation owed, and what moved. *)
LEMMA TickStepCosts ==
    ASSUME Accountable, IInv, Frugal, Tick
    PROVE  Frugal' /\ CostsLittle
<1>1. PICK moved \in [Payers -> 0 .. MAX_MOVED], carried \in [Payers -> BOOLEAN] :
        CommitAll([p \in Payers |-> TickOutcome(p, moved[p], carried[p])])
  BY DEF Tick
<1>2. UNCHANGED <<now, recorded>> /\ tickDue /\ tickDue' = FALSE
  BY DEF Tick
<1> DEFINE os == [p \in Payers |-> TickOutcome(p, moved[p], carried[p])]
<1>3. ASSUME NEW p \in Payers
      PROVE  Funded(p)' /\ CostsPayer(p)
  <2> DEFINE o == TickOutcome(p, moved[p], carried[p])
             n == IF sess[p].linked THEN moved[p] ELSE 0
             span == SECOND_MS - 1
  <2>1. /\ MAX_MOVED \in Nat /\ moved[p] \in 0 .. MAX_MOVED /\ moved[p] \in U64
        /\ n \in Nat
    BY ProviderAssumption, WidthAssumption DEF U64
  <2>2. n <= (IF tickDue /\ ~tickDue' /\ sess[p].linked THEN MAX_MOVED ELSE 0)
    BY <1>2, <2>1
  <2>3. Steady(sess[p], SECOND_MS)
    BY <1>2 DEF Frugal, Funded, Span
  <2>4. CostsOf(Start(p), o, n, span)
    BY <2>1, <2>3, TickCosts
  <2>5. sess'[p] = o.s /\ disk'[p] = o.kept
    BY <1>1 DEF CommitAll
  <2>6. Span' = span
    BY <1>2 DEF Span
  <2> HIDE DEF o, n, span
  <2>7. /\ SoundOutcome(o) /\ Steady(o.s, span) /\ FundedBy(o, Paid(p)) /\ OwedOf(o) \in Nat
        /\ HeldOf(Start(p)) + OwedOf(o) <= HeldOf(o) + (OwedOf(Start(p)) + n)
    BY <2>4, StartPriced DEF CostsOf
  <2>8. HeldOf(Start(p)) \in Nat /\ OwedOf(Start(p)) \in Nat /\ HeldOf(o) \in Nat /\ n \in Nat
    BY <2>1, <2>7, StartPriced, HeldType DEF n
  <2>9. HeldOf(Start(p)) <= HeldOf(o) + (OwedOf(Start(p)) + n)
    BY <2>7, <2>8
  <2> QED BY <1>2, <2>2, <2>5, <2>6, <2>7, <2>8, <2>9, PricedStep
<1>4. now' <= MAX_NOW /\ \A c \in Channels : recorded'[c] <= Capacity[c]
  BY <1>2 DEF Frugal
<1> QED BY <1>3, <1>4 DEF Frugal, CostsLittle

(* Winding down leaves every budget on disk. *)
LEMMA ShutdownCosts ==
    ASSUME Accountable, IInv, Frugal, Shutdown
    PROVE  Frugal' /\ CostsLittle
<1> DEFINE os == [p \in Payers |->
                    IF sess[p].place = "none" THEN Start(p)
                    ELSE Gone(Discard(SaveBudget(Start(p))))]
<1>1. CommitAll(os) /\ UNCHANGED <<now, tickDue, recorded>>
  BY DEF Shutdown
<1>2. ASSUME NEW p \in Payers
      PROVE  /\ SoundOutcome(os[p]) /\ Spares(Start(p), os[p], Span)
             /\ sess'[p] = os[p].s /\ disk'[p] = os[p].kept
  <2> DEFINE w == Gone(Discard(SaveBudget(Start(p))))
  <2>1. SoundOutcome(Start(p)) /\ Spares(Start(p), Start(p), Span)
    BY StartPriced, SparesNothing
  <2>2. sess[p].place # "none" => SoundOutcome(w) /\ Spares(Start(p), w, Span)
    BY WoundUpSound, WoundUpSpares
  <2>3. os[p] = IF sess[p].place = "none" THEN Start(p) ELSE w
    OBVIOUS
  <2> HIDE DEF w, os
  <2>4. sess'[p] = os[p].s /\ disk'[p] = os[p].kept
    BY <1>1 DEF CommitAll
  <2> QED BY <2>1, <2>2, <2>3, <2>4
<1> HIDE DEF os
<1> QED BY <1>1, <1>2, SparedStep

(* Time costs a budget nothing, or ends it. *)
LEMMA ElapseCosts ==
    ASSUME Accountable, IInv, Frugal, Elapse
    PROVE  Frugal' /\ CostsLittle
<1>1. /\ now \in Nat /\ now' = now + 1 /\ now < MAX_NOW /\ MAX_NOW \in Nat
      /\ tickDue = FALSE /\ tickDue' = TRUE /\ UNCHANGED <<sess, disk, recorded>>
  BY ProviderAssumption, WidthNat DEF Elapse, IInv, TypeOK
<1>2. ASSUME NEW p \in Payers
      PROVE  Funded(p)' /\ CostsPayer(p)
  <2>1. Paid(p)' = Paid(p) /\ Paid(p) \in Nat
    BY <1>1, StartPriced DEF Paid
  <2>2. sess[p].grant \in GrantState /\ disk[p] \in Budget
    BY DEF IInv, TypeOK, Session
  <2>3. Steady(sess[p], SECOND_MS - 1)
    BY <1>1 DEF Frugal, Funded, Span
  <2>4. Steady(sess[p], SECOND_MS)'
    <3> DEFINE sec == sess[p].grant.second
               then == now'
    <3>1. sec # None => sec.start \in Nat /\ sec.at \in Nat
      BY <2>2, WidthNat DEF GrantState, Second
    <3>2. then = now + 1 /\ SECOND_MS \in Nat
      BY <1>1, SecondAssumption
    <3> HIDE DEF then
    <3>3. sec # None => /\ ReadBy(sec, then)
                        /\ sess[p].linked => Within(sec, then, SECOND_MS)
      <4>1. sec # None => /\ ReadBy(sec, now)
                          /\ sess[p].linked => Within(sec, now, SECOND_MS - 1)
        BY <2>3 DEF Steady
      <4> HIDE DEF sec
      <4> QED BY <1>1, <3>1, <3>2, <4>1 DEF ReadBy, Within
    <3> QED BY <1>1, <3>3 DEF Steady, then
  <2>5. Funded(p)'
    <3>1. sess[p].grant.authorized <= Paid(p) /\ disk[p].remaining <= Paid(p)
      BY DEF Frugal, Funded
    <3> QED BY <1>1, <2>1, <2>4, <3>1 DEF Funded, Span
  <2>6. now' # now
    BY <1>1
  <2>7. \A b \in Budget : \/ BudgetAt(b, now').remaining = 0
                          \/ BudgetAt(b, now') = BudgetAt(b, now)
    <3> SUFFICES ASSUME NEW b \in Budget
                 PROVE  \/ BudgetAt(b, now').remaining = 0
                        \/ BudgetAt(b, now') = BudgetAt(b, now)
      OBVIOUS
    <3>1. b.deadline \in Nat
      BY WidthNat DEF Budget
    <3> QED BY <1>1, <3>1 DEF BudgetAt, NoBudget
  <2>8. Held(p)' = 0 \/ Held(p)' = Held(p)
    <3> DEFINE b == [remaining |-> Remaining(sess[p].grant), deadline |-> sess[p].grant.deadline]
    <3>1. b \in Budget
      BY <2>2, RemainingType DEF Budget, GrantState
    <3>2. \/ BudgetOf(sess[p].grant, now').remaining = 0
          \/ BudgetOf(sess[p].grant, now') = BudgetOf(sess[p].grant, now)
      BY <2>7, <3>1 DEF BudgetOf
    <3>3. \/ BudgetAt(disk[p], now').remaining = 0
          \/ BudgetAt(disk[p], now') = BudgetAt(disk[p], now)
      BY <2>2, <2>7
    <3> QED BY <1>1, <3>2, <3>3 DEF Held
  <2>9. ASSUME Held(p)' = Held(p)
        PROVE  CostsPayer(p)
    <3> DEFINE moved == IF tickDue /\ ~tickDue' /\ sess[p].linked THEN MAX_MOVED ELSE 0
    <3>1. /\ Held(p) \in Nat /\ Owing(p) \in Nat /\ moved = 0
      BY <1>1, StartPriced
    <3> HIDE DEF moved
    <3>2. Held(p) + Paid(p)' <= Held(p)' + Paid(p) + Owing(p) + moved
      BY <2>1, <2>9, <3>1
    <3> QED BY <3>2 DEF CostsPayer, moved
  <2> QED BY <2>5, <2>6, <2>8, <2>9 DEF CostsPayer
<1>3. now' <= MAX_NOW /\ \A c \in Channels : recorded'[c] <= Capacity[c]
  BY <1>1 DEF Frugal
<1> QED BY <1>2, <1>3 DEF Frugal, CostsLittle

(* A crash leaves what was kept, which is no less. *)
LEMMA CrashCosts ==
    ASSUME Accountable, IInv, Frugal, Crash
    PROVE  Frugal' /\ CostsLittle
<1>1. /\ sess' = [p \in Payers |-> NoSession]
      /\ UNCHANGED <<now, tickDue, disk, recorded>>
  BY DEF Crash
<1>2. ASSUME NEW p \in Payers
      PROVE  Funded(p)' /\ CostsPayer(p)
  <2>1. Paid(p)' = Paid(p) /\ Paid(p) \in Nat
    BY <1>1, StartPriced DEF Paid
  <2>2. /\ NoSession.grant.second = None /\ NoSession.grant.authorized = 0
        /\ NoSession.place = "none"
    BY NoSessionSound DEF NewGrant
  <2>3. Funded(p)'
    <3>1. Steady(sess[p], Span)'
      BY <1>1, <2>2 DEF Steady
    <3>2. disk[p].remaining <= Paid(p)
      BY DEF Frugal, Funded
    <3> QED BY <1>1, <2>1, <2>2, <3>1, <3>2 DEF Funded
  <2>4. Held(p)' = BudgetAt(disk[p], now).remaining
    BY <1>1, <2>2 DEF Held
  <2>5. /\ sess[p].place \in Places /\ BudgetAt(disk[p], now).remaining \in Nat
        /\ Held(p) \in Nat /\ Owing(p) \in Nat
    <3>1. sess[p] \in Session /\ sess[p].grant \in GrantState /\ disk[p] \in Budget
      BY DEF IInv, TypeOK, Session
    <3>2. BudgetAt(disk[p], now) \in Budget
      BY <3>1, BudgetType
    <3>3. Held(p) \in Nat /\ Owing(p) \in Nat
      BY StartPriced
    <3> QED BY <3>1, <3>2, <3>3, WidthNat DEF Session, Budget
  <2>6. Held(p) <= BudgetAt(disk[p], now).remaining
    <3>1. /\ InPeers(p) => CoversAt(disk[p], sess[p].grant, now)
          /\ sess[p].place = "parked" => BudgetAt(disk[p], now) = BudgetOf(sess[p].grant, now)
      BY DEF IInv, Covered
    <3>2. BudgetOf(sess[p].grant, now).remaining \in Nat
      <4>1. sess[p].grant \in GrantState /\ disk[p] \in Budget
        BY DEF IInv, TypeOK, Session
      <4>2. BudgetOf(sess[p].grant, now) \in Budget
        BY <4>1, BudgetType
      <4> QED BY <4>2, WidthNat DEF Budget
    <3> QED BY <2>5, <3>1, <3>2 DEF Held, InPeers, CoversAt, Places
  <2> DEFINE moved == IF tickDue /\ ~tickDue' /\ sess[p].linked THEN MAX_MOVED ELSE 0
  <2>7. moved = 0
    BY <1>1
  <2> HIDE DEF moved
  <2>8. Held(p) + Paid(p)' <= Held(p)' + Paid(p) + Owing(p) + moved
    BY <2>1, <2>4, <2>5, <2>6, <2>7
  <2> QED BY <2>3, <2>8 DEF CostsPayer, moved
<1>3. now' <= MAX_NOW /\ \A c \in Channels : recorded'[c] <= Capacity[c]
  BY <1>1 DEF Frugal
<1> QED BY <1>2, <1>3 DEF Frugal, CostsLittle

\* What the theorem asks of the constants: a window lasts (a node refuses to
\* start with min_window_ms of 0), and neither the clock nor what one payer can
\* pay on all its channels is more than a count can hold.
Countable ==
    /\ MIN_WINDOW > 0 /\ MAX_NOW < U64_MAX
    /\ \A p \in Payers : SumOver(Capacity, {c \in Channels : Owner[c] = p}) <= U64_MAX

(* A purchase is paid for in full: what the payer is given is what is added to *)
(* its channels, and no more than they can hold.                               *)
LEMMA PurchasePaidExactly ==
    ASSUME NEW S \in SUBSET Channels, SumOver(Capacity, S) <= U64_MAX,
           NEW g \in GrantState, NEW available, NEW us \in Updates,
           NEW window \in U64, NEW rate, Verdict(g, available, us, window, rate) = "Accept",
           NEW rec \in [Channels -> U64], NEW then \in [Channels -> U64],
           Records(us, rec, then), \A c \in Channels : rec[c] <= Capacity[c],
           \A c \in g.open : c \in S /\ g.signed[c] = rec[c]
    PROVE  /\ SumOver(then, S) = SumOver(rec, S) + Increase(g, us)
           /\ SumOver(then, S) <= U64_MAX
           /\ SumOver(rec, S) \in Nat /\ Increase(g, us) \in Nat
           /\ \A c \in Channels : then[c] <= Capacity[c]
           /\ MIN_WINDOW <= window
<1>1. SumOver(Capacity, S) <= U64_MAX
  OBVIOUS
<1>2. S \in SUBSET Channels /\ IsFiniteSet(S)
  <2>1. S \in SUBSET Channels /\ IsFiniteSet(Channels)
    BY ChannelAssumption
  <2> QED BY <2>1, FS_Subset
<1>3. \A c \in g.open : c \in S /\ g.signed[c] = rec[c]
  OBVIOUS
<1>4. /\ then \in [Channels -> Nat] /\ rec \in [Channels -> Nat]
      /\ Capacity \in [Channels -> Nat]
  BY ChannelAssumption, WidthNat
<1>5. MIN_WINDOW <= window /\ \A c \in Channels : then[c] <= Capacity[c]
  BY AcceptedWithin
<1>6. SumOver(then, S) <= SumOver(Capacity, S)
  <2>1. \A c \in S : then[c] = 0 \/ (c \in S /\ then[c] <= Capacity[c])
    BY <1>2, <1>5
  <2> QED BY <1>2, <1>4, <2>1, SumMonotone
<1>7. SumOver(then, S) \in Nat /\ SumOver(rec, S) \in Nat /\ SumOver(Capacity, S) \in Nat
  BY <1>2, <1>4, SumType
<1>8. SumOver(then, S) <= U64_MAX
  <2>1. U64_MAX \in Nat
    BY WidthAssumption
  <2> QED BY <1>1, <1>6, <1>7, <2>1
<1>9. /\ SumOver(rec, S) + Increase(g, us) <= SumOver(then, S)
      /\ SumOver(then, S) <= U64_MAX =>
            SumOver(then, S) = SumOver(rec, S) + Increase(g, us)
  BY <1>2, <1>3, PurchasePaid
<1>10. Increase(g, us) \in Nat
  BY IncreaseType
<1> QED BY <1>5, <1>7, <1>8, <1>9, <1>10

(* A payer a step is not about. *)
LEMMA UntouchedCosts ==
    ASSUME Accountable, IInv, Frugal, NEW p \in Payers, UNCHANGED <<now, tickDue>>,
           sess'[p] = sess[p], disk'[p] = disk[p], Paid(p)' = Paid(p)
    PROVE  Funded(p)' /\ CostsPayer(p)
<1>1. Funded(p)
  BY DEF Frugal
<1>2. Steady(sess[p], Span)'
  BY <1>1 DEF Funded, Steady, Span
<1>3. Funded(p)'
  BY <1>1, <1>2 DEF Funded
<1> DEFINE moved == IF tickDue /\ ~tickDue' /\ sess[p].linked THEN MAX_MOVED ELSE 0
<1>4. moved = 0 /\ Held(p) \in Nat /\ Owing(p) \in Nat /\ Paid(p) \in Nat /\ Held(p)' = Held(p)
  BY StartPriced DEF Held
<1> HIDE DEF moved
<1>5. Held(p) + Paid(p)' <= Held(p)' + Paid(p) + Owing(p) + moved
  BY <1>4
<1> QED BY <1>3, <1>5 DEF CostsPayer, moved

(* A purchase costs nothing but the second it splits. *)
LEMMA AcceptedCosts ==
    ASSUME Accountable, Countable, IInv, Frugal, NEW p \in Payers, NEW us \in Updates,
           NEW window \in U64, NEW rate \in U64, InPeers(p), UNCHANGED <<now, tickDue>>,
           \A c \in Named(us) : Owner[c] = p,
           Verdict(Checked(p).s.grant, Available(p), us, window, rate) = "Accept",
           Commit(p, Bought(Checked(p), us, window, rate)),
           recorded' = [c \in Channels |->
                          IF c \in Named(us) THEN TotalOn(us, c) ELSE recorded[c]]
    PROVE  Frugal' /\ CostsLittle
<1> DEFINE o == Checked(p)
           g == o.s.grant
           a == Available(p)
           b == Bought(o, us, window, rate)
           inc == Increase(g, us)
           span == Span
           then == recorded'
<1>1. /\ SoundOutcome(o) /\ Follows(Start(p), o) /\ Spares(Start(p), o, span)
      /\ o.s.place = "peers" /\ o.s.grant \in GrantState
      /\ now \in U64 /\ recorded \in [Channels -> U64]
  BY CheckedSound, HeardSpares DEF InPeers, SoundOutcome, Outcome, Session, IInv, TypeOK
<1>2. /\ Charged(Start(p)) /\ Saved(Start(p)) /\ Steady(Start(p).s, span)
      /\ FundedBy(Start(p), Paid(p)) /\ Paid(p) \in Nat
      /\ HeldOf(Start(p)) = Held(p) /\ HeldOf(Start(p)) \in Nat
      /\ OwedOf(Start(p)) = Owing(p) /\ OwedOf(Start(p)) \in Nat
  BY StartPriced
<1>3. Booked(p, o, recorded)
  BY <1>1, StartSound, FollowsBooked
<1>4. /\ Verdict(g, a, us, window, rate) = "Accept" /\ b = Bought(o, us, window, rate)
      /\ Commit(p, b) /\ g = o.s.grant
  OBVIOUS
<1>5. span \in Nat /\ Span' = span
  <2>1. SECOND_MS - 1 \in Nat /\ SECOND_MS \in Nat
    BY SecondAssumption
  <2> QED BY <2>1 DEF Span
<1> HIDE DEF o, span
<1>6. /\ Steady(o.s, span) /\ FundedBy(o, Paid(p)) /\ OwedOf(o) \in Nat /\ HeldOf(o) \in Nat
      /\ HeldOf(Start(p)) + OwedOf(o) <= HeldOf(o) + OwedOf(Start(p))
  BY <1>1, <1>2, HeldType DEF Spares
<1>7. g \in GrantState /\ \A c \in g.open : Owner[c] = p /\ g.signed[c] = recorded[c]
  BY <1>1, <1>3 DEF Booked
<1> HIDE DEF g, a, b
<1>8. /\ recorded' \in [Channels -> U64]
      /\ \A c \in Channels : recorded'[c] =
            IF c \in Named(us) THEN TotalOn(us, c) ELSE recorded[c]
  <2>1. \A c \in Named(us) : TotalOn(us, c) \in U64
    BY <1>4, <1>7, TotalType
  <2> QED BY <1>1, <2>1
<1>9. \A c \in Channels : recorded[c] <= Capacity[c]
  BY DEF Frugal
<1>10. /\ Paid(p)' = Paid(p) + inc /\ Paid(p)' <= U64_MAX /\ inc \in Nat
       /\ \A c \in Channels : recorded'[c] <= Capacity[c]
       /\ MIN_WINDOW <= window
  <2> DEFINE S == {c \in Channels : Owner[c] = p}
  <2>1. then \in [Channels -> U64] /\ Records(us, recorded, then)
    BY <1>8 DEF Records
  <2>2. Paid(p)' = SumOver(then, S) /\ Paid(p) = SumOver(recorded, S)
    BY DEF Paid
  <2>3. /\ S \in SUBSET Channels /\ SumOver(Capacity, S) <= U64_MAX
        /\ \A c \in g.open : c \in S /\ g.signed[c] = recorded[c]
    BY <1>7 DEF Countable, GrantState
  <2> HIDE DEF then, S
  <2>4. /\ SumOver(then, S) = SumOver(recorded, S) + Increase(g, us)
        /\ SumOver(then, S) <= U64_MAX
        /\ SumOver(recorded, S) \in Nat /\ Increase(g, us) \in Nat
        /\ \A c \in Channels : then[c] <= Capacity[c]
        /\ MIN_WINDOW <= window
    BY <1>1, <1>4, <1>7, <1>9, <2>1, <2>3, PurchasePaidExactly
  <2> QED BY <2>2, <2>4 DEF then
<1>11. now < SatAdd(now, window)
  <2>1. /\ now \in Nat /\ window \in Nat /\ MIN_WINDOW \in Nat /\ MIN_WINDOW > 0
        /\ now <= MAX_NOW /\ MAX_NOW < U64_MAX /\ MAX_NOW \in Nat /\ U64_MAX \in Nat
    BY <1>1, PolicyAssumption, ProviderAssumption, WidthNat, WidthAssumption DEF Countable, Frugal
  <2> QED BY <1>10, <2>1 DEF SatAdd, Least
<1>12. g.authorized + inc <= U64_MAX
  <2>1. g.authorized \in Nat /\ g.authorized <= Paid(p) /\ U64_MAX \in Nat
    BY <1>4, <1>6, <1>7, WidthNat, WidthAssumption DEF FundedBy, GrantState
  <2> QED BY <1>2, <1>10, <2>1
<1>13. /\ Steady(b.s, span)
       /\ \A paid \in Nat : FundedBy(o, paid) => FundedBy(b, paid + inc)
       /\ HeldOf(o) + inc <= HeldOf(b) + OwedOf(o)
  <2>1. /\ Verdict(o.s.grant, a, us, window, rate) = "Accept"
        /\ o.s.grant.authorized + Increase(o.s.grant, us) <= U64_MAX
        /\ inc = Increase(o.s.grant, us)
    BY <1>4, <1>12
  <2> HIDE DEF inc
  <2>2. /\ Steady(b.s, span)
        /\ \A paid \in Nat : FundedBy(o, paid) => FundedBy(b, paid + Increase(o.s.grant, us))
        /\ HeldOf(o) + Increase(o.s.grant, us) <= HeldOf(b) + OwedOf(o)
    BY <1>1, <1>4, <1>5, <1>6, <1>11, <2>1, BoughtCosts
  <2> QED BY <2>1, <2>2
<1>14. /\ sess \in [Payers -> Session] /\ disk \in [Payers -> Budget]
  BY DEF IInv, TypeOK
<1>15. SoundOutcome(b)
  <2>1. /\ then \in [Channels -> U64] /\ Records(us, recorded, then)
        /\ Verdict(o.s.grant, a, us, window, rate) = "Accept"
    BY <1>4, <1>8 DEF Records
  <2> HIDE DEF then
  <2>2. Purchased(p, o, us, rate, b, then)
    BY <1>1, <1>3, <1>4, <2>1, BoughtSound
  <2> QED BY <2>2 DEF Purchased
<1> HIDE DEF inc
<1>16. Funded(p)' /\ CostsPayer(p)
  <2>1. sess'[p] = b.s /\ disk'[p] = b.kept
    BY <1>4, <1>14 DEF Commit
  <2>2. Held(p)' = HeldOf(b) /\ HeldOf(b) \in Nat
    BY <1>15, <2>1, HeldType DEF Held, HeldOf
  <2>3. Steady(sess[p], Span)'
    BY <1>5, <1>13, <2>1 DEF Steady
  <2>4. FundedBy(b, Paid(p)')
    BY <1>2, <1>6, <1>10, <1>13
  <2>5. Funded(p)'
    BY <2>1, <2>3, <2>4 DEF Funded, FundedBy
  <2> DEFINE moved == IF tickDue /\ ~tickDue' /\ sess[p].linked THEN MAX_MOVED ELSE 0
  <2>6. moved = 0
    OBVIOUS
  <2> HIDE DEF moved
  <2>7. Held(p) + Paid(p)' <= Held(p)' + Paid(p) + Owing(p) + moved
    BY <1>2, <1>6, <1>10, <1>13, <2>2, <2>6
  <2> QED BY <2>5, <2>7 DEF CostsPayer, moved
<1>17. ASSUME NEW q \in Payers, q # p
       PROVE  Funded(q)' /\ CostsPayer(q)
  <2>1. sess'[q] = sess[q] /\ disk'[q] = disk[q]
    BY <1>4, <1>14, <1>17 DEF Commit
  <2>2. Paid(q)' = Paid(q)
    <3> DEFINE S == {c \in Channels : Owner[c] = q}
    <3>1. S \in SUBSET Channels /\ IsFiniteSet(S)
      <4>1. S \in SUBSET Channels /\ IsFiniteSet(Channels)
        BY ChannelAssumption
      <4> QED BY <4>1, FS_Subset
    <3>2. recorded \in [Channels -> Nat] /\ then \in [Channels -> Nat]
      BY <1>1, <1>8, WidthNat
    <3>3. Paid(q)' = SumOver(then, S) /\ Paid(q) = SumOver(recorded, S)
      BY DEF Paid
    <3>4. \A c \in S : recorded[c] = then[c]
      BY <1>8, <1>17
    <3> HIDE DEF S, then
    <3> QED BY <3>1, <3>2, <3>3, <3>4, SumSame
  <2> QED BY <2>1, <2>2, UntouchedCosts
<1>18. now' <= MAX_NOW
  BY DEF Frugal
<1> QED BY <1>10, <1>16, <1>17, <1>18 DEF Frugal, CostsLittle

(* A TopUp, honoured or not. *)
LEMMA RecvTopUpCosts ==
    ASSUME Accountable, Countable, IInv, Frugal, NEW p \in Payers, NEW us \in Updates,
           NEW window \in U64, NEW rate \in U64, RecvTopUp(p, us, window, rate)
    PROVE  Frugal' /\ CostsLittle
<1> DEFINE verdict == Verdict(Checked(p).s.grant, Available(p), us, window, rate)
           cs      == NotIncreasing(Checked(p).s.grant, us)
<1>1. /\ InPeers(p) /\ UNCHANGED <<now, tickDue>> /\ \A c \in Named(us) : Owner[c] = p
      /\ \/ /\ verdict = "Accept"
            /\ Commit(p, Bought(Checked(p), us, window, rate))
            /\ recorded' = [c \in Channels |->
                  IF c \in Named(us) THEN TotalOn(us, c) ELSE recorded[c]]
         \/ Commit(p, Unverified(Checked(p), cs)) /\ UNCHANGED recorded
         \/ Commit(p, Refresh(Checked(p))) /\ UNCHANGED recorded
  BY DEF RecvTopUp
<1>2. cs \in SUBSET Channels
  <2>1. Checked(p).s.grant \in GrantState
    BY CheckedSound DEF SoundOutcome, Outcome, Session
  <2> QED BY <2>1 DEF NotIncreasing, GrantState
<1> HIDE DEF cs
<1>3. CASE /\ verdict = "Accept"
           /\ Commit(p, Bought(Checked(p), us, window, rate))
           /\ recorded' = [c \in Channels |->
                 IF c \in Named(us) THEN TotalOn(us, c) ELSE recorded[c]]
  BY <1>1, <1>3, AcceptedCosts
<1> HIDE DEF verdict
<1>4. CASE Commit(p, Unverified(Checked(p), cs)) /\ UNCHANGED recorded
  <2>1. \E x \in SUBSET Channels : Commit(p, Unverified(Checked(p), x))
    BY <1>2, <1>4
  <2> QED BY <1>1, <1>4, <2>1, RefusedCosts
<1>5. CASE Commit(p, Refresh(Checked(p))) /\ UNCHANGED recorded
  BY <1>1, <1>5, RefusedCosts
<1> QED BY <1>1, <1>3, <1>4, <1>5

(* Every step costs little, and leaves nobody with more than was paid. *)
LEMMA NextCosts ==
    ASSUME Accountable, Countable, IInv, Frugal, [Next]_vars
    PROVE  Frugal' /\ CostsLittle
<1>1. CASE UNCHANGED vars
  <2>1. /\ UNCHANGED <<now, tickDue, sess, disk, recorded>>
        /\ \A p \in Payers : Paid(p)' = Paid(p)
    BY <1>1 DEF vars, Paid
  <2>2. \A p \in Payers : Funded(p)' /\ CostsPayer(p)
    BY <2>1, UntouchedCosts
  <2> QED BY <2>1, <2>2 DEF Frugal, CostsLittle
<1>2. CASE Elapse
  BY <1>2, ElapseCosts
<1>3. CASE Tick
  BY <1>3, TickStepCosts
<1>4. CASE Shutdown
  BY <1>4, ShutdownCosts
<1>5. CASE Crash
  BY <1>5, CrashCosts
<1>6. ASSUME NEW p \in Payers,
             \/ PeerUp(p) \/ PeerUpBlocked(p) \/ PeerDown(p) \/ RecvOffer(p)
      PROVE  Frugal' /\ CostsLittle
  BY <1>6, PeerUpCosts, PeerUpBlockedCosts, PeerDownCosts, RecvOfferCosts
<1>7. ASSUME NEW p \in Payers,
             \/ RecvDisconnect(p) \/ OutgoingFunded(p) \/ RecvEmptyAccept(p) \/ RecvOther(p)
      PROVE  Frugal' /\ CostsLittle
  BY <1>7, HeardCosts
<1>8. ASSUME NEW p \in Payers, NEW c \in Channels, RecvAccept(p, c) \/ RecvRolloverInit(p, c)
      PROVE  Frugal' /\ CostsLittle
  BY <1>8, HeardCosts
<1>9. ASSUME NEW p \in Payers, NEW c \in Channels,
             \/ FundingVerified(p, c) \/ FundingRejected(p, c)
             \/ RecvBadSignature(p, c) \/ RecvChannelClose(p, c)
      PROVE  Frugal' /\ CostsLittle
  BY <1>9, FundingCosts, RecvBadSignatureCosts, RecvChannelCloseCosts
<1>10. ASSUME NEW p \in Payers, NEW us \in Purchases, NEW w \in Windows, NEW r \in Rates,
              RecvTopUp(p, us, w, r)
       PROVE  Frugal' /\ CostsLittle
  <2>1. us \in Updates /\ w \in U64 /\ r \in U64
    BY ProviderAssumption
  <2> QED BY <1>10, <2>1, RecvTopUpCosts
<1>11. ASSUME NEW p \in Payers, NEW policy \in Overrides, SetPeerPolicy(p, policy)
       PROVE  Frugal' /\ CostsLittle
  BY <1>11, SetPeerPolicyCosts
<1> QED BY <1>1, <1>2, <1>3, <1>4, <1>5, <1>6, <1>7, <1>8, <1>9, <1>10, <1>11 DEF Next

(* A node just started has been paid nothing, and holds nothing. *)
LEMMA InitFrugal ==
    ASSUME Init
    PROVE  Frugal
<1>1. NoSession.grant.second = None /\ NoSession.grant.authorized = 0
  BY NoSessionSound DEF NewGrant
<1>2. /\ now = 0 /\ MAX_NOW \in Nat /\ \A c \in Channels : Capacity[c] \in Nat
      /\ recorded = [c \in Channels |-> 0] /\ recorded \in [Channels -> U64]
  BY ProviderAssumption, ChannelAssumption, WidthNat, InitInv DEF Init, IInv, TypeOK
<1>3. \A p \in Payers : Paid(p) \in Nat
  BY <1>2, PaidType
<1>4. \A p \in Payers : Funded(p)
  BY <1>1, <1>3 DEF Init, Funded, Steady, NoBudget
<1> QED BY <1>2, <1>4 DEF Frugal

(* On the same terms as NothingForFree, and with counts that do not saturate, *)
(* no step takes more from a payer than its reservation owes for the second   *)
(* being drawn and, on a tick it is metered in, what moved: parking, coming   *)
(* back, settling, renewing early and a crash forfeit nothing, and only the   *)
(* deadline ends a budget early (draw, pause, park, restart, restore, apply). *)
THEOREM NothingIsForfeit ==
    ASSUME Accountable, Countable
    PROVE  Spec => BudgetKept
<1>1. Init => IInv /\ Frugal
  BY InitInv, InitFrugal
<1>2. IInv /\ Frugal /\ [Next]_vars => (IInv /\ Frugal)'
  BY NextInv, NextCosts
<1>3. IInv /\ Frugal /\ [Next]_vars =>
        [\A p \in Payers :
           \/ now' # now /\ Held(p)' = 0
           \/ LET metered == tickDue /\ ~tickDue' /\ sess[p].linked
                  moved   == IF metered THEN MAX_MOVED ELSE 0
              IN  Held(p) + Paid(p)' <= Held(p)' + Paid(p) + Owing(p) + moved]_vars
  <2> SUFFICES ASSUME IInv, Frugal, [Next]_vars, NEW p \in Payers
               PROVE  \/ now' # now /\ Held(p)' = 0
                      \/ LET metered == tickDue /\ ~tickDue' /\ sess[p].linked
                             moved   == IF metered THEN MAX_MOVED ELSE 0
                         IN  Held(p) + Paid(p)' <= Held(p)' + Paid(p) + Owing(p) + moved
    OBVIOUS
  <2>1. CostsLittle
    BY NextCosts
  <2> QED BY <2>1 DEF CostsLittle, CostsPayer
<1> QED BY <1>1, <1>2, <1>3, PTL DEF Spec, BudgetKept
=============================================================================
