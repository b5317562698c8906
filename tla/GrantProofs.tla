---------------------------- MODULE GrantProofs -----------------------------
(***************************************************************************)
(* What each operator on a grant preserves, for every width, every set of  *)
(* channels and every policy: the lemmas the proofs about Provider rest    *)
(* on.                                                                     *)
(***************************************************************************)
EXTENDS Grant, SumProofs

(* Saturating arithmetic stays within the width. *)
LEMMA SaturationType ==
    ASSUME NEW x \in Nat, NEW y \in Nat
    PROVE  /\ SatAdd(x, y) \in U64
           /\ SatSub(x, y) \in Nat /\ SatSub(x, y) <= x
           /\ Least(x, y) \in Nat /\ Least(x, y) <= x /\ Least(x, y) <= y
           /\ Greatest(x, y) \in Nat /\ Greatest(x, y) >= x /\ Greatest(x, y) >= y
BY WidthAssumption DEF SatAdd, SatSub, Least, Greatest, U64

(* A value within the width is a natural number, and so is the width. *)
LEMMA WidthNat == U64 \subseteq Nat /\ U64_MAX \in Nat /\ 0 \in U64 /\ U64_MAX \in U64
BY WidthAssumption DEF U64

(* What a rate comes to over a time is within the width (units_in). *)
LEMMA UnitsType ==
    ASSUME NEW rate \in Nat, NEW ms \in Nat
    PROVE  units_in(rate, ms) \in U64
<1>1. rate * ms \in Nat
  OBVIOUS
<1>2. (rate * ms) \div SECOND_MS \in Nat
  BY <1>1, SecondAssumption
<1> QED BY <1>2, WidthAssumption DEF units_in, Least, U64

(* A reading leaves a well-formed second and owes a number of units. *)
LEMMA ReadType ==
    ASSUME NEW sec \in Second, NEW moved \in U64, NEW now \in U64, NEW rate \in U64
    PROVE  /\ SecondAfterRead(sec, moved, now) \in Second
           /\ OwedByRead(sec, moved, now, rate) \in Nat
<1> DEFINE at    == Greatest(sec.at, now)
           whole == WholeSeconds(sec, now)
           span  == Least(whole * SECOND_MS, U64_MAX)
           floor == units_in(rate, span)
           sum   == SatAdd(sec.moved, moved)
<1> USE WidthNat
<1>0. /\ sec.start \in Nat /\ sec.at \in U64 /\ sec.moved \in Nat
      /\ moved \in Nat /\ now \in U64 /\ rate \in Nat
      /\ 0 \in U64 /\ sec.start \in U64 /\ sec.moved \in U64
  BY DEF Second
<1>1. at \in U64
  BY <1>0 DEF Greatest
<1>2. whole \in Nat
  <2>1. SatSub(at, sec.start) \in Nat
    BY <1>0, <1>1, SaturationType
  <2> QED BY <2>1, SecondAssumption DEF WholeSeconds
<1>3. span \in Nat
  <2>1. whole * SECOND_MS \in Nat
    BY <1>2, SecondAssumption
  <2> QED BY <2>1, SaturationType
<1>4. floor \in Nat
  BY <1>0, <1>3, UnitsType
<1>5. sum \in U64
  BY <1>0, SaturationType
<1>6. SecondAfterRead(sec, moved, now) \in Second
  <2>1. SatAdd(sec.start, span) \in U64
    BY <1>0, <1>3, SaturationType
  <2>2. SecondAfterRead(sec, moved, now) =
          IF whole = 0 THEN [sec EXCEPT !.at = at, !.moved = sum]
          ELSE [start |-> SatAdd(sec.start, span), at |-> at, moved |-> 0]
    BY DEF SecondAfterRead, Second
  <2> HIDE DEF at, whole, span, sum, floor
  <2>3. [sec EXCEPT !.at = at, !.moved = sum] \in Second
    BY <1>1, <1>5 DEF Second
  <2>4. [start |-> SatAdd(sec.start, span), at |-> at, moved |-> 0] \in Second
    BY <1>0, <1>1, <2>1 DEF Second
  <2> QED BY <2>2, <2>3, <2>4
<1>7. OwedByRead(sec, moved, now, rate) \in Nat
  <2>1. SatSub(floor, sum) \in Nat
    BY <1>4, <1>5, SaturationType
  <2>2. SatAdd(moved, SatSub(floor, sum)) \in Nat
    BY <1>0, <2>1, SaturationType
  <2>3. OwedByRead(sec, moved, now, rate) =
          IF whole = 0 THEN moved ELSE SatAdd(moved, SatSub(floor, sum))
    BY DEF OwedByRead
  <2> HIDE DEF floor, whole, span, sum
  <2> QED BY <1>0, <2>2, <2>3
<1> QED BY <1>6, <1>7

(* Ending a second owes a number of units. *)
LEMMA CloseType ==
    ASSUME NEW sec \in Second, NEW until \in U64, NEW rate \in U64
    PROVE  OwedByClose(sec, until, rate) \in Nat
<1>1. until \in Nat /\ rate \in Nat /\ sec.start \in Nat /\ sec.moved \in Nat
  BY WidthNat DEF Second
<1>2. SatSub(until, sec.start) \in Nat
  BY <1>1, SaturationType
<1>3. units_in(rate, SatSub(until, sec.start)) \in Nat
  BY <1>1, <1>2, UnitsType, WidthNat
<1> QED BY <1>1, <1>3, SaturationType DEF OwedByClose

(* A second starts well formed. *)
LEMMA StartingType ==
    ASSUME NEW now \in U64
    PROVE  SecondStarting(now) \in Second
BY WidthAssumption DEF SecondStarting, Second, U64

(* What is left of a well-formed budget. *)
LEMMA RemainingType ==
    ASSUME NEW g \in GrantState
    PROVE  /\ Remaining(g) \in U64
           /\ g.consumed <= g.authorized => Remaining(g) = g.authorized - g.consumed
<1>1. g.authorized \in U64 /\ g.consumed \in U64
  BY DEF GrantState
<1> QED BY <1>1, WidthAssumption DEF Remaining, SatSub, U64

(* take never overdraws, and ends the reservation of a budget it empties; it *)
(* changes nothing else.                                                     *)
LEMMA TakeSound ==
    ASSUME NEW g \in GrantState, NEW owed \in Nat, GrantSound(g)
    PROVE  /\ Take(g, owed) \in GrantState
           /\ GrantSound(Take(g, owed))
           /\ Take(g, owed).second = g.second
           /\ Take(g, owed).open = g.open
           /\ Take(g, owed).signed = g.signed
<1> DEFINE drawn == Least(owed, Remaining(g))
           taken == [g EXCEPT !.consumed = SatAdd(@, drawn)]
<1>0. g.authorized \in U64 /\ g.consumed \in U64 /\ g.reserved \in U64
  BY DEF GrantState
<1>1. /\ SatAdd(g.consumed, drawn) \in U64
      /\ SatAdd(g.consumed, drawn) <= g.authorized
  BY <1>0, WidthAssumption DEF SatAdd, Least, Remaining, SatSub, U64, GrantSound
<1> HIDE DEF drawn
<1>2. /\ taken \in GrantState
      /\ taken.consumed <= taken.authorized
      /\ taken.second = g.second /\ taken.open = g.open /\ taken.signed = g.signed
  BY <1>1 DEF GrantState
<1>3. Take(g, owed) = IF Remaining(taken) = 0 THEN [taken EXCEPT !.reserved = 0] ELSE taken
  BY DEF Take, drawn
<1> HIDE DEF taken
<1>4. CASE Remaining(taken) = 0
  BY <1>2, <1>3, <1>4, WidthNat DEF GrantState, GrantSound
<1>5. CASE Remaining(taken) # 0
  BY <1>2, <1>3, <1>5, RemainingType, WidthNat DEF GrantSound, U64
<1> QED BY <1>4, <1>5
(* Budgets as the host keeps them are well formed. *)
LEMMA BudgetType ==
    ASSUME NEW g \in GrantState, NEW bud \in Budget, NEW now
    PROVE  /\ BudgetAt(bud, now) \in Budget
           /\ BudgetOf(g, now) \in Budget
           /\ NoBudget \in Budget
<1>1. NoBudget \in Budget
  BY WidthNat DEF NoBudget, Budget
<1>2. [remaining |-> Remaining(g), deadline |-> g.deadline] \in Budget
  BY RemainingType DEF Budget, GrantState
<1> QED BY <1>1, <1>2 DEF BudgetAt, BudgetOf

(* pause leaves a sound grant that is not being drawn. *)
LEMMA PauseSound ==
    ASSUME NEW g \in GrantState, GrantSound(g)
    PROVE  /\ Pause(g) \in GrantState
           /\ GrantSound(Pause(g))
           /\ Pause(g).second = None
           /\ Pause(g).open = g.open
           /\ Pause(g).signed = g.signed
<1>1. CASE g.second = None
  BY <1>1 DEF Pause
<1>2. CASE g.second # None
  <2> DEFINE h == [g EXCEPT !.second = None]
             owed == OwedByClose(g.second, g.second.at, g.reserved)
  <2>1. h \in GrantState /\ h.second = None /\ h.open = g.open /\ h.signed = g.signed
    BY DEF GrantState
  <2>2. GrantSound(h)
    BY DEF GrantSound, Remaining, GrantState
  <2>3. owed \in Nat
    <3>1. g.second \in Second /\ g.second.at \in U64 /\ g.reserved \in U64
      BY <1>2 DEF GrantState, Second
    <3> QED BY <3>1, CloseType
  <2>4. Pause(g) = Take(h, owed)
    BY <1>2 DEF Pause
  <2> HIDE DEF h, owed
  <2> QED BY <2>1, <2>2, <2>3, <2>4, TakeSound
<1> QED BY <1>1, <1>2

(* draw never overdraws, and leaves the channels alone. *)
LEMMA DrawSound ==
    ASSUME NEW g \in GrantState, GrantSound(g), NEW moved \in U64, NEW now \in U64
    PROVE  /\ Draw(g, moved, now) \in GrantState
           /\ GrantSound(Draw(g, moved, now))
           /\ Draw(g, moved, now).open = g.open
           /\ Draw(g, moved, now).signed = g.signed
<1>0. moved \in Nat /\ g.reserved \in U64
  BY WidthNat DEF GrantState
<1>1. ASSUME NEW sec \in Second, NEW owed \in Nat
      PROVE  LET h == Take([g EXCEPT !.second = sec], owed) IN
             h \in GrantState /\ GrantSound(h) /\ h.open = g.open /\ h.signed = g.signed
  <2> DEFINE h == [g EXCEPT !.second = sec]
  <2>1. h \in GrantState /\ h.open = g.open /\ h.signed = g.signed
    BY DEF GrantState
  <2>2. GrantSound(h)
    BY DEF GrantSound, Remaining, GrantState
  <2> HIDE DEF h
  <2>3. Take(h, owed) \in GrantState /\ GrantSound(Take(h, owed))
        /\ Take(h, owed).open = g.open /\ Take(h, owed).signed = g.signed
    BY <2>1, <2>2, TakeSound
  <2> QED BY <2>3 DEF h
<1>2. CASE g.second = None
  <2>1. SecondAfterRead(SecondStarting(now), moved, now) \in Second
    BY <1>0, StartingType, ReadType
  <2> QED BY <1>0, <1>1, <1>2, <2>1 DEF Draw
<1>3. CASE g.second # None
  <2>1. g.second \in Second
    BY <1>3 DEF GrantState
  <2>2. /\ SecondAfterRead(g.second, moved, now) \in Second
        /\ OwedByRead(g.second, moved, now, g.reserved) \in Nat
    BY <1>0, <2>1, ReadType
  <2>3. Draw(g, moved, now) = Take([g EXCEPT !.second = SecondAfterRead(g.second, moved, now)],
                                   OwedByRead(g.second, moved, now, g.reserved))
    BY <1>3 DEF Draw
  <2> QED BY <1>1, <2>2, <2>3
<1> QED BY <1>2, <1>3

(* Expiry forfeits what is left and ends the reservation, no more. *)
LEMMA ExpireSound ==
    ASSUME NEW g \in GrantState, GrantSound(g), NEW now \in U64
    PROVE  /\ ExpireIfDue(g, now) \in GrantState
           /\ GrantSound(ExpireIfDue(g, now))
           /\ ExpireIfDue(g, now).second = g.second
           /\ ExpireIfDue(g, now).open = g.open
           /\ ExpireIfDue(g, now).signed = g.signed
<1>1. CASE now < g.deadline
  BY <1>1 DEF ExpireIfDue
<1>2. CASE ~(now < g.deadline)
  <2> DEFINE h == [g EXCEPT !.reserved = 0, !.consumed = Greatest(@, g.authorized)]
  <2>1. g.consumed \in U64 /\ g.authorized \in U64
    BY DEF GrantState
  <2>2. Greatest(g.consumed, g.authorized) = g.authorized
    BY <2>1 DEF Greatest, GrantSound, U64
  <2>3. h = [g EXCEPT !.reserved = 0, !.consumed = g.authorized]
    BY <2>2
  <2>4. h \in GrantState /\ h.second = g.second /\ h.open = g.open /\ h.signed = g.signed
    BY <2>1, <2>3, WidthNat DEF GrantState
  <2>5. h.consumed = h.authorized /\ h.reserved = 0
    BY <2>1, <2>3 DEF GrantState
  <2>6. GrantSound(h)
    BY <2>1, <2>4, <2>5, WidthNat DEF GrantSound, GrantState, U64
  <2>7. ExpireIfDue(g, now) = h
    BY <1>2 DEF ExpireIfDue
  <2> HIDE DEF h
  <2> QED BY <2>4, <2>6, <2>7
<1> QED BY <1>1, <1>2

(* A session that ends reserves nothing and is not drawn. *)
LEMMA EndReservationSound ==
    ASSUME NEW g \in GrantState, GrantSound(g)
    PROVE  /\ EndReservation(g) \in GrantState
           /\ GrantSound(EndReservation(g))
           /\ EndReservation(g).second = None
           /\ EndReservation(g).reserved = 0
           /\ EndReservation(g).open = g.open
           /\ EndReservation(g).signed = g.signed
<1> DEFINE h == Pause(g)
<1>1. h \in GrantState /\ GrantSound(h) /\ h.second = None
      /\ h.open = g.open /\ h.signed = g.signed
  BY PauseSound
<1>2. EndReservation(g) = [h EXCEPT !.reserved = 0]
  BY DEF EndReservation
<1> HIDE DEF h
<1> QED BY <1>1, <1>2, WidthNat DEF GrantState, GrantSound, Remaining

(* A budget taken up from an earlier session is sound, and brings no *)
(* reservation with it.                                              *)
LEMMA RestoreSound ==
    ASSUME NEW g \in GrantState, NEW bud \in Budget, NEW now \in U64
    PROVE  /\ Restore(g, bud, now) \in GrantState
           /\ GrantSound(Restore(g, bud, now))
           /\ Restore(g, bud, now).reserved = 0
           /\ Restore(g, bud, now).open = g.open
           /\ Restore(g, bud, now).signed = g.signed
<1> DEFINE k == BudgetAt(bud, now)
<1>1. k.remaining \in U64 /\ k.deadline \in U64
  BY BudgetType DEF Budget
<1>2. Restore(g, bud, now) =
        [g EXCEPT !.authorized = k.remaining, !.consumed = 0,
                  !.deadline = k.deadline, !.reserved = 0, !.second = None]
  BY DEF Restore
<1> DEFINE h == [g EXCEPT !.authorized = k.remaining, !.consumed = 0,
                          !.deadline = k.deadline, !.reserved = 0, !.second = None]
<1> HIDE DEF k
<1>3. h \in GrantState
  BY <1>1, WidthNat DEF GrantState
<1>4. h.reserved = 0 /\ h.open = g.open /\ h.signed = g.signed
      /\ h.consumed = 0 /\ h.authorized = k.remaining
  BY DEF GrantState
<1> HIDE DEF h
<1>5. GrantSound(h)
  <2>1. k.remaining \in Nat
    BY <1>1, WidthNat
  <2> QED BY <1>4, <2>1 DEF GrantSound
<1> QED BY <1>2, <1>3, <1>4, <1>5 DEF h

(* A new grant is sound. *)
LEMMA NewGrantSound ==
    /\ NewGrant \in GrantState /\ GrantSound(NewGrant)
    /\ NewGrant.reserved = 0 /\ NewGrant.second = None /\ NewGrant.open = {}
BY WidthNat, ChannelAssumption DEF NewGrant, GrantState, GrantSound

(* A session resumed keeps its channels and what was signed on them, and *)
(* nothing of its reservation.                                           *)
LEMMA RestartSound ==
    ASSUME NEW g \in GrantState, GrantSound(g), NEW now \in U64
    PROVE  /\ Restart(g, now) \in GrantState
           /\ GrantSound(Restart(g, now))
           /\ Restart(g, now).reserved = 0
           /\ Restart(g, now).open = g.open
           /\ Restart(g, now).signed = g.signed
<1> DEFINE bud == BudgetOf(Pause(g), now)
           h   == [NewGrant EXCEPT !.open = g.open, !.signed = g.signed]
<1>1. bud \in Budget
  <2>1. NoBudget \in Budget
    BY WidthNat DEF NoBudget, Budget
  <2> QED BY PauseSound, <2>1, BudgetType
<1>2. h \in GrantState /\ h.open = g.open /\ h.signed = g.signed
  BY NewGrantSound DEF GrantState
<1>3. Restart(g, now) = Restore(h, bud, now)
  BY DEF Restart
<1> HIDE DEF bud, h
<1> QED BY <1>1, <1>2, <1>3, RestoreSound
-----------------------------------------------------------------------------
(* A channel newly recognised starts its ratchet at zero; one already *)
(* recognised keeps it.                                               *)
LEMMA OpenChannelSound ==
    ASSUME NEW g \in GrantState, GrantSound(g), NEW c \in Channels
    PROVE  /\ OpenChannel(g, c) \in GrantState
           /\ GrantSound(OpenChannel(g, c))
           /\ OpenChannel(g, c).reserved = g.reserved
           /\ OpenChannel(g, c).second = g.second
           /\ OpenChannel(g, c).open = g.open \cup {c}
           /\ OpenChannel(g, c).signed =
                 IF c \in g.open THEN g.signed ELSE [g.signed EXCEPT ![c] = 0]
<1>1. CASE c \in g.open
  BY <1>1 DEF OpenChannel, GrantState
<1>2. CASE c \notin g.open
  <2>1. 0 \in 0 .. (MAX_VERIFICATION_FAILURES - 1)
    BY ChannelAssumption
  <2>2. /\ g.open \cup {c} \in SUBSET Channels
        /\ [g.signed EXCEPT ![c] = 0] \in [Channels -> U64]
        /\ [g.failures EXCEPT ![c] = 0] \in [Channels -> 0 .. (MAX_VERIFICATION_FAILURES - 1)]
    BY <2>1, WidthNat DEF GrantState
  <2>3. OpenChannel(g, c) = [g EXCEPT !.open = g.open \cup {c},
                                      !.signed = [g.signed EXCEPT ![c] = 0],
                                      !.failures = [g.failures EXCEPT ![c] = 0]]
    BY <1>2 DEF OpenChannel, GrantState
  <2> QED BY <1>2, <2>2, <2>3 DEF GrantState, GrantSound, Remaining
<1> QED BY <1>1, <1>2

(* Closing channels forgets them and nothing else. *)
LEMMA CloseChannelsSound ==
    ASSUME NEW g \in GrantState, GrantSound(g), NEW cs \in SUBSET Channels
    PROVE  /\ CloseChannels(g, cs) \in GrantState
           /\ GrantSound(CloseChannels(g, cs))
           /\ CloseChannels(g, cs).reserved = g.reserved
           /\ CloseChannels(g, cs).second = g.second
           /\ CloseChannels(g, cs).open = g.open \ cs
           /\ \A c \in g.open \ cs : CloseChannels(g, cs).signed[c] = g.signed[c]
<1> DEFINE signed   == [c \in Channels |-> IF c \in cs THEN 0 ELSE g.signed[c]]
           failures == [c \in Channels |-> IF c \in cs THEN 0 ELSE g.failures[c]]
<1>1. 0 \in 0 .. (MAX_VERIFICATION_FAILURES - 1)
  BY ChannelAssumption
<1>2. /\ g.open \ cs \in SUBSET Channels
      /\ signed \in [Channels -> U64]
      /\ failures \in [Channels -> 0 .. (MAX_VERIFICATION_FAILURES - 1)]
  BY <1>1, WidthNat DEF GrantState
<1>3. CloseChannels(g, cs) = [g EXCEPT !.open = g.open \ cs, !.signed = signed,
                                       !.failures = failures]
  BY DEF CloseChannels, GrantState
<1>4. \A c \in g.open \ cs : signed[c] = g.signed[c]
  BY DEF GrantState
<1> HIDE DEF signed, failures
<1> QED BY <1>2, <1>3, <1>4 DEF GrantState, GrantSound, Remaining

(* Counting failures changes no budget and no ratchet, and never reaches the *)
(* limit on a channel that stays open.                                       *)
LEMMA RecordFailuresSound ==
    ASSUME NEW g \in GrantState, GrantSound(g), NEW cs \in SUBSET Channels
    PROVE  /\ RecordFailures(g, cs) \in GrantState
           /\ GrantSound(RecordFailures(g, cs))
           /\ RecordFailures(g, cs).reserved = g.reserved
           /\ RecordFailures(g, cs).second = g.second
           /\ RecordFailures(g, cs).open = g.open
           /\ RecordFailures(g, cs).signed = g.signed
<1> DEFINE failures == [c \in Channels |->
                IF c \in (cs \cap g.open) \ FailedChannels(g, cs)
                THEN g.failures[c] + 1 ELSE g.failures[c]]
<1>1. failures \in [Channels -> 0 .. (MAX_VERIFICATION_FAILURES - 1)]
  <2> SUFFICES ASSUME NEW c \in Channels
               PROVE  failures[c] \in 0 .. (MAX_VERIFICATION_FAILURES - 1)
    OBVIOUS
  <2>1. g.failures[c] \in 0 .. (MAX_VERIFICATION_FAILURES - 1)
    BY DEF GrantState
  <2>2. c \in (cs \cap g.open) \ FailedChannels(g, cs) =>
            ~(g.failures[c] + 1 >= MAX_VERIFICATION_FAILURES)
    BY DEF FailedChannels
  <2> QED BY <2>1, <2>2, ChannelAssumption
<1>2. RecordFailures(g, cs) = [g EXCEPT !.open = g.open, !.signed = g.signed,
                                        !.failures = failures]
  BY DEF RecordFailures, GrantState
<1>3. g.open \in SUBSET Channels /\ g.signed \in [Channels -> U64]
  BY DEF GrantState
<1> HIDE DEF failures
<1> QED BY <1>1, <1>2, <1>3 DEF GrantState, GrantSound, Remaining
-----------------------------------------------------------------------------
(* An accepted purchase has updates, none of them at fault, and reserves no *)
(* more than before or than there is to reserve (evaluate_topup).           *)
LEMMA AcceptedFaultless ==
    ASSUME NEW g, NEW available, NEW us, NEW window, NEW rate,
           Verdict(g, available, us, window, rate) = "Accept"
    PROVE  /\ DOMAIN us # {} /\ Faulty(g, us) = {}
           /\ ~(rate > g.reserved /\ rate > available)
<1>1. DOMAIN us # {}
  BY DEF Verdict
<1>2. ASSUME Faulty(g, us) # {} PROVE FALSE
  <2> DEFINE i == CHOOSE i \in Faulty(g, us) : \A j \in Faulty(g, us) : i <= j
  <2>1. Fault(g, us, i) = "Accept"
    BY <1>1, <1>2 DEF Verdict
  <2>2. Fault(g, us, i) # "Accept"
    BY DEF Fault
  <2> QED BY <2>1, <2>2
<1> QED BY <1>1, <1>2 DEF Verdict

(* An accepted purchase names channels we recognise, and ratchets each of *)
(* them within its capacity (evaluate_topup).                             *)
LEMMA AcceptedUpdates ==
    ASSUME NEW g \in GrantState, NEW available, NEW us \in Updates,
           NEW window, NEW rate,
           Verdict(g, available, us, window, rate) = "Accept"
    PROVE  /\ 1 \in DOMAIN us
           /\ \A i \in DOMAIN us :
                /\ us[i] \in Update
                /\ us[i].channel \in g.open
                /\ us[i].cumulative > g.signed[us[i].channel]
                /\ ~(us[i].cumulative > Capacity[us[i].channel])
<1>1. PICK n \in 0 .. MAX_UPDATES : us \in [1 .. n -> Update]
  BY DEF Updates
<1>2. DOMAIN us # {} /\ Faulty(g, us) = {}
  BY AcceptedFaultless
<1>3. 1 \in DOMAIN us
  BY <1>1, <1>2 DEF MAX_UPDATES
<1>4. ASSUME NEW i \in DOMAIN us
      PROVE  /\ us[i] \in Update
             /\ us[i].channel \in g.open
             /\ us[i].cumulative > g.signed[us[i].channel]
             /\ ~(us[i].cumulative > Capacity[us[i].channel])
  <2>1. Fault(g, us, i) = "None"
    BY <1>2 DEF Faulty
  <2>2. us[i] \in Update
    BY <1>1
  <2>3. us[i].channel \in g.open
    BY <2>1 DEF Fault
  <2>4. us[i].cumulative \in Nat /\ g.signed[us[i].channel] \in Nat
    BY <2>2, <2>3, WidthNat DEF Update, GrantState
  <2>5. ~(us[i].cumulative <= g.signed[us[i].channel])
    BY <2>1, <2>3 DEF Fault
  <2>6. ~(us[i].cumulative > Capacity[us[i].channel])
    BY <2>1, <2>3, <2>5 DEF Fault
  <2> QED BY <2>2, <2>3, <2>4, <2>5, <2>6
<1> QED BY <1>3, <1>4

(* It names each channel once, so the total it takes a channel to is the one *)
(* it says.                                                                  *)
LEMMA AcceptedApart ==
    ASSUME NEW g \in GrantState, NEW available, NEW us \in Updates,
           NEW window, NEW rate,
           Verdict(g, available, us, window, rate) = "Accept"
    PROVE  /\ DOMAIN us = {1} \/ (DOMAIN us = {1, 2} /\ us[1].channel # us[2].channel)
           /\ \A i \in DOMAIN us : TotalOn(us, us[i].channel) = us[i].cumulative
<1>1. PICK n \in 0 .. MAX_UPDATES : us \in [1 .. n -> Update]
  BY DEF Updates
<1>2. DOMAIN us # {} /\ Faulty(g, us) = {}
  BY AcceptedFaultless
<1>3. DOMAIN us = {1} \/ DOMAIN us = {1, 2}
  <2>1. DOMAIN us = 1 .. n /\ n \in 0 .. 2
    BY <1>1 DEF MAX_UPDATES
  <2>2. n = 1 \/ n = 2
    BY <1>2, <2>1
  <2> QED BY <2>1, <2>2
<1>4. 2 \in DOMAIN us => us[1].channel # us[2].channel
  <2> SUFFICES ASSUME 2 \in DOMAIN us, us[1].channel = us[2].channel PROVE FALSE
    OBVIOUS
  <2>1. Fault(g, us, 2) # "None"
    <3>1. 1 \in 1 .. (2 - 1)
      OBVIOUS
    <3> QED BY <3>1 DEF Fault
  <2> QED BY <1>2, <2>1 DEF Faulty
<1>5. ASSUME NEW i \in DOMAIN us, NEW j \in DOMAIN us, us[j].channel = us[i].channel
      PROVE  j = i
  BY <1>3, <1>4, <1>5
<1>6. ASSUME NEW i \in DOMAIN us
      PROVE  TotalOn(us, us[i].channel) = us[i].cumulative
  <2> DEFINE k == CHOOSE j \in DOMAIN us : us[j].channel = us[i].channel
  <2>1. k \in DOMAIN us /\ us[k].channel = us[i].channel
    OBVIOUS
  <2>2. TotalOn(us, us[i].channel) = us[k].cumulative
    BY DEF TotalOn
  <2> HIDE DEF k
  <2> QED BY <1>5, <2>1, <2>2
<1> QED BY <1>3, <1>4, <1>6

(* What an accepted purchase buys is at least one unit. *)
LEMMA IncreaseType ==
    ASSUME NEW g \in GrantState, NEW available, NEW us \in Updates,
           NEW window, NEW rate,
           Verdict(g, available, us, window, rate) = "Accept"
    PROVE  Increase(g, us) \in Nat /\ Increase(g, us) > 0
<1> DEFINE inc(i) == us[i].cumulative - g.signed[us[i].channel]
<1>1. ASSUME NEW i \in DOMAIN us
      PROVE  inc(i) \in Nat /\ inc(i) > 0
  <2>1. /\ us[i] \in Update /\ us[i].channel \in g.open
        /\ us[i].cumulative > g.signed[us[i].channel]
    BY AcceptedUpdates
  <2>2. us[i].cumulative \in Nat /\ g.signed[us[i].channel] \in Nat
    BY <2>1, WidthNat DEF Update, GrantState
  <2> QED BY <2>1, <2>2
<1>2. 1 \in DOMAIN us
  BY AcceptedUpdates
<1>3. Increase(g, us) = IF 2 \in DOMAIN us THEN SatAdd(inc(1), inc(2)) ELSE inc(1)
  BY DEF Increase
<1> HIDE DEF inc
<1> QED BY <1>1, <1>2, <1>3, WidthAssumption DEF SatAdd, Least

(* An accepted purchase takes each channel it names to a total within its *)
(* capacity.                                                              *)
LEMMA TotalType ==
    ASSUME NEW g \in GrantState, NEW available, NEW us \in Updates,
           NEW window, NEW rate, NEW c \in Named(us),
           Verdict(g, available, us, window, rate) = "Accept"
    PROVE  /\ c \in g.open /\ c \in Channels
           /\ TotalOn(us, c) \in U64 /\ TotalOn(us, c) <= Capacity[c]
<1> DEFINE i == CHOOSE i \in DOMAIN us : us[i].channel = c
<1>1. i \in DOMAIN us /\ us[i].channel = c
  BY DEF Named
<1>2. TotalOn(us, c) = us[i].cumulative
  BY DEF TotalOn
<1> HIDE DEF i
<1>3. /\ us[i] \in Update /\ us[i].channel \in g.open
      /\ ~(us[i].cumulative > Capacity[us[i].channel])
  BY <1>1, AcceptedUpdates
<1>4. c \in Channels /\ us[i].cumulative \in U64 /\ Capacity[c] \in U64
  BY <1>1, <1>3, ChannelAssumption DEF Update
<1> QED BY <1>1, <1>2, <1>3, <1>4, WidthNat DEF U64

(* An accepted purchase leaves a sound grant; it adds to the budget and turns *)
(* the ratchet of the channels it names, and of no other.                     *)
LEMMA ApplySound ==
    ASSUME NEW g \in GrantState, GrantSound(g), NEW available, NEW us \in Updates,
           NEW window \in U64, NEW rate \in U64, NEW now \in U64,
           Verdict(g, available, us, window, rate) = "Accept"
    PROVE  /\ Apply(g, us, window, rate, now) \in GrantState
           /\ GrantSound(Apply(g, us, window, rate, now))
           /\ Apply(g, us, window, rate, now).open = g.open
           /\ \A c \in Channels : Apply(g, us, window, rate, now).signed[c] =
                 IF c \in Named(us) THEN TotalOn(us, c) ELSE g.signed[c]
<1> DEFINE named     == Named(us)
           signed    == [c \in Channels |->
                            IF c \in named THEN TotalOn(us, c) ELSE g.signed[c]]
           failures  == [c \in Channels |-> IF c \in named THEN 0 ELSE g.failures[c]]
           ratcheted == [g EXCEPT !.signed = signed, !.failures = failures]
           unexpired == ExpireIfDue(ratcheted, now)
           owed      == OwedByClose(unexpired.second, now, unexpired.reserved)
           split     == IF rate # unexpired.reserved /\ unexpired.second # None
                        THEN Take([unexpired EXCEPT !.second = None], owed)
                        ELSE unexpired
           second    == IF split.second = None THEN SecondStarting(now) ELSE split.second
           bought    == SatAdd(split.authorized, Increase(g, us))
           deadline  == Greatest(split.deadline, SatAdd(now, window))
<1>1. /\ signed \in [Channels -> U64]
      /\ \A c \in Channels : signed[c] =
            IF c \in named THEN TotalOn(us, c) ELSE g.signed[c]
  <2>1. ASSUME NEW c \in Channels, c \in named
        PROVE  signed[c] \in U64
    BY <2>1, TotalType
  <2>2. ASSUME NEW c \in Channels, c \notin named
        PROVE  signed[c] \in U64
    BY <2>2 DEF GrantState
  <2> QED BY <2>1, <2>2
<1>2. failures \in [Channels -> 0 .. (MAX_VERIFICATION_FAILURES - 1)]
  <2>1. 0 \in 0 .. (MAX_VERIFICATION_FAILURES - 1)
    BY ChannelAssumption
  <2> QED BY <2>1 DEF GrantState
<1>3. Apply(g, us, window, rate, now) =
        [split EXCEPT !.authorized = bought, !.deadline = deadline,
                      !.reserved = rate, !.second = second]
  BY DEF Apply
<1>4. Increase(g, us) \in Nat /\ Increase(g, us) > 0
  BY IncreaseType
<1> HIDE DEF signed, failures
<1>5. /\ ratcheted \in GrantState /\ GrantSound(ratcheted)
      /\ ratcheted.open = g.open /\ ratcheted.signed = signed
  BY <1>1, <1>2 DEF GrantState, GrantSound, Remaining
<1> HIDE DEF ratcheted
<1>6. /\ unexpired \in GrantState /\ GrantSound(unexpired)
      /\ unexpired.open = g.open /\ unexpired.signed = signed
  BY <1>5, ExpireSound
<1> HIDE DEF unexpired
<1>7. /\ split \in GrantState /\ GrantSound(split)
      /\ split.open = g.open /\ split.signed = signed
  <2>1. CASE rate # unexpired.reserved /\ unexpired.second # None
    <3> DEFINE h == [unexpired EXCEPT !.second = None]
    <3>1. owed \in Nat
      <4>1. unexpired.second \in Second /\ unexpired.reserved \in U64
        BY <1>6, <2>1 DEF GrantState
      <4> QED BY <4>1, CloseType
    <3>2. /\ h \in GrantState /\ GrantSound(h)
          /\ h.open = g.open /\ h.signed = signed
      BY <1>6 DEF GrantState, GrantSound, Remaining
    <3> HIDE DEF h, owed
    <3>3. split = Take(h, owed)
      BY <2>1 DEF h
    <3> HIDE DEF split
    <3> QED BY <3>1, <3>2, <3>3, TakeSound
  <2>2. CASE ~(rate # unexpired.reserved /\ unexpired.second # None)
    BY <1>6, <2>2
  <2> QED BY <2>1, <2>2
<1> HIDE DEF split
<1>8. second \in Second
  <2>1. split.second \in Second \cup {None}
    BY <1>7 DEF GrantState
  <2> QED BY <2>1, StartingType
<1>9. /\ split.authorized \in Nat /\ split.consumed \in Nat
      /\ split.consumed <= split.authorized /\ split.authorized <= U64_MAX
  BY <1>7 DEF GrantState, GrantSound, U64
<1>10. /\ bought \in U64
       /\ bought > split.consumed \/ bought = U64_MAX
       /\ split.consumed <= bought
  BY <1>4, <1>9, WidthAssumption DEF SatAdd, Least, U64
<1>11. deadline \in U64
  <2>1. SatAdd(now, window) \in U64
    BY SaturationType, WidthNat
  <2>2. split.deadline \in U64
    BY <1>7 DEF GrantState
  <2> QED BY <2>1, <2>2 DEF Greatest
<1> HIDE DEF bought, deadline, second
<1> DEFINE h == [split EXCEPT !.authorized = bought, !.deadline = deadline,
                              !.reserved = rate, !.second = second]
<1>12. h \in GrantState
  BY <1>7, <1>8, <1>10, <1>11 DEF GrantState
<1>13. /\ h.open = g.open /\ h.signed = signed
       /\ h.authorized = bought /\ h.consumed = split.consumed
  BY <1>7 DEF GrantState
<1> HIDE DEF h
<1>14. GrantSound(h)
  <2>1. bought \in Nat
    BY <1>10, WidthNat
  <2>2. Remaining(h) > 0 \/ h.authorized = U64_MAX
    BY <1>9, <1>10, <1>13, <2>1 DEF Remaining, SatSub
  <2> QED BY <1>10, <1>13, <2>2 DEF GrantSound
<1> HIDE DEF named
<1> QED BY <1>1, <1>3, <1>12, <1>13, <1>14 DEF h, named

(* The shaping rate is a rate. *)
LEMMA ShapingRateType ==
    ASSUME NEW g \in GrantState, NEW now \in U64
    PROVE  ShapingRate(g, now) \in U64
<1> DEFINE ceiling == per_tick_ceiling(Remaining(g), TICK)
           speed   == IF g.reserved > 0 THEN Greatest(g.reserved, BURST) ELSE UnreservedSpeed
           c       == rate_from(Remaining(g), Greatest(TICK, 1))
<1>1. c \in U64
  <2>1. Greatest(TICK, 1) \in Nat \ {0}
    BY PolicyAssumption, WidthNat DEF Greatest
  <2>2. Remaining(g) * SECOND_MS \in Nat
    <3>1. Remaining(g) \in Nat /\ SECOND_MS \in Nat
      BY RemainingType, WidthNat, SecondAssumption
    <3> HIDE DEF c
    <3> QED BY <3>1
  <2>3. (Remaining(g) * SECOND_MS) \div Greatest(TICK, 1) \in Nat
    BY <2>1, <2>2
  <2> QED BY <2>1, <2>3, WidthAssumption DEF rate_from, Least, U64
<1>2. ceiling = PowerOfTwoBelow(c)
  BY DEF per_tick_ceiling
<1> HIDE DEF c, ceiling
<1>3. ceiling \in Nat
  <2>1. CASE c = 0
    BY <1>2, <2>1 DEF PowerOfTwoBelow
  <2>2. CASE c # 0
    <3> DEFINE k == CHOOSE k \in 0 .. c : 2^k \in 1 .. c /\ c < 2^(k + 1)
    <3>1. c \in 1 .. U64_MAX
      BY <1>1, <2>2, WidthAssumption DEF U64
    <3>2. 2^k \in 1 .. c
      BY <3>1, LeadingBitAssumption
    <3>3. ceiling = 2^k
      BY <1>2, <2>2 DEF PowerOfTwoBelow
    <3> HIDE DEF k
    <3> QED BY <3>1, <3>2, <3>3
  <2> QED BY <2>1, <2>2
<1>4. speed \in U64
  <2>1. g.reserved \in U64
    BY DEF GrantState
  <2> QED BY <2>1, PolicyAssumption, WidthNat DEF Greatest, UnreservedSpeed
<1>5. ShapingRate(g, now) = IF ~IsLive(g, now) THEN MINIMUM_FLOW
                            ELSE Greatest(Least(speed, ceiling), MINIMUM_FLOW)
  BY DEF ShapingRate, ceiling
<1> HIDE DEF speed
<1> QED BY <1>3, <1>4, <1>5, PolicyAssumption, WidthAssumption DEF Least, Greatest, U64

-----------------------------------------------------------------------------
(* What each operator does to the budget. *)

\* h has no more left than g, for no longer, and reserves what g did or nothing.
Dwindles(g, h) ==
    /\ Remaining(h) <= Remaining(g)
    /\ h.deadline <= g.deadline
    /\ h.reserved = 0 \/ h.reserved = g.reserved

(* Dwindling is transitive. *)
LEMMA DwindlesOn ==
    ASSUME NEW g \in GrantState, NEW h \in GrantState, NEW k \in GrantState,
           Dwindles(g, h), Dwindles(h, k)
    PROVE  Dwindles(g, k)
<1>1. /\ Remaining(g) \in Nat /\ Remaining(h) \in Nat /\ Remaining(k) \in Nat
      /\ g.deadline \in Nat /\ h.deadline \in Nat /\ k.deadline \in Nat
  BY RemainingType, WidthNat DEF GrantState
<1> QED BY <1>1 DEF Dwindles

(* A grant whose budget is left alone. *)
LEMMA DwindlesSame ==
    ASSUME NEW g \in GrantState, NEW h \in GrantState,
           h.authorized = g.authorized, h.consumed = g.consumed,
           h.deadline = g.deadline, h.reserved = 0 \/ h.reserved = g.reserved
    PROVE  Dwindles(g, h) /\ Remaining(h) = Remaining(g)
<1>1. Remaining(g) \in Nat /\ g.deadline \in Nat
  BY RemainingType, WidthNat DEF GrantState
<1>2. Remaining(h) = Remaining(g)
  BY DEF Remaining
<1> QED BY <1>1, <1>2 DEF Dwindles

(* take draws what is owed, down to nothing left. *)
LEMMA TakeDraws ==
    ASSUME NEW g \in GrantState, NEW owed \in Nat, GrantSound(g)
    PROVE  /\ Remaining(Take(g, owed)) = SatSub(Remaining(g), owed)
           /\ Dwindles(g, Take(g, owed))
           /\ Take(g, owed).authorized = g.authorized
           /\ Take(g, owed).deadline = g.deadline
<1> DEFINE drawn == Least(owed, Remaining(g))
           taken == [g EXCEPT !.consumed = SatAdd(@, drawn)]
<1>1. /\ g.authorized \in Nat /\ g.consumed \in Nat /\ g.reserved \in Nat
      /\ g.deadline \in Nat /\ g.consumed <= g.authorized /\ g.authorized <= U64_MAX
      /\ U64_MAX \in Nat
  BY WidthAssumption DEF GrantState, U64, GrantSound
<1>2. Remaining(g) = g.authorized - g.consumed
  BY <1>1 DEF Remaining, SatSub
<1>3. drawn \in Nat /\ drawn <= Remaining(g) /\ SatAdd(g.consumed, drawn) = g.consumed + drawn
  BY <1>1, <1>2 DEF SatAdd, Least
<1>4. Remaining(g) - drawn = SatSub(Remaining(g), owed)
  BY <1>1, <1>2 DEF Least, SatSub
<1> HIDE DEF drawn
<1>5. /\ taken.authorized = g.authorized /\ taken.consumed = g.consumed + drawn
      /\ taken.deadline = g.deadline /\ taken.reserved = g.reserved
  BY <1>3 DEF GrantState
<1>6. Remaining(taken) = SatSub(Remaining(g), owed)
  <2>1. Remaining(taken) = g.authorized - (g.consumed + drawn)
    BY <1>1, <1>2, <1>3, <1>5 DEF Remaining, SatSub
  <2> QED BY <1>1, <1>2, <1>3, <1>4, <2>1
<1>7. Take(g, owed) = IF Remaining(taken) = 0 THEN [taken EXCEPT !.reserved = 0] ELSE taken
  BY DEF Take, drawn
<1>8. /\ Take(g, owed).authorized = g.authorized /\ Take(g, owed).consumed = g.consumed + drawn
      /\ Take(g, owed).deadline = g.deadline
      /\ Take(g, owed).reserved = 0 \/ Take(g, owed).reserved = g.reserved
  BY <1>5, <1>7 DEF GrantState
<1>9. Remaining(Take(g, owed)) = Remaining(taken)
  BY <1>5, <1>8 DEF Remaining
<1>10. SatSub(Remaining(g), owed) <= Remaining(g)
  BY <1>1, <1>2 DEF SatSub
<1> QED BY <1>1, <1>6, <1>8, <1>9, <1>10 DEF Dwindles

(* pause draws the part of the second up to the last reading. *)
LEMMA PauseDraws ==
    ASSUME NEW g \in GrantState, GrantSound(g)
    PROVE  /\ Dwindles(g, Pause(g))
           /\ Remaining(Pause(g)) = SatSub(Remaining(g),
                IF g.second = None THEN 0
                ELSE OwedByClose(g.second, g.second.at, g.reserved))
           /\ Pause(g).authorized = g.authorized
           /\ Pause(g).deadline = g.deadline
<1>1. CASE g.second = None
  <2>1. Remaining(g) \in Nat /\ Pause(g) = g
    BY <1>1, RemainingType, WidthNat DEF Pause
  <2> QED BY <1>1, <2>1, DwindlesSame DEF SatSub
<1>2. CASE g.second # None
  <2> DEFINE h == [g EXCEPT !.second = None]
             owed == OwedByClose(g.second, g.second.at, g.reserved)
  <2>1. /\ h \in GrantState /\ h.authorized = g.authorized /\ h.consumed = g.consumed
        /\ h.deadline = g.deadline /\ h.reserved = g.reserved
    BY DEF GrantState
  <2>2. GrantSound(h) /\ Remaining(h) = Remaining(g)
    BY DEF GrantSound, Remaining, GrantState
  <2>3. owed \in Nat
    <3>1. g.second \in Second /\ g.second.at \in U64 /\ g.reserved \in U64
      BY <1>2 DEF GrantState, Second
    <3> QED BY <3>1, CloseType
  <2>4. Pause(g) = Take(h, owed)
    BY <1>2 DEF Pause
  <2> HIDE DEF h, owed
  <2>5. /\ Dwindles(h, Take(h, owed)) /\ Remaining(Take(h, owed)) = SatSub(Remaining(g), owed)
        /\ Take(h, owed).authorized = g.authorized /\ Take(h, owed).deadline = g.deadline
    BY <2>1, <2>2, <2>3, TakeDraws
  <2>6. Dwindles(g, Pause(g))
    BY <2>1, <2>2, <2>4, <2>5 DEF Dwindles
  <2> QED BY <1>2, <2>4, <2>5, <2>6 DEF owed
<1> QED BY <1>1, <1>2

(* A reading draws. *)
LEMMA DrawDraws ==
    ASSUME NEW g \in GrantState, GrantSound(g), NEW moved \in U64, NEW now \in U64
    PROVE  /\ Dwindles(g, Draw(g, moved, now))
           /\ Remaining(Draw(g, moved, now)) = SatSub(Remaining(g),
                IF g.second = None THEN moved
                ELSE OwedByRead(g.second, moved, now, g.reserved))
           /\ Draw(g, moved, now).deadline = g.deadline
<1>0. moved \in Nat /\ g.reserved \in U64
  BY WidthNat DEF GrantState
<1>1. ASSUME NEW sec \in Second, NEW owed \in Nat
      PROVE  LET h == Take([g EXCEPT !.second = sec], owed) IN
             /\ Dwindles(g, h) /\ Remaining(h) = SatSub(Remaining(g), owed)
             /\ h.deadline = g.deadline
  <2> DEFINE h == [g EXCEPT !.second = sec]
  <2>1. /\ h \in GrantState /\ h.deadline = g.deadline /\ h.reserved = g.reserved
    BY DEF GrantState
  <2>2. GrantSound(h) /\ Remaining(h) = Remaining(g)
    BY DEF GrantSound, Remaining, GrantState
  <2> HIDE DEF h
  <2>3. /\ Dwindles(h, Take(h, owed)) /\ Remaining(Take(h, owed)) = SatSub(Remaining(g), owed)
        /\ Take(h, owed).deadline = g.deadline
    BY <2>1, <2>2, TakeDraws
  <2>4. Dwindles(g, Take(h, owed))
    BY <2>1, <2>2, <2>3 DEF Dwindles
  <2> QED BY <2>3, <2>4 DEF h
<1>2. CASE g.second = None
  <2>1. SecondAfterRead(SecondStarting(now), moved, now) \in Second
    BY <1>0, StartingType, ReadType
  <2> QED BY <1>0, <1>1, <1>2, <2>1 DEF Draw
<1>3. CASE g.second # None
  <2>1. g.second \in Second
    BY <1>3 DEF GrantState
  <2>2. /\ SecondAfterRead(g.second, moved, now) \in Second
        /\ OwedByRead(g.second, moved, now, g.reserved) \in Nat
    BY <1>0, <2>1, ReadType
  <2>3. Draw(g, moved, now) = Take([g EXCEPT !.second = SecondAfterRead(g.second, moved, now)],
                                   OwedByRead(g.second, moved, now, g.reserved))
    BY <1>3 DEF Draw
  <2> QED BY <1>1, <1>3, <2>2, <2>3
<1> QED BY <1>2, <1>3

(* Expiry draws all there is, once it is due. *)
LEMMA ExpireDraws ==
    ASSUME NEW g \in GrantState, GrantSound(g), NEW now \in U64
    PROVE  /\ Dwindles(g, ExpireIfDue(g, now))
           /\ Remaining(ExpireIfDue(g, now)) = IF now < g.deadline THEN Remaining(g) ELSE 0
           /\ ExpireIfDue(g, now).deadline = g.deadline
           /\ ExpireIfDue(g, now).authorized = g.authorized
<1>1. /\ g.consumed \in Nat /\ g.authorized \in Nat /\ g.consumed <= g.authorized
      /\ Remaining(g) \in Nat /\ g.deadline \in Nat
  BY RemainingType, WidthNat DEF GrantState, GrantSound
<1>2. CASE now < g.deadline
  BY <1>1, <1>2, DwindlesSame DEF ExpireIfDue
<1>3. CASE ~(now < g.deadline)
  <2> DEFINE h == ExpireIfDue(g, now)
  <2>1. Greatest(g.consumed, g.authorized) = g.authorized
    BY <1>1 DEF Greatest
  <2>2. /\ h.authorized = g.authorized /\ h.consumed = g.authorized
        /\ h.deadline = g.deadline /\ h.reserved = 0
    BY <1>3, <2>1 DEF ExpireIfDue, GrantState
  <2> HIDE DEF h
  <2>3. Remaining(h) = 0
    BY <1>1, <2>2 DEF Remaining, SatSub
  <2> QED BY <1>1, <1>3, <2>2, <2>3 DEF Dwindles, h
<1> QED BY <1>2, <1>3

(* What a session that ends holds. *)
LEMMA EndReservationDraws ==
    ASSUME NEW g \in GrantState, GrantSound(g)
    PROVE  /\ Dwindles(g, EndReservation(g))
           /\ Remaining(EndReservation(g)) = Remaining(Pause(g))
           /\ EndReservation(g).deadline = g.deadline
           /\ EndReservation(g).authorized = g.authorized
<1> DEFINE h == Pause(g)
           k == [h EXCEPT !.reserved = 0]
<1>1. /\ h \in GrantState /\ GrantSound(h) /\ Dwindles(g, h) /\ h.deadline = g.deadline
      /\ h.authorized = g.authorized
  BY PauseSound, PauseDraws
<1>2. EndReservation(g) = k
  BY DEF EndReservation
<1> HIDE DEF h
<1>3. /\ k \in GrantState /\ k.authorized = h.authorized /\ k.consumed = h.consumed
      /\ k.deadline = h.deadline /\ k.reserved = 0
  BY <1>1, WidthNat DEF GrantState
<1> HIDE DEF k
<1>4. Dwindles(h, k) /\ Remaining(k) = Remaining(h)
  BY <1>1, <1>3, DwindlesSame
<1>5. Dwindles(g, k)
  BY <1>1, <1>3, <1>4, DwindlesOn
<1> QED BY <1>1, <1>2, <1>3, <1>4, <1>5 DEF h

(* A budget taken up again is what is left of it, for as long as it was for. *)
LEMMA RestoreHolds ==
    ASSUME NEW g \in GrantState, NEW bud \in Budget, NEW now \in U64
    PROVE  /\ Remaining(Restore(g, bud, now)) = BudgetAt(bud, now).remaining
           /\ Restore(g, bud, now).deadline = BudgetAt(bud, now).deadline
           /\ BudgetOf(Restore(g, bud, now), now) = BudgetAt(bud, now)
           /\ Restore(g, bud, now).authorized = BudgetAt(bud, now).remaining
<1> DEFINE k == BudgetAt(bud, now)
           h == Restore(g, bud, now)
<1>1. k \in Budget /\ k.remaining \in Nat /\ k.deadline \in Nat
  BY BudgetType, WidthNat DEF Budget
<1>2. BudgetAt(k, now) = k
  BY DEF BudgetAt, NoBudget
<1>3. h.authorized = k.remaining /\ h.consumed = 0 /\ h.deadline = k.deadline
  BY DEF Restore, GrantState
<1> HIDE DEF k, h
<1>4. Remaining(h) = k.remaining
  BY <1>1, <1>3 DEF Remaining, SatSub
<1>5. [remaining |-> Remaining(h), deadline |-> h.deadline] = k
  BY <1>1, <1>3, <1>4 DEF Budget
<1>6. BudgetOf(h, now) = k
  BY <1>2, <1>5 DEF BudgetOf
<1> QED BY <1>3, <1>4, <1>6 DEF k, h

(* A live budget is held whole, another not at all. *)
LEMMA BudgetOfIs ==
    ASSUME NEW g \in GrantState, NEW now \in U64
    PROVE  /\ BudgetOf(g, now).remaining = IF IsLive(g, now) THEN Remaining(g) ELSE 0
           /\ BudgetOf(g, now).deadline = IF IsLive(g, now) THEN g.deadline ELSE 0
           /\ ~IsLive(g, now) => BudgetOf(g, now) = NoBudget
<1>1. Remaining(g) \in Nat /\ g.deadline \in Nat /\ now \in Nat
  BY RemainingType, WidthNat DEF GrantState
<1> QED BY <1>1 DEF BudgetOf, BudgetAt, NoBudget, IsLive

(* A dwindled budget is held for no more. *)
LEMMA BudgetDwindles ==
    ASSUME NEW g \in GrantState, NEW h \in GrantState, NEW now \in U64, Dwindles(g, h)
    PROVE  /\ BudgetOf(h, now).remaining <= BudgetOf(g, now).remaining
           /\ BudgetOf(h, now).deadline <= BudgetOf(g, now).deadline
<1>1. /\ Remaining(g) \in Nat /\ g.deadline \in Nat /\ now \in Nat
      /\ Remaining(h) \in Nat /\ h.deadline \in Nat
  BY RemainingType, WidthNat DEF GrantState
<1>2. IsLive(h, now) => IsLive(g, now)
  BY <1>1 DEF IsLive, Dwindles
<1> QED BY <1>1, <1>2, BudgetOfIs DEF Dwindles

(* A session resumed holds what the last one did, less the part second. *)
LEMMA RestartDraws ==
    ASSUME NEW g \in GrantState, GrantSound(g), NEW now \in U64
    PROVE  /\ Dwindles(g, Restart(g, now))
           /\ BudgetOf(Restart(g, now), now) = BudgetOf(Pause(g), now)
           /\ Restart(g, now).authorized = BudgetOf(Pause(g), now).remaining
<1> DEFINE p   == Pause(g)
           bud == BudgetOf(p, now)
           h   == [NewGrant EXCEPT !.open = g.open, !.signed = g.signed]
           r   == Restart(g, now)
<1>1. p \in GrantState /\ Dwindles(g, p)
  BY PauseSound, PauseDraws
<1>2. h \in GrantState
  BY NewGrantSound DEF GrantState
<1>3. r = Restore(h, bud, now)
  BY DEF Restart
<1>r. r \in GrantState /\ r.reserved = 0
  BY RestartSound
<1> HIDE DEF p, h, r
<1>4. bud \in Budget /\ BudgetAt(bud, now) = bud
  <2>1. NoBudget \in Budget
    BY WidthNat DEF NoBudget, Budget
  <2>2. bud \in Budget
    BY <1>1, <2>1, BudgetType
  <2>3. BudgetAt(bud, now) = bud
    BY DEF BudgetOf, BudgetAt, NoBudget
  <2> QED BY <2>2, <2>3
<1>5. Remaining(r) = bud.remaining /\ r.deadline = bud.deadline /\ BudgetOf(r, now) = bud
      /\ r.authorized = bud.remaining
  <2> HIDE DEF bud
  <2> QED BY <1>2, <1>3, <1>4, RestoreHolds
<1>6. bud.remaining <= Remaining(p) /\ bud.deadline <= p.deadline
  <2>1. Remaining(p) \in Nat /\ p.deadline \in Nat
    BY <1>1, RemainingType, WidthNat DEF GrantState
  <2> QED BY <1>1, <2>1, BudgetOfIs
<1>7. Dwindles(p, r)
  BY <1>r, <1>5, <1>6 DEF Dwindles
<1>8. Dwindles(g, r)
  BY <1>r, <1>1, <1>7, DwindlesOn
<1> QED BY <1>5, <1>8 DEF r, p

\* What the second being drawn still owes at `now`, beyond what moved in it.
OwedAt(g, now) ==
    IF g.second = None THEN 0 ELSE OwedByClose(g.second, now, g.reserved)

(* A purchase adds what it bought to what was left, less at most what the     *)
(* second it splits owed; it gives the whole of it unless the count saturates. *)
LEMMA ApplyAdds ==
    ASSUME NEW g \in GrantState, GrantSound(g), NEW available, NEW us \in Updates,
           NEW window \in U64, NEW rate \in U64, NEW now \in U64,
           Verdict(g, available, us, window, rate) = "Accept",
           NEW h, h = Apply(g, us, window, rate, now)
    PROVE  /\ h.reserved = rate
           /\ h.deadline >= SatAdd(now, window)
           /\ h.authorized = SatAdd(g.authorized, Increase(g, us))
           /\ Remaining(h) <= BudgetOf(g, now).remaining + Increase(g, us)
           /\ g.authorized + Increase(g, us) <= U64_MAX =>
                BudgetOf(g, now).remaining + Increase(g, us) <= Remaining(h) + OwedAt(g, now)
<1> DEFINE named     == Named(us)
           signed    == [c \in Channels |->
                            IF c \in named THEN TotalOn(us, c) ELSE g.signed[c]]
           failures  == [c \in Channels |-> IF c \in named THEN 0 ELSE g.failures[c]]
           ratcheted == [g EXCEPT !.signed = signed, !.failures = failures]
           unexpired == ExpireIfDue(ratcheted, now)
           owed      == OwedByClose(unexpired.second, now, unexpired.reserved)
           split     == IF rate # unexpired.reserved /\ unexpired.second # None
                        THEN Take([unexpired EXCEPT !.second = None], owed)
                        ELSE unexpired
           second    == IF split.second = None THEN SecondStarting(now) ELSE split.second
           inc       == Increase(g, us)
           bought    == SatAdd(split.authorized, inc)
           deadline  == Greatest(split.deadline, SatAdd(now, window))
           held      == BudgetOf(g, now).remaining
<1>1. signed \in [Channels -> U64]
  <2>1. ASSUME NEW c \in Channels, c \in named
        PROVE  signed[c] \in U64
    BY <2>1, TotalType
  <2>2. ASSUME NEW c \in Channels, c \notin named
        PROVE  signed[c] \in U64
    BY <2>2 DEF GrantState
  <2> QED BY <2>1, <2>2
<1>2. failures \in [Channels -> 0 .. (MAX_VERIFICATION_FAILURES - 1)]
  <2>1. 0 \in 0 .. (MAX_VERIFICATION_FAILURES - 1)
    BY ChannelAssumption
  <2> QED BY <2>1 DEF GrantState
<1>3. h = [split EXCEPT !.authorized = bought, !.deadline = deadline,
                        !.reserved = rate, !.second = second]
  BY DEF Apply
<1>4. inc \in Nat
  BY IncreaseType
<1> HIDE DEF signed, failures, inc
<1>5. /\ ratcheted \in GrantState /\ GrantSound(ratcheted)
      /\ ratcheted.authorized = g.authorized /\ ratcheted.consumed = g.consumed
      /\ ratcheted.deadline = g.deadline /\ ratcheted.reserved = g.reserved
      /\ ratcheted.second = g.second /\ Remaining(ratcheted) = Remaining(g)
  BY <1>1, <1>2 DEF GrantState, GrantSound, Remaining
<1> HIDE DEF ratcheted
<1>6. /\ unexpired \in GrantState /\ GrantSound(unexpired)
      /\ Remaining(unexpired) = (IF now < g.deadline THEN Remaining(g) ELSE 0)
      /\ unexpired.authorized = g.authorized /\ unexpired.deadline = g.deadline
      /\ unexpired.second = g.second
      /\ unexpired.reserved = 0 \/ unexpired.reserved = g.reserved
      /\ now < g.deadline => unexpired.reserved = g.reserved
  <2>1. now < g.deadline => unexpired = ratcheted
    BY <1>5 DEF ExpireIfDue
  <2> HIDE DEF unexpired
  <2>2. /\ unexpired \in GrantState /\ GrantSound(unexpired)
        /\ unexpired.second = ratcheted.second
    BY <1>5, ExpireSound DEF unexpired
  <2>3. /\ Dwindles(ratcheted, unexpired)
        /\ Remaining(unexpired) = IF now < ratcheted.deadline THEN Remaining(ratcheted) ELSE 0
        /\ unexpired.authorized = ratcheted.authorized
        /\ unexpired.deadline = ratcheted.deadline
    BY <1>5, ExpireDraws DEF unexpired
  <2> QED BY <1>5, <2>1, <2>2, <2>3 DEF Dwindles
<1>7. held = Remaining(unexpired) /\ held \in Nat
  <2>1. Remaining(g) \in Nat
    BY RemainingType, WidthNat
  <2> HIDE DEF unexpired
  <2>2. held = IF IsLive(g, now) THEN Remaining(g) ELSE 0
    BY BudgetOfIs
  <2> QED BY <1>6, <2>1, <2>2 DEF IsLive
<1> HIDE DEF unexpired, held
<1>8. ASSUME unexpired.second # None
      PROVE  owed \in Nat /\ (owed <= OwedAt(g, now) \/ held = 0)
  <2>1. unexpired.second \in Second /\ unexpired.reserved \in U64
    BY <1>6, <1>8 DEF GrantState
  <2>2. owed \in Nat
    BY <2>1, CloseType
  <2>3. CASE now < g.deadline
    <3>1. owed = OwedAt(g, now)
      BY <1>6, <1>8, <2>3 DEF OwedAt
    <3> QED BY <2>2, <3>1
  <2>4. CASE ~(now < g.deadline)
    BY <1>6, <1>7, <2>2, <2>4
  <2> QED BY <2>3, <2>4
<1>o. OwedAt(g, now) \in Nat
  <2>1. CASE g.second = None
    BY <2>1 DEF OwedAt
  <2>2. CASE g.second # None
    <3>1. g.second \in Second /\ g.reserved \in U64
      BY <2>2 DEF GrantState
    <3> QED BY <2>2, <3>1, CloseType DEF OwedAt
  <2> QED BY <2>1, <2>2
<1>9. /\ split \in GrantState /\ GrantSound(split) /\ split.authorized = g.authorized
      /\ split.deadline = g.deadline
      /\ Remaining(split) <= held /\ held <= Remaining(split) + OwedAt(g, now)
  <2>1. CASE rate # unexpired.reserved /\ unexpired.second # None
    <3> DEFINE k == [unexpired EXCEPT !.second = None]
    <3>1. owed \in Nat
      <4>1. unexpired.second \in Second /\ unexpired.reserved \in U64
        BY <1>6, <2>1 DEF GrantState
      <4> QED BY <4>1, CloseType
    <3>2. owed <= OwedAt(g, now) \/ held = 0
      BY <1>8, <2>1
    <3>3. /\ k \in GrantState /\ GrantSound(k) /\ Remaining(k) = held
          /\ k.authorized = g.authorized /\ k.deadline = g.deadline
      BY <1>6, <1>7 DEF GrantState, GrantSound, Remaining
    <3> HIDE DEF k, owed
    <3>4. split = Take(k, owed)
      BY <2>1 DEF k
    <3> HIDE DEF split
    <3>5. split \in GrantState /\ GrantSound(split)
      BY <3>1, <3>3, <3>4, TakeSound
    <3>6. /\ Remaining(split) = SatSub(held, owed) /\ split.authorized = g.authorized
          /\ split.deadline = g.deadline
      BY <3>1, <3>3, <3>4, TakeDraws
    <3>7. SatSub(held, owed) <= held /\ held <= SatSub(held, owed) + OwedAt(g, now)
      BY <1>o, <1>7, <3>1, <3>2 DEF SatSub
    <3> QED BY <3>5, <3>6, <3>7
  <2>2. CASE ~(rate # unexpired.reserved /\ unexpired.second # None)
    <3>1. split = unexpired
      BY <2>2
    <3> HIDE DEF split
    <3> QED BY <1>o, <1>6, <1>7, <3>1
  <2> QED BY <2>1, <2>2
<1> HIDE DEF split
<1>10. /\ h.authorized = bought /\ h.consumed = split.consumed
       /\ h.reserved = rate /\ h.deadline = deadline
  BY <1>3, <1>9 DEF GrantState
<1>11. /\ split.authorized \in Nat /\ split.consumed \in Nat /\ U64_MAX \in Nat
       /\ split.consumed <= split.authorized /\ split.authorized <= U64_MAX
       /\ Remaining(split) = split.authorized - split.consumed
  BY <1>9, RemainingType, WidthNat DEF GrantState, GrantSound, U64
<1>12. /\ bought \in Nat /\ bought <= split.authorized + inc /\ split.authorized <= bought
       /\ split.authorized + inc <= U64_MAX => bought = split.authorized + inc
  BY <1>4, <1>11 DEF SatAdd, Least
<1>13. Remaining(h) = bought - split.consumed
  <2> HIDE DEF bought
  <2> QED BY <1>10, <1>11, <1>12 DEF Remaining, SatSub
<1>14. deadline >= SatAdd(now, window)
  <2>1. SatAdd(now, window) \in Nat /\ split.deadline \in Nat
    BY <1>9, SaturationType, WidthNat DEF GrantState
  <2> QED BY <2>1 DEF Greatest
<1>15. bought = SatAdd(g.authorized, inc)
  BY <1>9
<1> HIDE DEF bought, deadline
<1>16. Remaining(h) <= held + inc
  BY <1>4, <1>7, <1>9, <1>11, <1>12, <1>13
<1>17. g.authorized + inc <= U64_MAX => held + inc <= Remaining(h) + OwedAt(g, now)
  BY <1>o, <1>4, <1>7, <1>9, <1>11, <1>12, <1>13
<1> QED BY <1>10, <1>14, <1>15, <1>16, <1>17 DEF inc, held

(* At the rate it is shaped at, a payer moves in one tick no more than it has *)
(* left, or than the allowance of a payer with nothing (per_tick_ceiling).    *)
LEMMA ShapedWithinBudget ==
    ASSUME NEW g \in GrantState, NEW now \in U64
    PROVE  units_in(ShapingRate(g, now), TICK) <=
              Greatest(Remaining(g), units_in(MINIMUM_FLOW, TICK))
<1> DEFINE ceiling == per_tick_ceiling(Remaining(g), TICK)
           speed   == IF g.reserved > 0 THEN Greatest(g.reserved, BURST) ELSE UnreservedSpeed
           span    == Greatest(TICK, 1)
           rem     == Remaining(g)
           c       == rate_from(rem, span)
           rate    == ShapingRate(g, now)
<1>1. /\ rem \in Nat /\ rem <= U64_MAX /\ TICK \in Nat /\ MINIMUM_FLOW \in Nat
      /\ SECOND_MS \in Nat \ {0} /\ U64_MAX \in Nat
  BY RemainingType, PolicyAssumption, SecondAssumption, WidthAssumption DEF U64
<1>2. span \in Nat \ {0} /\ span >= TICK
  BY <1>1 DEF Greatest
<1> HIDE DEF rem, span
<1>3. c \in Nat /\ c * span <= rem * SECOND_MS /\ c <= U64_MAX
  <2> DEFINE n == rem * SECOND_MS
             d == n \div span
  <2>1. n \in Nat
    BY <1>1
  <2> HIDE DEF n
  <2>2. d \in Nat /\ d * span <= n
    BY <1>2, <2>1
  <2>3. c = Least(d, U64_MAX)
    BY <1>2 DEF rate_from, n
  <2> HIDE DEF d
  <2>4. c \in Nat /\ c <= d /\ c <= U64_MAX
    BY <1>1, <2>2, <2>3 DEF Least
  <2> HIDE DEF c
  <2>5. c * span <= d * span
    BY <1>2, <2>2, <2>4
  <2>6. c * span \in Nat /\ d * span \in Nat
    BY <1>2, <2>2, <2>4
  <2> QED BY <2>1, <2>2, <2>4, <2>5, <2>6 DEF n
<1>4. ceiling = PowerOfTwoBelow(c)
  BY DEF per_tick_ceiling, rem, span
<1> HIDE DEF c, ceiling
<1>5. ceiling \in Nat /\ ceiling <= c
  <2>1. CASE c = 0
    BY <1>4, <2>1 DEF PowerOfTwoBelow
  <2>2. CASE c # 0
    <3> DEFINE k == CHOOSE k \in 0 .. c : 2^k \in 1 .. c /\ c < 2^(k + 1)
    <3>1. c \in 1 .. U64_MAX
      BY <1>1, <1>3, <2>2
    <3>2. 2^k \in 1 .. c
      BY <3>1, LeadingBitAssumption
    <3>3. ceiling = 2^k
      BY <1>4, <2>2 DEF PowerOfTwoBelow
    <3> HIDE DEF k
    <3> QED BY <1>3, <3>1, <3>2, <3>3
  <2> QED BY <2>1, <2>2
<1>6. speed \in Nat
  <2>1. g.reserved \in U64
    BY DEF GrantState
  <2> QED BY <2>1, PolicyAssumption, WidthNat DEF Greatest, UnreservedSpeed
<1>7. rate = IF ~IsLive(g, now) THEN MINIMUM_FLOW
             ELSE Greatest(Least(speed, ceiling), MINIMUM_FLOW)
  BY DEF ShapingRate, ceiling, rem
<1> HIDE DEF speed, rate
<1>8. rate = MINIMUM_FLOW \/ (rate \in Nat /\ rate <= ceiling)
  BY <1>1, <1>5, <1>6, <1>7 DEF Least, Greatest
<1>9. units_in(MINIMUM_FLOW, TICK) \in Nat
  BY <1>1, UnitsType, WidthNat
<1>10. CASE rate = MINIMUM_FLOW
  BY <1>1, <1>9, <1>10 DEF Greatest, rate, rem
<1>11. CASE rate \in Nat /\ rate <= ceiling
  <2>1. rate * TICK <= rem * SECOND_MS
    <3>1. rate <= c
      BY <1>3, <1>5, <1>11
    <3>2. rate * TICK <= c * TICK
      BY <1>1, <1>3, <1>11, <3>1
    <3>3. c * TICK <= c * span
      BY <1>1, <1>2, <1>3
    <3>4. rate * TICK \in Nat /\ c * TICK \in Nat /\ c * span \in Nat /\ rem * SECOND_MS \in Nat
      BY <1>1, <1>2, <1>3, <1>11
    <3> QED BY <1>3, <3>2, <3>3, <3>4
  <2>2. (rate * TICK) \div SECOND_MS <= rem
    <3> DEFINE n == rate * TICK
               q == n \div SECOND_MS
    <3>1. n \in Nat /\ n <= rem * SECOND_MS
      BY <1>1, <1>11, <2>1
    <3> HIDE DEF n
    <3>2. q \in Nat /\ q * SECOND_MS <= n
      BY <1>1, <3>1
    <3> HIDE DEF q
    <3>3. q * SECOND_MS <= rem * SECOND_MS
      <4>1. q * SECOND_MS \in Nat /\ rem * SECOND_MS \in Nat
        BY <1>1, <3>2
      <4> QED BY <3>1, <3>2, <4>1
    <3>4. q <= rem
      <4>1. SUFFICES ASSUME q >= rem + 1 PROVE FALSE
        BY <1>1, <3>2
      <4>2. q * SECOND_MS >= (rem + 1) * SECOND_MS
        BY <1>1, <3>2, <4>1
      <4>3. (rem + 1) * SECOND_MS = rem * SECOND_MS + SECOND_MS
        BY <1>1
      <4>4. q * SECOND_MS \in Nat /\ rem * SECOND_MS \in Nat
        BY <1>1, <3>2
      <4> QED BY <1>1, <3>3, <4>2, <4>3, <4>4
    <3> QED BY <3>4 DEF q, n
  <2>3. (rate * TICK) \div SECOND_MS \in Nat
    <3>1. rate * TICK \in Nat
      BY <1>1, <1>11
    <3> QED BY <1>1, <3>1
  <2>4. units_in(rate, TICK) <= rem
    <3> DEFINE n == (rate * TICK) \div SECOND_MS
    <3>1. n \in Nat /\ n <= rem /\ units_in(rate, TICK) = Least(n, U64_MAX)
      BY <2>2, <2>3 DEF units_in
    <3> HIDE DEF n
    <3> QED BY <1>1, <3>1 DEF Least
  <2>5. units_in(rate, TICK) \in Nat
    BY <1>1, <1>11, UnitsType, WidthNat
  <2> QED BY <1>1, <1>9, <2>4, <2>5 DEF Greatest, rate, rem
<1> QED BY <1>8, <1>10, <1>11

-----------------------------------------------------------------------------
(* What is left alone, and what time does. *)

\* h has what g has left, and for as long.
SameBudget(g, h) == Remaining(h) = Remaining(g) /\ h.deadline = g.deadline

(* Channels are opened, closed and counted against without touching the budget *)
(* (open_channel, close_channels, record_failures).                            *)
LEMMA ChannelsApart ==
    ASSUME NEW g \in GrantState, NEW cs \in SUBSET Channels, NEW c
    PROVE  /\ SameBudget(g, CloseChannels(g, cs))
           /\ SameBudget(g, RecordFailures(g, cs))
           /\ SameBudget(g, OpenChannel(g, c))
<1>1. ASSUME NEW h, h.authorized = g.authorized, h.consumed = g.consumed,
             h.deadline = g.deadline
      PROVE  SameBudget(g, h)
  BY <1>1 DEF SameBudget, Remaining
<1>2. SameBudget(g, CloseChannels(g, cs))
  <2> DEFINE h == CloseChannels(g, cs)
  <2>1. h.authorized = g.authorized /\ h.consumed = g.consumed /\ h.deadline = g.deadline
    BY DEF CloseChannels, GrantState
  <2> HIDE DEF h
  <2>2. SameBudget(g, h)
    BY <1>1, <2>1
  <2> QED BY <2>2 DEF h
<1>3. SameBudget(g, RecordFailures(g, cs))
  <2> DEFINE h == RecordFailures(g, cs)
  <2>1. h.authorized = g.authorized /\ h.consumed = g.consumed /\ h.deadline = g.deadline
    BY DEF RecordFailures, GrantState
  <2> HIDE DEF h
  <2>2. SameBudget(g, h)
    BY <1>1, <2>1
  <2> QED BY <2>2 DEF h
<1>4. SameBudget(g, OpenChannel(g, c))
  <2> DEFINE h == OpenChannel(g, c)
  <2>1. h.authorized = g.authorized /\ h.consumed = g.consumed /\ h.deadline = g.deadline
    BY DEF OpenChannel, GrantState
  <2> HIDE DEF h
  <2>2. SameBudget(g, h)
    BY <1>1, <2>1
  <2> QED BY <2>2 DEF h
<1> QED BY <1>2, <1>3, <1>4

\* A kept budget is worth at least what a grant has left, for at least as long.
CoversAt(bud, g, now) ==
    /\ BudgetAt(bud, now).remaining >= BudgetOf(g, now).remaining
    /\ BudgetAt(bud, now).deadline >= BudgetOf(g, now).deadline

(* A budget saved now is worth now exactly what the grant has left. *)
LEMMA SavedIsWorth ==
    ASSUME NEW g \in GrantState, NEW now \in U64
    PROVE  /\ BudgetAt(BudgetOf(g, now), now) = BudgetOf(g, now)
           /\ BudgetAt(NoBudget, now) = NoBudget
<1> DEFINE b == [remaining |-> Remaining(g), deadline |-> g.deadline]
<1>1. BudgetAt(NoBudget, now) = NoBudget
  BY DEF BudgetAt, NoBudget
<1>2. BudgetOf(g, now) = BudgetAt(b, now)
  BY DEF BudgetOf
<1> HIDE DEF b
<1>3. BudgetAt(b, now) = NoBudget \/ BudgetAt(b, now) = b
  BY DEF BudgetAt
<1> QED BY <1>1, <1>2, <1>3

(* A budget worth what the grant has left covers it. *)
LEMMA EvenCovers ==
    ASSUME NEW g \in GrantState, NEW bud, NEW now \in U64, BudgetAt(bud, now) = BudgetOf(g, now)
    PROVE  CoversAt(bud, g, now)
<1>1. BudgetOf(g, now).remaining \in Nat /\ BudgetOf(g, now).deadline \in Nat
  <2>1. NoBudget \in Budget
    BY WidthNat DEF NoBudget, Budget
  <2>2. BudgetOf(g, now) \in Budget
    BY <2>1, BudgetType
  <2> QED BY <2>2, WidthNat DEF Budget
<1> QED BY <1>1 DEF CoversAt

(* What covers a grant covers it once it has dwindled. *)
LEMMA CoversDwindled ==
    ASSUME NEW g \in GrantState, NEW h \in GrantState, NEW bud \in Budget, NEW now \in U64,
           CoversAt(bud, g, now), Dwindles(g, h)
    PROVE  CoversAt(bud, h, now)
<1>1. /\ BudgetAt(bud, now) \in Budget /\ BudgetOf(g, now) \in Budget
      /\ BudgetOf(h, now) \in Budget
  BY BudgetType
<1>2. /\ BudgetAt(bud, now).remaining \in Nat /\ BudgetAt(bud, now).deadline \in Nat
      /\ BudgetOf(g, now).remaining \in Nat /\ BudgetOf(g, now).deadline \in Nat
      /\ BudgetOf(h, now).remaining \in Nat /\ BudgetOf(h, now).deadline \in Nat
  BY <1>1, WidthNat DEF Budget
<1>3. /\ BudgetOf(h, now).remaining <= BudgetOf(g, now).remaining
      /\ BudgetOf(h, now).deadline <= BudgetOf(g, now).deadline
  BY BudgetDwindles
<1> QED BY <1>2, <1>3 DEF CoversAt

(* Time only ends a budget, kept or in use; it never tells the two apart. *)
LEMMA BudgetLater ==
    ASSUME NEW g \in GrantState, NEW bud \in Budget, NEW now \in U64, NEW then \in U64,
           now <= then
    PROVE  /\ BudgetOf(g, then).remaining <= BudgetOf(g, now).remaining
           /\ BudgetAt(bud, then).remaining <= BudgetAt(bud, now).remaining
           /\ CoversAt(bud, g, now) => CoversAt(bud, g, then)
           /\ BudgetAt(bud, now) = BudgetOf(g, now) => BudgetAt(bud, then) = BudgetOf(g, then)
           /\ IsLive(g, then) => IsLive(g, now)
<1> DEFINE b == [remaining |-> Remaining(g), deadline |-> g.deadline]
<1>1. /\ b \in Budget /\ \A t : BudgetOf(g, t) = BudgetAt(b, t)
      /\ \A t : IsLive(g, t) <=> t < b.deadline /\ b.remaining > 0
  BY RemainingType DEF BudgetOf, Budget, GrantState, IsLive
<1> HIDE DEF b
<1>2. /\ now \in Nat /\ then \in Nat
      /\ b.remaining \in Nat /\ b.deadline \in Nat
      /\ bud.remaining \in Nat /\ bud.deadline \in Nat
  BY <1>1, WidthNat DEF Budget
<1>3. /\ b = [remaining |-> b.remaining, deadline |-> b.deadline]
      /\ bud = [remaining |-> bud.remaining, deadline |-> bud.deadline]
  BY <1>1 DEF Budget
<1>4. /\ BudgetAt(b, then).remaining <= BudgetAt(b, now).remaining
      /\ BudgetAt(bud, then).remaining <= BudgetAt(bud, now).remaining
  BY <1>2 DEF BudgetAt, NoBudget
<1>5. BudgetAt(bud, now) = BudgetAt(b, now) => BudgetAt(bud, then) = BudgetAt(b, then)
  <2>1. CASE BudgetAt(bud, now) = bud /\ BudgetAt(b, now) = b
    BY <2>1
  <2>2. CASE BudgetAt(bud, now) = NoBudget /\ BudgetAt(b, now) = NoBudget
    <3>1. /\ bud.remaining = 0 \/ then >= bud.deadline
          /\ b.remaining = 0 \/ then >= b.deadline
      BY <1>2, <2>2 DEF BudgetAt, NoBudget
    <3> QED BY <3>1 DEF BudgetAt
  <2>3. ASSUME NEW x \in Budget
        PROVE  BudgetAt(x, now) = NoBudget \/ (BudgetAt(x, now) = x /\ x # NoBudget)
    BY DEF BudgetAt, NoBudget
  <2> QED BY <1>1, <2>1, <2>2, <2>3
<1>6. CoversAt(bud, g, now) => CoversAt(bud, g, then)
  BY <1>1, <1>2 DEF CoversAt, BudgetAt, NoBudget
<1>7. IsLive(g, then) => IsLive(g, now)
  BY <1>1, <1>2
<1> QED BY <1>1, <1>4, <1>5, <1>6, <1>7

\* A backend that held `rec` holds `then` once the purchase is recorded.
Records(us, rec, then) ==
    \A c \in Channels : then[c] = IF c \in Named(us) THEN TotalOn(us, c) ELSE rec[c]

(* What a purchase buys is no more than what it adds to the payer's channels, *)
(* and no less unless the count saturates: the ratchets it starts from are    *)
(* the totals recorded.                                                       *)
LEMMA PurchasePaid ==
    ASSUME NEW S \in SUBSET Channels, NEW g \in GrantState, NEW available, NEW us \in Updates,
           NEW window, NEW rate, Verdict(g, available, us, window, rate) = "Accept",
           NEW rec \in [Channels -> U64], NEW then \in [Channels -> U64],
           Records(us, rec, then),
           \A c \in g.open : c \in S /\ g.signed[c] = rec[c]
    PROVE  /\ SumOver(rec, S) + Increase(g, us) <= SumOver(then, S)
           /\ SumOver(then, S) <= U64_MAX =>
                SumOver(then, S) = SumOver(rec, S) + Increase(g, us)
<1> DEFINE A   == us[1].channel
           B   == us[2].channel
           mid == [rec EXCEPT ![A] = us[1].cumulative]
<1>1. S \in SUBSET Channels /\ IsFiniteSet(S)
  <2>1. S \in SUBSET Channels /\ IsFiniteSet(Channels)
    BY ChannelAssumption
  <2> QED BY <2>1, FS_Subset
<1>2. rec \in [Channels -> Nat] /\ then \in [Channels -> Nat]
  BY WidthNat
<1>3. /\ 1 \in DOMAIN us
      /\ \A i \in DOMAIN us :
            /\ us[i].channel \in g.open /\ us[i] \in Update
            /\ us[i].cumulative > g.signed[us[i].channel]
  BY AcceptedUpdates
<1>4. /\ DOMAIN us = {1} \/ (DOMAIN us = {1, 2} /\ A # B)
      /\ \A i \in DOMAIN us : TotalOn(us, us[i].channel) = us[i].cumulative
  BY AcceptedApart
<1>5. ASSUME NEW i \in DOMAIN us
      PROVE  /\ us[i].channel \in S /\ us[i].cumulative \in Nat
             /\ g.signed[us[i].channel] = rec[us[i].channel] /\ rec[us[i].channel] \in Nat
             /\ us[i].cumulative > rec[us[i].channel]
             /\ then[us[i].channel] = us[i].cumulative
  <2>1. us[i].channel \in g.open /\ us[i].channel \in Channels /\ us[i].cumulative \in Nat
    BY <1>3, WidthNat DEF Update
  <2>2. us[i].channel \in Named(us)
    BY DEF Named
  <2>3. then[us[i].channel] = us[i].cumulative
    BY <1>4, <2>1, <2>2 DEF Records
  <2> QED BY <1>2, <1>3, <2>1, <2>3
<1>6. \A c \in Channels : c \notin Named(us) => then[c] = rec[c]
  BY DEF Records
<1>7. SumOver(rec, S) \in Nat /\ SumOver(then, S) \in Nat
  BY <1>1, <1>2, SumType
<1>8. CASE DOMAIN us = {1}
  <2>1. \A c \in S \ {A} : rec[c] = then[c]
    BY <1>6, <1>8 DEF Named
  <2>2. SumOver(then, S) + rec[A] = SumOver(rec, S) + then[A]
    <3>1. A \in S
      BY <1>3, <1>5
    <3> HIDE DEF A
    <3> QED BY <1>1, <1>2, <2>1, <3>1, SumChange
  <2>3. Increase(g, us) = us[1].cumulative - rec[A]
    BY <1>3, <1>5, <1>8 DEF Increase
  <2>4. us[1].cumulative \in Nat /\ rec[A] \in Nat /\ then[A] = us[1].cumulative
    BY <1>3, <1>5
  <2>5. SumOver(then, S) = SumOver(rec, S) + Increase(g, us)
    <3> HIDE DEF A
    <3> QED BY <1>7, <2>2, <2>3, <2>4
  <2>6. Increase(g, us) \in Nat
    BY <1>7, <2>5, IncreaseType
  <2> QED BY <1>7, <2>5, <2>6
<1>9. CASE DOMAIN us = {1, 2} /\ A # B
  <2>1. /\ A \in S /\ us[1].cumulative \in Nat /\ rec[A] \in Nat /\ us[1].cumulative > rec[A]
        /\ then[A] = us[1].cumulative /\ g.signed[A] = rec[A]
    BY <1>3, <1>5
  <2>2. /\ B \in S /\ us[2].cumulative \in Nat /\ rec[B] \in Nat /\ us[2].cumulative > rec[B]
        /\ then[B] = us[2].cumulative /\ g.signed[B] = rec[B]
    BY <1>5, <1>9
  <2>3. Named(us) = {A, B}
    BY <1>9 DEF Named
  <2>4. /\ mid \in [Channels -> Nat] /\ mid[A] = us[1].cumulative /\ mid[B] = rec[B]
        /\ \A c \in S \ {A} : rec[c] = mid[c]
        /\ \A c \in S \ {B} : mid[c] = then[c]
    <3>1. mid \in [Channels -> Nat] /\ mid[A] = us[1].cumulative /\ mid[B] = rec[B]
      BY <1>1, <1>2, <1>9, <2>1, <2>2
    <3>2. \A c \in S \ {A} : rec[c] = mid[c]
      BY <1>1, <1>2
    <3>3. \A c \in S \ {B} : mid[c] = then[c]
      BY <1>1, <1>2, <1>6, <2>1, <2>3, <3>1, <3>2
    <3> QED BY <3>1, <3>2, <3>3
  <2>5. Increase(g, us) = SatAdd(us[1].cumulative - rec[A], us[2].cumulative - rec[B])
    BY <1>9, <2>1, <2>2 DEF Increase
  <2> HIDE DEF A, B, mid
  <2>6. SumOver(mid, S) + rec[A] = SumOver(rec, S) + mid[A]
    BY <1>1, <1>2, <2>1, <2>4, SumChange
  <2>7. SumOver(then, S) + mid[B] = SumOver(mid, S) + then[B]
    BY <1>1, <1>2, <2>2, <2>4, SumChange
  <2>8. SumOver(mid, S) \in Nat
    BY <1>1, <2>4, SumType
  <2> DEFINE x == us[1].cumulative - rec[A]
             y == us[2].cumulative - rec[B]
  <2>9. x \in Nat /\ y \in Nat /\ SatAdd(x, y) <= x + y /\ SatAdd(x, y) \in Nat
    <3>1. x \in Nat /\ y \in Nat
      BY <2>1, <2>2
    <3> HIDE DEF x, y
    <3> QED BY <3>1, WidthNat DEF SatAdd, Least
  <2>10. SumOver(then, S) = SumOver(rec, S) + x + y
    BY <1>7, <2>1, <2>2, <2>4, <2>6, <2>7, <2>8
  <2>11. Increase(g, us) = SatAdd(x, y)
    BY <2>5
  <2> HIDE DEF x, y
  <2>12. /\ SumOver(rec, S) + Increase(g, us) <= SumOver(then, S)
         /\ SumOver(then, S) <= U64_MAX => SumOver(then, S) = SumOver(rec, S) + Increase(g, us)
    <3>1. x + y <= U64_MAX => SatAdd(x, y) = x + y
      BY <2>9 DEF SatAdd, Least
    <3> QED BY <1>7, <2>9, <2>10, <2>11, <3>1, WidthNat
  <2> QED BY <2>12
<1> QED BY <1>4, <1>8, <1>9
-----------------------------------------------------------------------------
(* What drawing costs, at most.                                              *)

\* A second being drawn has been read no later than now, and began no longer
\* than `span` ago.
ReadBy(sec, now) == sec.start <= sec.at /\ sec.at <= now
Within(sec, now, span) == now <= sec.start + span

(* A rate comes to no less over a longer time. *)
LEMMA UnitsMonotone ==
    ASSUME NEW rate \in Nat, NEW a \in Nat, NEW b \in Nat, a <= b
    PROVE  units_in(rate, a) <= units_in(rate, b)
<1> DEFINE m == rate * a
           n == rate * b
<1>1. m \in Nat /\ n \in Nat /\ m <= n
  <2>1. m \in Nat /\ n \in Nat
    OBVIOUS
  <2>2. n - m = rate * (b - a) /\ b - a \in Nat
    OBVIOUS
  <2>3. rate * (b - a) \in Nat
    BY <2>2
  <2> QED BY <2>1, <2>2, <2>3
<1>2. units_in(rate, a) = Least(m \div SECOND_MS, U64_MAX) /\ units_in(rate, b) = Least(n \div SECOND_MS, U64_MAX)
  BY DEF units_in
<1> HIDE DEF m, n
<1>3. m \div SECOND_MS \in Nat /\ n \div SECOND_MS \in Nat /\ m \div SECOND_MS <= n \div SECOND_MS
  BY <1>1, SecondAssumption
<1> DEFINE x == m \div SECOND_MS
           y == n \div SECOND_MS
<1> HIDE DEF x, y
<1> QED BY <1>2, <1>3, WidthNat DEF Least, x, y

(* Nothing comes of no time. *)
LEMMA UnitsOfNothing ==
    ASSUME NEW rate \in Nat
    PROVE  units_in(rate, 0) = 0
<1>1. rate * 0 = 0 /\ 0 \div SECOND_MS = 0
  BY SecondAssumption
<1> QED BY <1>1, WidthNat DEF units_in, Least

(* A second closed later owes no less. *)
LEMMA OwedLater ==
    ASSUME NEW sec \in Second, NEW rate \in U64, NEW s \in U64, NEW t \in U64, s <= t
    PROVE  OwedByClose(sec, s, rate) <= OwedByClose(sec, t, rate)
<1>1. /\ s \in Nat /\ t \in Nat /\ rate \in Nat /\ sec.start \in Nat /\ sec.moved \in Nat
  BY WidthNat DEF Second
<1>2. SatSub(s, sec.start) \in Nat /\ SatSub(t, sec.start) \in Nat /\ SatSub(s, sec.start) <= SatSub(t, sec.start)
  BY <1>1 DEF SatSub
<1> DEFINE u == units_in(rate, SatSub(s, sec.start))
           v == units_in(rate, SatSub(t, sec.start))
<1>3. u \in Nat /\ v \in Nat /\ u <= v
  BY <1>1, <1>2, UnitsMonotone, UnitsType, WidthNat
<1>4. OwedByClose(sec, s, rate) = SatSub(u, sec.moved) /\ OwedByClose(sec, t, rate) = SatSub(v, sec.moved)
  BY DEF OwedByClose
<1> HIDE DEF u, v
<1> QED BY <1>1, <1>3, <1>4 DEF SatSub

(* What is owed is a number of units. *)
LEMMA OwedType ==
    ASSUME NEW g \in GrantState, NEW now \in U64
    PROVE  OwedAt(g, now) \in Nat
<1>1. CASE g.second = None
  BY <1>1 DEF OwedAt
<1>2. CASE g.second # None
  <2>1. g.second \in Second /\ g.reserved \in U64
    BY <1>2 DEF GrantState
  <2> QED BY <1>2, <2>1, CloseType DEF OwedAt
<1> QED BY <1>1, <1>2

(* A budget that lost no more than it owed is held for no less than that. *)
LEMMA BudgetCosts ==
    ASSUME NEW g \in GrantState, NEW h \in GrantState, NEW now \in U64,
           h.deadline = g.deadline, NEW a \in Nat, NEW n \in Nat, a <= n,
           Remaining(g) + a <= Remaining(h) + n
    PROVE  BudgetOf(g, now).remaining + a <= BudgetOf(h, now).remaining + n
<1>1. Remaining(g) \in Nat /\ Remaining(h) \in Nat /\ g.deadline \in Nat /\ now \in Nat
  BY RemainingType, WidthNat DEF GrantState
<1>2. /\ BudgetOf(g, now).remaining = IF IsLive(g, now) THEN Remaining(g) ELSE 0
      /\ BudgetOf(h, now).remaining = IF IsLive(h, now) THEN Remaining(h) ELSE 0
  BY BudgetOfIs
<1>3. CASE now < g.deadline
  <2>1. BudgetOf(g, now).remaining = Remaining(g) /\ BudgetOf(h, now).remaining = Remaining(h)
    BY <1>1, <1>2, <1>3 DEF IsLive
  <2> QED BY <2>1
<1>4. CASE ~(now < g.deadline)
  <2>1. BudgetOf(g, now).remaining = 0 /\ BudgetOf(h, now).remaining = 0
    BY <1>1, <1>2, <1>4 DEF IsLive
  <2> QED BY <2>1
<1> QED BY <1>3, <1>4

(* pause costs what the part second owes, and no more. *)
LEMMA PauseCosts ==
    ASSUME NEW g \in GrantState, GrantSound(g), NEW now \in U64,
           g.second # None => ReadBy(g.second, now)
    PROVE  /\ Remaining(g) <= Remaining(Pause(g)) + OwedAt(g, now)
           /\ BudgetOf(g, now).remaining <= BudgetOf(Pause(g), now).remaining + OwedAt(g, now)
<1> DEFINE h    == Pause(g)
           owed == IF g.second = None THEN 0 ELSE OwedByClose(g.second, g.second.at, g.reserved)
<1>1. /\ h \in GrantState /\ Remaining(h) = SatSub(Remaining(g), owed) /\ h.deadline = g.deadline
  BY PauseSound, PauseDraws
<1>2. Remaining(g) \in Nat /\ OwedAt(g, now) \in Nat
  BY RemainingType, OwedType, WidthNat
<1>3. owed \in Nat /\ owed <= OwedAt(g, now)
  <2>1. CASE g.second = None
    BY <1>2, <2>1
  <2>2. CASE g.second # None
    <3>1. g.second \in Second /\ g.second.at \in U64 /\ g.reserved \in U64 /\ g.second.at <= now
      BY <2>2 DEF GrantState, Second, ReadBy
    <3> QED BY <2>2, <3>1, CloseType, OwedLater DEF OwedAt
  <2> QED BY <2>1, <2>2
<1> HIDE DEF h, owed
<1>4. Remaining(h) \in Nat /\ Remaining(g) <= Remaining(h) + OwedAt(g, now)
  BY <1>1, <1>2, <1>3 DEF SatSub
<1>5. BudgetOf(g, now).remaining + 0 <= BudgetOf(h, now).remaining + OwedAt(g, now)
  BY <1>1, <1>2, <1>4, BudgetCosts
<1>6. BudgetOf(g, now).remaining \in Nat
  BY <1>2, BudgetOfIs
<1> QED BY <1>4, <1>5, <1>6 DEF h

(* A reading costs what moved and what the second it completes owes; what the *)
(* next then owes was owed before.  The reading comes as the second ends or   *)
(* before: the host reads at every tick.                                      *)
LEMMA ReadCosts ==
    ASSUME NEW sec \in Second, NEW moved \in U64, NEW now \in U64, NEW rate \in U64,
           ReadBy(sec, now), Within(sec, now, SECOND_MS),
           NEW next, next = SecondAfterRead(sec, moved, now)
    PROVE  /\ next \in Second /\ ReadBy(next, now) /\ Within(next, now, SECOND_MS - 1)
           /\ OwedByRead(sec, moved, now, rate) + OwedByClose(next, now, rate)
                 <= OwedByClose(sec, now, rate) + moved
<1> DEFINE whole == WholeSeconds(sec, now)
<1>1. /\ sec.start \in Nat /\ sec.at \in Nat /\ sec.moved \in Nat /\ moved \in Nat
      /\ now \in Nat /\ rate \in Nat /\ U64_MAX \in Nat /\ SECOND_MS \in Nat \ {0}
      /\ now <= U64_MAX /\ sec.moved <= U64_MAX
      /\ sec.start <= sec.at /\ sec.at <= now /\ now <= sec.start + SECOND_MS
  BY SecondAssumption, WidthAssumption DEF Second, U64, ReadBy, Within
<1>2. next \in Second /\ OwedByRead(sec, moved, now, rate) \in Nat
  BY ReadType
<1>3. /\ Greatest(sec.at, now) = now /\ SatSub(now, sec.start) = now - sec.start
      /\ whole = (now - sec.start) \div SECOND_MS
  BY <1>1 DEF Greatest, SatSub, WholeSeconds
<1> DEFINE sum   == SatAdd(sec.moved, moved)
           floor == units_in(rate, now - sec.start)
<1>4. floor \in Nat /\ sum \in Nat /\ sum >= sec.moved
  <2>1. now - sec.start \in Nat
    BY <1>1
  <2>2. floor \in Nat
    <3> DEFINE t == now - sec.start
    <3> HIDE DEF t
    <3>1. units_in(rate, t) \in Nat
      BY <1>1, <2>1, UnitsType, WidthNat DEF t
    <3> QED BY <3>1 DEF t
  <2>3. sum \in Nat /\ sum >= sec.moved
    BY <1>1 DEF SatAdd, Least
  <2> QED BY <2>2, <2>3
<1>5. OwedByClose(sec, now, rate) = SatSub(floor, sec.moved)
  BY <1>3 DEF OwedByClose
<1>6. SatSub(floor, sum) \in Nat /\ SatSub(floor, sum) <= SatSub(floor, sec.moved)
  <2> HIDE DEF floor, sum
  <2> QED BY <1>1, <1>4 DEF SatSub
<1>7. CASE now < sec.start + SECOND_MS
  <2>1. whole = 0
    BY <1>1, <1>3, <1>7
  <2>2. /\ next = [sec EXCEPT !.at = now, !.moved = sum]
        /\ OwedByRead(sec, moved, now, rate) = moved
    BY <1>3, <2>1 DEF SecondAfterRead, OwedByRead
  <2> HIDE DEF whole, sum
  <2>3. next.start = sec.start /\ next.at = now /\ next.moved = sum
    BY <2>2 DEF Second
  <2>4. ReadBy(next, now) /\ Within(next, now, SECOND_MS - 1)
    BY <1>1, <1>7, <2>3 DEF ReadBy, Within
  <2>5. OwedByClose(next, now, rate) = SatSub(floor, sum)
    BY <1>3, <2>3 DEF OwedByClose
  <2> HIDE DEF floor
  <2>6. moved + SatSub(floor, sum) <= SatSub(floor, sec.moved) + moved
    <3>1. SatSub(floor, sec.moved) \in Nat
      BY <1>1, <1>4, SaturationType
    <3> QED BY <1>1, <1>6, <3>1
  <2> QED BY <1>2, <1>5, <2>2, <2>4, <2>5, <2>6
<1>8. CASE now = sec.start + SECOND_MS
  <2>1. now - sec.start = SECOND_MS /\ whole = 1
    BY <1>1, <1>3, <1>8
  <2>2. 1 * SECOND_MS = SECOND_MS /\ SECOND_MS <= U64_MAX
    BY <1>1, <1>8
  <2>3. Least(whole * SECOND_MS, U64_MAX) = SECOND_MS
    BY <1>1, <2>1, <2>2 DEF Least
  <2>4. SatAdd(sec.start, SECOND_MS) = now
    BY <1>1, <1>8 DEF SatAdd, Least
  <2>5. /\ next = [start |-> now, at |-> now, moved |-> 0]
        /\ OwedByRead(sec, moved, now, rate) = SatAdd(moved, SatSub(floor, sum))
    BY <1>3, <2>1, <2>3, <2>4 DEF SecondAfterRead, OwedByRead
  <2> HIDE DEF whole, sum, floor
  <2>6. ReadBy(next, now) /\ Within(next, now, SECOND_MS - 1)
    BY <1>1, <2>5 DEF ReadBy, Within
  <2>7. OwedByClose(next, now, rate) = 0
    <3>1. SatSub(now, now) = 0 /\ units_in(rate, 0) = 0
      BY <1>1, UnitsOfNothing DEF SatSub
    <3> QED BY <2>5, <3>1 DEF OwedByClose, SatSub
  <2>8. SatAdd(moved, SatSub(floor, sum)) <= SatSub(floor, sec.moved) + moved
    <3>1. SatSub(floor, sec.moved) \in Nat
      BY <1>1, <1>4, SaturationType
    <3> QED BY <1>1, <1>6, <3>1 DEF SatAdd, Least
  <2> QED BY <1>2, <1>5, <2>5, <2>6, <2>7, <2>8
<1> QED BY <1>1, <1>7, <1>8

(* Without a reservation nothing is owed. *)
LEMMA OwedOfNothing ==
    ASSUME NEW g \in GrantState, NEW now \in U64, g.reserved = 0
    PROVE  OwedAt(g, now) = 0
<1>1. CASE g.second = None
  BY <1>1 DEF OwedAt
<1>2. CASE g.second # None
  <2> DEFINE ms == SatSub(now, g.second.start)
  <2>1. g.second.start \in Nat /\ g.second.moved \in Nat /\ now \in Nat
    BY <1>2, WidthNat DEF GrantState, Second
  <2>2. ms \in Nat
    BY <2>1, SaturationType
  <2>3. OwedAt(g, now) = SatSub(units_in(0, ms), g.second.moved)
    BY <1>2 DEF OwedAt, OwedByClose
  <2> HIDE DEF ms
  <2>4. 0 * ms = 0 /\ 0 \div SECOND_MS = 0
    BY <2>2, SecondAssumption
  <2>5. units_in(0, ms) = 0
    BY <2>4, WidthNat DEF units_in, Least
  <2> QED BY <2>1, <2>3, <2>5 DEF SatSub
<1> QED BY <1>1, <1>2

(* A reading of a session costs what moved and what was owed, less what is    *)
(* owed still.                                                                *)
LEMMA DrawCosts ==
    ASSUME NEW g \in GrantState, GrantSound(g), NEW moved \in U64, NEW now \in U64,
           g.second # None => ReadBy(g.second, now) /\ Within(g.second, now, SECOND_MS),
           NEW h, h = Draw(g, moved, now)
    PROVE  /\ h.authorized = g.authorized
           /\ h.second \in Second /\ ReadBy(h.second, now) /\ Within(h.second, now, SECOND_MS - 1)
           /\ BudgetOf(g, now).remaining + OwedAt(h, now)
                 <= BudgetOf(h, now).remaining + (OwedAt(g, now) + moved)
<1> DEFINE sec  == IF g.second = None THEN SecondStarting(now) ELSE g.second
           next == SecondAfterRead(sec, moved, now)
           owed == IF g.second = None THEN moved ELSE OwedByRead(g.second, moved, now, g.reserved)
           k    == [g EXCEPT !.second = next]
<1>1. /\ moved \in Nat /\ now \in Nat /\ g.reserved \in U64 /\ SECOND_MS \in Nat \ {0}
      /\ 0 \in U64
  BY SecondAssumption, WidthNat DEF GrantState
<1>2. sec \in Second /\ ReadBy(sec, now) /\ Within(sec, now, SECOND_MS)
  <2>1. CASE g.second = None
    <3>1. sec = [start |-> now, at |-> now, moved |-> 0]
      BY <2>1 DEF SecondStarting
    <3> QED BY <1>1, <3>1 DEF Second, ReadBy, Within
  <2>2. CASE g.second # None
    BY <2>2 DEF GrantState
  <2> QED BY <2>1, <2>2
<1>3. /\ next \in Second /\ ReadBy(next, now) /\ Within(next, now, SECOND_MS - 1)
      /\ OwedByRead(sec, moved, now, g.reserved) + OwedByClose(next, now, g.reserved)
            <= OwedByClose(sec, now, g.reserved) + moved
      /\ OwedByRead(sec, moved, now, g.reserved) \in Nat
      /\ OwedByClose(next, now, g.reserved) \in Nat
  <2> HIDE DEF sec
  <2> QED BY <1>1, <1>2, ReadCosts, ReadType, CloseType
<1>4. h = Take(k, owed)
  BY DEF Draw
<1>5. owed \in Nat /\ owed + OwedByClose(next, now, g.reserved) <= OwedAt(g, now) + moved
  <2>1. CASE g.second = None
    <3>1. /\ sec = [start |-> now, at |-> now, moved |-> 0] /\ owed = moved
          /\ OwedAt(g, now) = 0
      BY <2>1 DEF SecondStarting, OwedAt
    <3>2. WholeSeconds(sec, now) = 0
      <4>1. Greatest(now, now) = now /\ SatSub(now, now) = 0 /\ 0 \div SECOND_MS = 0
        BY <1>1 DEF Greatest, SatSub
      <4> QED BY <3>1, <4>1 DEF WholeSeconds
    <3>3. next.start = now /\ next.moved \in Nat
      <4>1. sec.start = now
        BY <3>1
      <4>2. next.start = sec.start
        <5> HIDE DEF sec
        <5> QED BY <1>2, <3>2 DEF SecondAfterRead, Second
      <4>3. next.moved \in Nat
        <5> HIDE DEF next
        <5> QED BY <1>3, WidthNat DEF Second
      <4> QED BY <4>1, <4>2, <4>3
    <3> HIDE DEF next, sec, owed
    <3>4. OwedByClose(next, now, g.reserved) = 0
      <4>1. SatSub(now, now) = 0
        BY <1>1 DEF SatSub
      <4>2. g.reserved \in Nat
        BY <1>1, WidthNat
      <4>3. units_in(g.reserved, 0) = 0
        BY <4>2, UnitsOfNothing
      <4>4. OwedByClose(next, now, g.reserved) = SatSub(0, next.moved)
        BY <3>3, <4>1, <4>3 DEF OwedByClose
      <4> QED BY <3>3, <4>4 DEF SatSub
    <3> QED BY <1>1, <3>1, <3>4
  <2>2. CASE g.second # None
    <3>1. sec = g.second /\ owed = OwedByRead(sec, moved, now, g.reserved)
          /\ OwedAt(g, now) = OwedByClose(sec, now, g.reserved)
      BY <2>2 DEF OwedAt
    <3> HIDE DEF next, sec, owed
    <3> QED BY <1>3, <3>1
  <2> QED BY <2>1, <2>2
<1> HIDE DEF sec, next, owed
<1>6. /\ k \in GrantState /\ GrantSound(k) /\ k.second = next /\ k.reserved = g.reserved
      /\ k.authorized = g.authorized /\ k.deadline = g.deadline /\ Remaining(k) = Remaining(g)
  BY <1>3 DEF GrantState, GrantSound, Remaining
<1> HIDE DEF k
<1>7. /\ h \in GrantState /\ h.second = next /\ h.authorized = g.authorized
      /\ h.deadline = g.deadline /\ Remaining(h) = SatSub(Remaining(g), owed)
      /\ h.reserved = 0 \/ h.reserved = g.reserved
  BY <1>4, <1>5, <1>6, TakeSound, TakeDraws DEF Dwindles
<1>8. OwedAt(h, now) \in Nat /\ OwedAt(h, now) <= OwedByClose(next, now, g.reserved)
  <2>1. next # None
    BY <1>3, ChannelAssumption
  <2>2. OwedAt(h, now) = OwedByClose(next, now, h.reserved)
    BY <1>7, <2>1 DEF OwedAt
  <2>3. h.reserved = 0 => OwedAt(h, now) = 0
    BY <1>7, OwedOfNothing
  <2> QED BY <1>3, <1>7, <2>2, <2>3
<1>9. /\ Remaining(g) \in Nat /\ OwedAt(g, now) \in Nat /\ OwedByClose(next, now, g.reserved) \in Nat
  BY <1>3, RemainingType, OwedType, WidthNat
<1>10. /\ OwedAt(h, now) <= OwedAt(g, now) + moved
       /\ Remaining(g) + OwedAt(h, now) <= Remaining(h) + (OwedAt(g, now) + moved)
  BY <1>1, <1>5, <1>7, <1>8, <1>9 DEF SatSub
<1>11. BudgetOf(g, now).remaining + OwedAt(h, now)
          <= BudgetOf(h, now).remaining + (OwedAt(g, now) + moved)
  <2> DEFINE n == OwedAt(g, now) + moved
  <2>1. n \in Nat
    BY <1>1, <1>9
  <2> HIDE DEF n
  <2>2. BudgetOf(g, now).remaining + OwedAt(h, now) <= BudgetOf(h, now).remaining + n
    BY <1>7, <1>8, <1>10, <2>1, BudgetCosts DEF n
  <2> QED BY <2>2 DEF n
<1> QED BY <1>3, <1>7, <1>11

\* h has g's budget, at the same rate, and is in the same second.
Alike(g, h) ==
    /\ h.authorized = g.authorized /\ h.consumed = g.consumed /\ h.deadline = g.deadline
    /\ h.reserved = g.reserved /\ h.second = g.second

(* What channels a session has is apart from what it draws (open_channel,     *)
(* close_channels, record_failures).                                          *)
LEMMA ChannelsAlike ==
    ASSUME NEW g \in GrantState, NEW cs, NEW c
    PROVE  /\ Alike(g, CloseChannels(g, cs))
           /\ Alike(g, RecordFailures(g, cs))
           /\ Alike(g, OpenChannel(g, c))
<1>1. Alike(g, CloseChannels(g, cs))
  BY DEF Alike, CloseChannels, GrantState
<1>2. Alike(g, RecordFailures(g, cs))
  BY DEF Alike, RecordFailures, GrantState
<1>3. Alike(g, OpenChannel(g, c))
  BY DEF Alike, OpenChannel, GrantState
<1> QED BY <1>1, <1>2, <1>3

(* Grants alike hold the same, and owe the same. *)
LEMMA AlikeHolds ==
    ASSUME NEW g, NEW h, Alike(g, h)
    PROVE  /\ SameBudget(g, h)
           /\ \A t : BudgetOf(h, t) = BudgetOf(g, t) /\ OwedAt(h, t) = OwedAt(g, t)
BY DEF Alike, SameBudget, Remaining, BudgetOf, OwedAt

(* A session resumed costs what the part second owed, and owes no more. *)
LEMMA RestartCosts ==
    ASSUME NEW g \in GrantState, GrantSound(g), NEW now \in U64,
           g.second # None => ReadBy(g.second, now),
           NEW h, h = Restart(g, now)
    PROVE  /\ h.second = None /\ h.authorized <= g.authorized
           /\ BudgetOf(g, now).remaining <= BudgetOf(h, now).remaining + OwedAt(g, now)
<1>1. /\ BudgetOf(h, now) = BudgetOf(Pause(g), now)
      /\ h.authorized = BudgetOf(Pause(g), now).remaining
  BY RestartDraws
<1>2. h.second = None
  BY NewGrantSound DEF Restart, Restore, GrantState
<1>3. /\ Pause(g) \in GrantState /\ Pause(g).authorized = g.authorized /\ GrantSound(Pause(g))
  BY PauseSound, PauseDraws
<1> DEFINE k == Pause(g)
<1> HIDE DEF k
<1>4. BudgetOf(k, now).remaining <= k.authorized
  <2>1. /\ k \in GrantState /\ GrantSound(k) /\ k.authorized \in Nat /\ k.consumed \in Nat
        /\ Remaining(k) \in Nat
    BY <1>3, RemainingType, WidthNat DEF k, GrantState
  <2>2. Remaining(k) <= k.authorized
    BY <2>1 DEF Remaining, SatSub
  <2> QED BY <2>1, <2>2, BudgetOfIs
<1> QED BY <1>1, <1>2, <1>3, <1>4, PauseCosts DEF k

(* Expiry costs nothing, and ends what is owed. *)
LEMMA ExpireCosts ==
    ASSUME NEW g \in GrantState, GrantSound(g), NEW now \in U64,
           NEW h, h = ExpireIfDue(g, now)
    PROVE  /\ h.authorized = g.authorized /\ h.second = g.second
           /\ BudgetOf(h, now).remaining = BudgetOf(g, now).remaining
           /\ OwedAt(h, now) <= OwedAt(g, now)
<1>1. OwedAt(g, now) \in Nat
  BY OwedType
<1>2. BudgetOf(g, now).remaining = IF IsLive(g, now) THEN Remaining(g) ELSE 0
  BY BudgetOfIs
<1>3. CASE now < g.deadline
  BY <1>1, <1>2, <1>3 DEF ExpireIfDue
<1>4. CASE ~(now < g.deadline)
  <2>1. h \in GrantState /\ h.second = g.second
    BY ExpireSound
  <2>2. Remaining(h) = 0 /\ h.deadline = g.deadline /\ h.authorized = g.authorized
    BY <1>4, ExpireDraws
  <2>3. h.reserved = 0
    BY <1>4 DEF ExpireIfDue, GrantState
  <2>4. BudgetOf(h, now).remaining = 0 /\ BudgetOf(g, now).remaining = 0
    BY <1>2, <1>4, <2>1, <2>2, BudgetOfIs DEF IsLive
  <2>5. OwedAt(h, now) = 0
    BY <2>1, <2>3, OwedOfNothing
  <2> QED BY <1>1, <2>1, <2>2, <2>4, <2>5
<1> QED BY <1>3, <1>4

(* A purchase goes on with the second being drawn, or starts one. *)
LEMMA ApplySecond ==
    ASSUME NEW g \in GrantState, NEW us, NEW window, NEW rate, NEW now
    PROVE  Apply(g, us, window, rate, now).second \in {g.second, SecondStarting(now)}
<1> DEFINE ratcheted ==
            [g EXCEPT
               !.signed = [c \in Channels |->
                    IF c \in Named(us) THEN TotalOn(us, c) ELSE @[c]],
               !.failures = [c \in Channels |-> IF c \in Named(us) THEN 0 ELSE @[c]]]
           unexpired == ExpireIfDue(ratcheted, now)
           k         == [unexpired EXCEPT !.second = None]
           split     ==
            IF rate # unexpired.reserved /\ unexpired.second # None
            THEN Take(k, OwedByClose(unexpired.second, now, unexpired.reserved))
            ELSE unexpired
           inc == Increase(g, us)
<1>1. DOMAIN unexpired = DOMAIN g /\ "second" \in DOMAIN g /\ unexpired.second = g.second
  BY DEF ExpireIfDue, GrantState
<1>2. Apply(g, us, window, rate, now) =
        [split EXCEPT !.authorized = SatAdd(@, inc), !.deadline = Greatest(@, SatAdd(now, window)),
                      !.reserved = rate,
                      !.second = IF @ = None THEN SecondStarting(now) ELSE @]
  BY DEF Apply
<1> HIDE DEF unexpired, inc
<1>3. DOMAIN split = DOMAIN g /\ split.second \in {None, g.second}
  <2>1. k.second = None /\ DOMAIN k = DOMAIN g
    BY <1>1
  <2> HIDE DEF k
  <2>2. \A owed : Take(k, owed).second = None /\ DOMAIN Take(k, owed) = DOMAIN g
    BY <1>1, <2>1 DEF Take
  <2> QED BY <1>1, <2>2
<1> HIDE DEF split
<1> QED BY <1>1, <1>2, <1>3

(* A purchase is honoured for no shorter a time than the policy allows, and   *)
(* takes no channel past its capacity.                                        *)
LEMMA AcceptedWithin ==
    ASSUME NEW g \in GrantState, NEW available, NEW us \in Updates,
           NEW window \in U64, NEW rate,
           Verdict(g, available, us, window, rate) = "Accept",
           NEW rec, NEW then, Records(us, rec, then),
           \A c \in Channels : rec[c] <= Capacity[c]
    PROVE  /\ MIN_WINDOW <= window
           /\ \A c \in Channels : then[c] <= Capacity[c]
<1>1. window \in MIN_WINDOW .. MAX_WINDOW
  <2>1. DOMAIN us # {} /\ Faulty(g, us) = {}
    BY AcceptedFaultless
  <2> QED BY <2>1 DEF Verdict
<1>2. ASSUME NEW c \in Channels, c \in Named(us)
      PROVE  then[c] <= Capacity[c]
  <2>1. TotalOn(us, c) <= Capacity[c]
    BY <1>2, TotalType
  <2> QED BY <1>2, <2>1 DEF Records
<1>3. MIN_WINDOW <= window
  BY <1>1, PolicyAssumption, WidthNat
<1> QED BY <1>2, <1>3 DEF Records
==============================================================================
