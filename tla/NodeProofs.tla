----------------------------- MODULE NodeProofs ------------------------------
(***************************************************************************)
(* What is proved of the parts of a node that MCNode runs: that the host   *)
(* agrees with core about a peer, for any number of connections, addresses *)
(* and fundings, and any time, outages and crashes; what SettlerProofs     *)
(* proves of settlements; that core never waits on a funding request the   *)
(* host has answered, nor asks a mint again too soon; and how many         *)
(* keepalives may be lost.                                                 *)
(***************************************************************************)
EXTENDS MCNode, Sequences, FiniteSetTheorems, TLAPS

-----------------------------------------------------------------------------
(* The host and core. *)

Conn     == [addr : Addrs, st : {"none", "up", "ended"}]
Records  == [Keys -> Record \cup {None}]

\* The connections, and what is held for them.
WireInv ==
    /\ conns \in [Conns -> Conn] /\ link \in Conns \cup {0}
    /\ gated \in Addrs \cup {None} /\ selling \in BOOLEAN
    /\ fundings \in [Fundings -> Incoming]
    /\ GateFollowsLink
    /\ IsFiniteSet(Held) /\ HeldOnLink

\* A budget whose deadline is one a purchase of D put there.
Bought(s, D) == s.budget.remaining > 0 => s.budget.deadline + started \in D[s.owner]

\* Core's session and its budget, live, ending or parked.
CoreInv ==
    /\ unix \in Nat /\ started \in 0 .. unix /\ due \in [Keys -> SUBSET Nat]
    /\ session \in Session \cup {None} /\ parked \in Session \cup {None}
    /\ budget_key \in Keys \cup {None}
    /\ HeldOnce /\ OwnBudget
    /\ session # None => Bought(session, due)
    /\ parked # None => Bought(parked, due)

\* What is kept was bought, by whom it is kept for.
Filed(recs, D) == \A k \in Keys : recs[k] # None => recs[k].deadline_unix \in D[k]

StoreInv ==
    /\ records \in Records /\ file \in Records /\ dirty \in BOOLEAN
    /\ Filed(records, due) /\ Filed(file, due)
    /\ FileCatchesUp

IInv == WireInv /\ CoreInv /\ StoreInv

(* The parts of the invariant are what the host is to agree with core on. *)
LEMMA IInvAgrees == IInv => AgreesWithCore
<1> SUFFICES ASSUME IInv PROVE AgreesWithCore
  OBVIOUS
<1>1. TypeOK
  BY DEF IInv, WireInv, CoreInv, StoreInv, TypeOK, Conn, Incoming, Records
<1>2. DeadlineKept
  BY DEF IInv, CoreInv, DeadlineKept, Bought
<1> QED BY <1>1, <1>2 DEF IInv, WireInv, CoreInv, StoreInv, AgreesWithCore

-----------------------------------------------------------------------------
(* The store. *)

(* Pruning leaves records that were there, and twice is once, later. *)
LEMMA Prunes ==
    ASSUME NEW r \in Records, NEW u \in Nat, NEW q, q = Prune(r, u)
    PROVE  /\ q \in Records
           /\ \A k \in Keys : q[k] # None => q[k] = r[k]
           /\ \A v \in Nat : u <= v => Prune(q, v) = Prune(r, v)
<1>1. \A k \in Keys : r[k] # None => r[k] \in Record
  BY DEF Records
<1>2. q \in Records
  BY <1>1 DEF Prune, Records
<1>3. ASSUME NEW v \in Nat, u <= v PROVE Prune(q, v) = Prune(r, v)
  <2>1. ASSUME NEW k \in Keys
        PROVE  (q[k] # None /\ q[k].remaining > 0 /\ q[k].deadline_unix > v)
                  <=> (r[k] # None /\ r[k].remaining > 0 /\ r[k].deadline_unix > v)
    BY <1>1, <1>3 DEF Prune, Record
  <2>2. ASSUME NEW k \in Keys, q[k] # None PROVE q[k] = r[k]
    BY <2>2 DEF Prune
  <2> QED BY <2>1, <2>2 DEF Prune
<1> QED BY <1>2, <1>3 DEF Prune

\* What a save leaves.
Saved(D) ==
    /\ records' \in Records /\ file' \in Records /\ dirty' \in BOOLEAN
    /\ Filed(records', D) /\ Filed(file', D)
    /\ dirty' \/ Prune(file', unix) = Prune(records', unix)

(* Saving a budget files it under its own deadline on the wall, and a write  *)
(* that works catches the file up.                                           *)
LEMMA SaveKeeps ==
    ASSUME StoreInv, unix \in Nat, started \in 0 .. unix, NEW k \in Keys, NEW s \in Session,
           NEW D, \A i \in Keys : due[i] \subseteq D[i],
           s.budget.remaining > 0 => s.budget.deadline + started \in D[k],
           Save(records, k, s)
    PROVE  Saved(D)
<1> DEFINE b == s.budget
           left == IF b.deadline > now THEN b.deadline - now ELSE 0
           gone == b.remaining = 0 \/ left = 0
           kept == IF gone THEN None ELSE [remaining |-> b.remaining, deadline_unix |-> unix + left]
           recs == [records EXCEPT ![k] = kept]
<1>1. /\ b \in Budget /\ now \in Nat /\ b.remaining \in Nat /\ b.deadline \in Nat
      /\ now + started = unix
  BY DEF Session, Budget, now
<1>2. left \in Nat /\ (left # 0 => unix + left = b.deadline + started)
  BY <1>1
<1>3. records \in Records /\ file \in Records /\ Filed(records, D) /\ Filed(file, D)
  BY DEF StoreInv, Filed
<1>4. kept \in Record \cup {None} /\ (kept # None => kept.deadline_unix \in D[k])
  <2>1. CASE gone
    BY <2>1
  <2>2. CASE ~gone
    <3>1. b.remaining > 0 /\ unix + left \in Nat /\ unix + left \in D[k]
      BY <1>1, <1>2, <2>2
    <3>2. kept = [remaining |-> b.remaining, deadline_unix |-> unix + left]
      BY <2>2
    <3> QED BY <1>1, <3>1, <3>2 DEF Record
  <2> QED BY <2>1, <2>2
<1> HIDE DEF kept
<1>5. recs \in Records /\ Filed(recs, D)
  BY <1>3, <1>4 DEF Records, Filed
<1> HIDE DEF recs
<1> DEFINE q == Prune(recs, unix)
<1>6. q \in Records /\ Filed(q, D)
  BY <1>5, Prunes DEF Filed
<1>7. \/ records' = records /\ UNCHANGED <<file, dirty>>
      \/ records' = q /\ file' = q /\ dirty' = FALSE
      \/ records' = q /\ file' = file /\ dirty' = TRUE
  BY DEF Save, Put, kept, recs
<1> HIDE DEF q
<1> QED BY <1>3, <1>6, <1>7 DEF Saved, StoreInv, FileCatchesUp

-----------------------------------------------------------------------------
(* What stays. *)

(* The store, in a step that does not touch it. *)
LEMMA StoreStays ==
    ASSUME StoreInv, unix \in Nat, UNCHANGED <<store, unix>>, \A k \in Keys : due[k] \subseteq due'[k]
    PROVE  StoreInv'
  BY DEF StoreInv, store, Filed, FileCatchesUp

(* The store, after a save. *)
LEMMA StoreSaved ==
    ASSUME Saved(due'), UNCHANGED unix
    PROVE  StoreInv'
  BY DEF StoreInv, Saved, FileCatchesUp

(* The connections, in a step that touches neither them nor what is held. *)
LEMMA WireStays ==
    ASSUME WireInv, UNCHANGED <<wire, fundings>>, selling' \in BOOLEAN
    PROVE  WireInv'
<1>1. Held' = Held
  BY DEF Held
<1> QED BY <1>1 DEF WireInv, wire, GateFollowsLink, HeldOnLink

(* Nothing is held once what was is dropped. *)
LEMMA DroppingHolds ==
    ASSUME NEW fs \in [Fundings -> Incoming], NEW r, r = Dropping(fs)
    PROVE  r \in [Fundings -> Incoming] /\ \A f \in Fundings : r[f].at # "held"
<1>1. ASSUME NEW f \in Fundings PROVE r[f] \in Incoming /\ r[f].at # "held"
  <2>1. fs[f] \in Incoming
    OBVIOUS
  <2> DEFINE i == [fs[f] EXCEPT !.at = "dropped"]
  <2>2. i \in Incoming /\ i.at = "dropped"
    BY <2>1 DEF Incoming
  <2>3. r[f] = IF fs[f].at = "held" THEN i ELSE fs[f]
    BY DEF Dropping
  <2> QED BY <2>1, <2>2, <2>3
<1>2. r = [f \in Fundings |-> r[f]]
  BY DEF Dropping
<1> QED BY <1>1, <1>2

(* With nothing held there is nothing held for another connection. *)
LEMMA NothingHeld ==
    ASSUME \A f \in Fundings : fundings'[f].at # "held"
    PROVE  IsFiniteSet(Held') /\ HeldOnLink'
<1>1. Held' = {}
  BY DEF Held
<1>2. IsFiniteSet(Held') /\ Cardinality(Held') = 0
  BY <1>1, FS_EmptySet
<1> QED BY <1>1, <1>2, HostAssumption DEF HeldOnLink

(* The end of one of the peer's connections, or of the peer. *)
LEMMA WireDrops ==
    ASSUME WireInv, conns' \in [Conns -> Conn], link' = 0, gated' = None, UNCHANGED selling,
           fundings' \in [Fundings -> Incoming], \A f \in Fundings : fundings'[f].at # "held"
    PROVE  WireInv'
  BY NothingHeld DEF WireInv, GateFollowsLink

(* Fewer are held. *)
LEMMA HoldsFewer ==
    ASSUME WireInv, UNCHANGED <<wire, selling>>, fundings' \in [Fundings -> Incoming],
           \A f \in Fundings : fundings'[f].at = "held" => fundings'[f] = fundings[f]
    PROVE  WireInv'
<1>1. Held' \subseteq Held /\ IsFiniteSet(Held)
  BY DEF Held, WireInv
<1>2. IsFiniteSet(Held') /\ Cardinality(Held') <= Cardinality(Held)
  BY <1>1, FS_Subset
<1>3. Cardinality(Held) \in Nat /\ Cardinality(Held') \in Nat
  BY <1>1, <1>2, FS_CardinalityType
<1>4. HeldOnLink'
  BY <1>1, <1>2, <1>3, HostAssumption DEF WireInv, HeldOnLink, Held, wire
<1> QED BY <1>2, <1>4 DEF WireInv, GateFollowsLink, wire

(* What core holds, in a step that touches neither it nor the connections.   *)
LEMMA CoreStays ==
    ASSUME CoreInv, UNCHANGED <<conns, link, session, parked, budget_key, started, due>>,
           unix' \in Nat, unix <= unix'
    PROVE  CoreInv'
<1>1. started' \in 0 .. unix'
  BY DEF CoreInv
<1> QED BY <1>1 DEF CoreInv, HeldOnce, OwnBudget, Bought

(* A budget is its owner's. *)
LEMMA OwnerOf ==
    ASSUME CoreInv, NEW s \in {session, parked}, s # None
    PROVE  /\ s \in Session /\ budget_key \in Keys /\ budget_key # None /\ s.owner = budget_key
           /\ s.budget.remaining > 0 => s.budget.deadline + started \in due[budget_key]
  BY NoneAssumption DEF CoreInv, OwnBudget, Bought, Session

(* Saving what core holds under the key it is held under. *)
LEMMA SavesOwn ==
    ASSUME CoreInv, StoreInv, NEW s \in {session, parked}, s # None, Save(records, budget_key, s),
           UNCHANGED due
    PROVE  Saved(due')
<1>1. /\ s \in Session /\ budget_key \in Keys
      /\ s.budget.remaining > 0 => s.budget.deadline + started \in due[budget_key]
  BY OwnerOf
<1>2. unix \in Nat /\ started \in 0 .. unix
  BY DEF CoreInv
<1> QED BY <1>1, <1>2, SaveKeeps

-----------------------------------------------------------------------------
(* The wire. *)

(* Init. *)
LEMMA InitIInv == Init => IInv
<1> SUFFICES ASSUME Init PROVE IInv
  OBVIOUS
<1>1. conns \in [Conns -> Conn] /\ fundings \in [Fundings -> Incoming] /\ Held = {}
  BY DEF Init, Conn, Incoming, Held
<1>2. WireInv
  BY <1>1, FS_EmptySet, HostAssumption DEF Init, WireInv, GateFollowsLink, HeldOnLink
<1>3. CoreInv
  BY DEF Init, CoreInv, HeldOnce, OwnBudget
<1>4. StoreInv
  BY DEF Init, StoreInv, NoRecords, Records, Filed, FileCatchesUp
<1> QED BY <1>2, <1>3, <1>4 DEF IInv

(* A new session holds what was kept under its key, its deadline where it    *)
(* was on the wall.                                                          *)
LEMMA NewSessionBought ==
    ASSUME CoreInv, NEW recs \in Records, Filed(recs, due), NEW k \in Keys,
           NEW s, s = NewSession(k, Get(recs, k, unix, now))
    PROVE  s \in Session /\ s.owner = k /\ s.closing = FALSE /\ Bought(s, due)
<1> DEFINE r == recs[k]
           b == Get(recs, k, unix, now)
           g == [remaining |-> r.remaining, deadline |-> now + (r.deadline_unix - unix)]
           h == IF b = None THEN [remaining |-> 0, deadline |-> 0] ELSE b
<1>1. r \in Record \cup {None} /\ unix \in Nat /\ started \in 0 .. unix /\ now = unix - started
  BY DEF Records, CoreInv, now
<1>2. h \in Budget /\ (h.remaining > 0 => h.deadline + started \in due[k])
  <2>1. CASE r # None /\ r.remaining > 0 /\ r.deadline_unix > unix
    <3>1. r.remaining \in Nat /\ r.deadline_unix \in Nat /\ r.deadline_unix \in due[k]
      BY <1>1, <2>1 DEF Record, Filed
    <3>2. now + (r.deadline_unix - unix) \in Nat
          /\ now + (r.deadline_unix - unix) + started = r.deadline_unix
      BY <1>1, <2>1, <3>1
    <3>3. b = g
      BY <2>1 DEF Get
    <3>4. g \in Budget /\ g.deadline + started \in due[k]
      BY <3>1, <3>2 DEF Budget
    <3>5. h = g \/ h = [remaining |-> 0, deadline |-> 0]
      BY <3>3
    <3> HIDE DEF g, h
    <3> QED BY <3>4, <3>5 DEF Budget
  <2>2. CASE ~(r # None /\ r.remaining > 0 /\ r.deadline_unix > unix)
    <3>1. h = [remaining |-> 0, deadline |-> 0]
      BY <2>2 DEF Get
    <3> QED BY <3>1 DEF Budget
  <2> QED BY <2>1, <2>2
<1>3. s = [closing |-> FALSE, resumed |-> FALSE, owner |-> k, budget |-> h]
  BY DEF NewSession
<1> HIDE DEF h
<1> QED BY <1>2, <1>3 DEF Session, Bought

(* A new connection: the session it starts over is the payer's own, or is    *)
(* saved under the key of the one it belongs to.                             *)
LEMMA PeerUpIInv ==
    ASSUME IInv, NEW n \in Conns, PeerUp(n)
    PROVE  IInv'
<1> DEFINE k    == Key(conns[n].addr)
           over == IF Foreign(k) THEN IF session # None THEN session ELSE parked
                   ELSE IF session # None /\ session.closing THEN session ELSE None
           kept == IF Foreign(k) THEN None ELSE Kept
           recs == IF Foreign(k) THEN records' ELSE records
<1> USE DEF IInv
<1>1. /\ n # 0 /\ conns \in [Conns -> Conn] /\ conns[n] \in Conn /\ conns[n].addr \in Addrs
      /\ k \in Keys /\ k # None
  BY HostAssumption, NoneAssumption DEF WireInv, Conn, Keys
<1>2. /\ conns' = [conns EXCEPT ![n].st = "up"] /\ link' = n /\ gated' = conns[n].addr
      /\ fundings' = Replacing /\ parked' = StillParked(k) /\ budget_key' = k
      /\ UNCHANGED <<selling, unix, started, due>>
  BY DEF PeerUp, bounds
<1>3. IF over = None THEN UNCHANGED store
      ELSE Save(records, IF Foreign(k) THEN budget_key ELSE k, over)
  BY DEF PeerUp
<1>4. session' = IF kept # None THEN [kept EXCEPT !.resumed = TRUE]
                 ELSE NewSession(k, Get(recs, k, unix, now))
  BY DEF PeerUp
<1>5. conns' \in [Conns -> Conn] /\ conns'[n].addr = conns[n].addr
  BY <1>1, <1>2 DEF Conn
<1>6. WireInv'
  <2>1. fundings' \in [Fundings -> Incoming] /\ IsFiniteSet(Held') /\ HeldOnLink'
    <3>1. CASE link # 0
      <4>1. fundings' \in [Fundings -> Incoming] /\ \A f \in Fundings : fundings'[f].at # "held"
        BY <3>1, <1>2, DroppingHolds DEF Replacing, WireInv
      <4> QED BY <4>1, NothingHeld
    <3>2. CASE link = 0
      <4>1. fundings' = fundings /\ Held' = Held
        BY <3>2, <1>2 DEF Replacing, Held
      <4>2. \A f \in Held : fundings[f].late
        BY <3>2 DEF WireInv, HeldOnLink
      <4> QED BY <4>1, <4>2 DEF WireInv, HeldOnLink
    <3> QED BY <3>1, <3>2
  <2>2. GateFollowsLink'
    BY <1>1, <1>2, <1>5 DEF GateFollowsLink
  <2> QED BY <1>1, <1>2, <1>5, <2>1, <2>2 DEF WireInv
<1>7. /\ session # None => budget_key = session.owner /\ budget_key # None
      /\ parked # None => budget_key = parked.owner /\ budget_key # None
  BY OwnerOf
<1>8. over # None => /\ over \in {session, parked}
                     /\ (IF Foreign(k) THEN budget_key ELSE k) = budget_key
  BY <1>7 DEF Foreign
<1>9. StoreInv'
  <2>1. CASE over = None
    BY <2>1, <1>2, <1>3, StoreStays DEF CoreInv
  <2>2. CASE over # None
    <3>1. over \in {session, parked} /\ Save(records, budget_key, over)
      BY <2>2, <1>3, <1>8
    <3> HIDE DEF over
    <3>2. Saved(due')
      BY <2>2, <3>1, <1>2, SavesOwn
    <3> QED BY <3>2, <1>2, StoreSaved
  <2> QED BY <2>1, <2>2
<1>10. session' \in Session /\ session'.owner = k /\ Bought(session', due)
  <2>1. CASE kept # None
    <3>1. kept \in {session, parked} /\ ~Foreign(k)
      BY <2>1 DEF Kept
    <3>2. session' = [kept EXCEPT !.resumed = TRUE]
      BY <2>1, <1>4
    <3> HIDE DEF kept
    <3>3. kept \in Session /\ kept.owner = budget_key /\ budget_key = k
      BY <2>1, <3>1, OwnerOf DEF Foreign
    <3>4. Bought(kept, due)
      BY <2>1, <3>1 DEF CoreInv
    <3> QED BY <3>2, <3>3, <3>4 DEF Session, Bought
  <2>2. CASE kept = None
    <3>1. recs \in Records /\ Filed(recs, due)
      BY <1>2, <1>9 DEF StoreInv
    <3>2. session' = NewSession(k, Get(recs, k, unix, now))
      BY <2>2, <1>4
    <3> HIDE DEF recs, k
    <3> QED BY <1>1, <3>1, <3>2, NewSessionBought
  <2> QED BY <2>1, <2>2
<1>11. parked' = None
  BY <1>2 DEF StillParked, CoreInv, HeldOnce
<1>12. CoreInv'
  BY <1>1, <1>2, <1>5, <1>10, <1>11 DEF CoreInv, HeldOnce, OwnBudget, Bought
<1> QED BY <1>6, <1>9, <1>12

(* A session that ends is kept by core or in the store, under its own key.   *)
LEMMA Parks ==
    ASSUME CoreInv, StoreInv, session # None, Park(session), UNCHANGED <<unix, started, due>>
    PROVE  StoreInv' /\ parked' \in Session /\ parked'.owner = budget_key /\ Bought(parked', due)
<1>1. /\ session \in Session /\ budget_key \in Keys /\ session.owner = budget_key
      /\ session.budget.remaining > 0 => session.budget.deadline + started \in due[budget_key]
  BY OwnerOf
<1>2. StoreInv'
  BY SavesOwn, StoreSaved DEF Park
<1>3. parked' = [session EXCEPT !.closing = FALSE, !.resumed = FALSE]
  BY DEF Park
<1> QED BY <1>1, <1>2, <1>3 DEF Session, Bought

(* The end of a connection. *)
LEMMA PeerDownIInv ==
    ASSUME IInv, NEW n \in Conns, PeerDown(n)
    PROVE  IInv'
<1> USE DEF IInv
<1>1. conns' = [conns EXCEPT ![n].st = "ended"] /\ UNCHANGED <<selling, budget_key, unix, started, due>>
  BY DEF PeerDown, bounds
<1>2. conns' \in [Conns -> Conn] /\ \A m \in Conns : conns'[m].addr = conns[m].addr
  BY <1>1 DEF WireInv, Conn
<1>3. CASE Replaced(n)
  <2>1. UNCHANGED <<link, gated, fundings, session, parked, store>>
    BY <1>3 DEF PeerDown
  <2>2. Held' = Held
    BY <2>1 DEF Held
  <2>3. WireInv'
    BY <1>1, <1>2, <2>1, <2>2 DEF WireInv, GateFollowsLink, HeldOnLink
  <2>4. CoreInv'
    BY <1>1, <1>2, <2>1 DEF WireInv, CoreInv, HeldOnce, OwnBudget, Bought
  <2>5. StoreInv'
    BY <1>1, <2>1, StoreStays DEF CoreInv
  <2> QED BY <2>3, <2>4, <2>5
<1>4. CASE ~Replaced(n)
  <2>1. /\ LetGo /\ session' = None
        /\ CASE session = None    -> UNCHANGED <<parked, store>>
             [] session # None /\ session.closing ->
                   Save(records, budget_key, session) /\ UNCHANGED parked
             [] OTHER             -> Park(session)
    BY <1>4 DEF PeerDown
  <2>2. WireInv'
    BY <1>1, <1>2, <2>1, DroppingHolds, WireDrops DEF LetGo, WireInv
  <2>3. StoreInv' /\ (\/ UNCHANGED parked
                      \/ parked' \in Session /\ parked'.owner = budget_key /\ Bought(parked', due))
    <3>1. CASE session = None
      BY <3>1, <1>1, <2>1, StoreStays DEF CoreInv
    <3>2. CASE session # None /\ session.closing
      <4>1. Save(records, budget_key, session) /\ UNCHANGED parked
        BY <3>2, <2>1
      <4> QED BY <4>1, <3>2, <1>1, SavesOwn, StoreSaved
    <3>3. CASE session # None /\ ~session.closing
      <4>1. Park(session)
        BY <3>3, <2>1
      <4> QED BY <4>1, <3>3, <1>1, Parks
    <3> QED BY <3>1, <3>2, <3>3
  <2>4. CoreInv'
    BY <1>1, <2>1, <2>3, NoneAssumption DEF CoreInv, HeldOnce, OwnBudget, Bought, LetGo
  <2> QED BY <2>2, <2>3, <2>4
<1> QED BY <1>3, <1>4

(* A message core hears is on the connection the peer is on, or comes after *)
(* core has dropped the peer.                                                *)
LEMMA HearsOnLink ==
    ASSUME IInv, NEW n \in Conns, Hears(n)
    PROVE  link \in {0, n} /\ n # 0 /\ session \in Session /\ session # None /\ parked = None
  BY HostAssumption DEF IInv, CoreInv, WireInv, Hears, Replaced, HeldOnce

(* A funding is held on the connection it comes on, if there is room, and is *)
(* late if that is the peer's no more.                                       *)
LEMMA FundingIInv ==
    ASSUME IInv, NEW n \in Conns, NEW f \in Fundings, Funding(n, f)
    PROVE  IInv'
<1> USE DEF IInv
<1> DEFINE to == [at |-> IF selling THEN "verifying" ELSE IF HasRoom THEN "held" ELSE "dropped",
                  via |-> n, late |-> link = 0]
<1>1. /\ Hears(n) /\ fundings[f].at = "none" /\ fundings' = [fundings EXCEPT ![f] = to]
      /\ UNCHANGED <<wire, selling, session, parked, budget_key, store, unix, started, due>>
  BY DEF Funding
<1>2. link = 0 \/ (link = n /\ n # 0)
  BY <1>1, HearsOnLink
<1>3. /\ to \in Incoming /\ to.via = n /\ to.late = (link = 0) /\ (to.at = "held" => HasRoom)
  BY DEF Incoming, WireInv
<1> HIDE DEF to
<1>4. fundings \in [Fundings -> Incoming] /\ fundings' \in [Fundings -> Incoming]
  BY <1>1, <1>3 DEF WireInv
<1>5. IsFiniteSet(Held) /\ Cardinality(Held) \in Nat /\ Cardinality(Held) <= MAX_DEFERRED_FUNDINGS
  BY FS_CardinalityType DEF WireInv, HeldOnLink
<1>6. \A g \in Held : fundings[g].late \/ (link # 0 /\ fundings[g].via = link)
  BY DEF WireInv, HeldOnLink
<1>7. IsFiniteSet(Held') /\ Cardinality(Held') <= MAX_DEFERRED_FUNDINGS
  <2>1. CASE to.at = "held"
    <3>1. Held' = Held \cup {f} /\ f \notin Held
      BY <2>1, <1>1, <1>4 DEF Held
    <3>2. IsFiniteSet(Held') /\ Cardinality(Held') = Cardinality(Held) + 1
      BY <3>1, <1>5, FS_AddElement
    <3>3. Cardinality(Held) < MAX_DEFERRED_FUNDINGS
      BY <2>1, <1>3 DEF HasRoom
    <3> QED BY <1>5, <3>2, <3>3, HostAssumption
  <2>2. CASE to.at # "held"
    <3>1. Held' = Held
      BY <2>2, <1>1, <1>4 DEF Held
    <3> QED BY <3>1, <1>5
  <2> QED BY <2>1, <2>2
<1>8. \A g \in Held' : fundings'[g].late \/ (link' # 0 /\ fundings'[g].via = link')
  BY <1>1, <1>2, <1>3, <1>4, <1>6 DEF Held, wire
<1>9. WireInv'
  BY <1>1, <1>4, <1>7, <1>8 DEF WireInv, GateFollowsLink, HeldOnLink, wire
<1>10. CoreInv'
  BY <1>1, CoreStays DEF wire, CoreInv
<1>11. StoreInv'
  BY <1>1, StoreStays DEF CoreInv
<1> QED BY <1>9, <1>10, <1>11

(* A purchase: its deadline is the one it puts on the wall. *)
LEMMA TopUpIInv ==
    ASSUME IInv, NEW n \in Conns, TopUp(n)
    PROVE  IInv'
<1> USE DEF IInv
<1> DEFINE after == [remaining |-> (IF session.budget.deadline > now
                                    THEN session.budget.remaining ELSE 0) + 1,
                     deadline  |-> now + WINDOW]
           s == [session EXCEPT !.budget = after]
<1>1. /\ Hears(n) /\ session' = s /\ Save(records, budget_key, s)
      /\ due' = [due EXCEPT ![session.owner] = @ \cup {unix + WINDOW}]
      /\ UNCHANGED <<wire, selling, fundings, parked, budget_key, unix, started>>
  BY DEF TopUp
<1>2. session \in Session /\ session # None /\ parked = None
  BY <1>1, HearsOnLink
<1>3. session.owner = budget_key /\ budget_key \in Keys
  BY <1>2, OwnerOf
<1>4. /\ unix \in Nat /\ started \in 0 .. unix /\ now \in Nat /\ now + started = unix
      /\ WINDOW \in Nat /\ due \in [Keys -> SUBSET Nat]
  BY HostAssumption DEF CoreInv, now
<1>5. after \in Budget /\ after.deadline + started = unix + WINDOW
  BY <1>2, <1>4 DEF Budget, Session
<1> HIDE DEF after
<1>6. s \in Session /\ s.owner = budget_key /\ s.closing = session.closing /\ s.budget = after
  BY <1>2, <1>3, <1>5 DEF Session
<1> HIDE DEF s
<1>7. /\ due' \in [Keys -> SUBSET Nat] /\ \A k \in Keys : due[k] \subseteq due'[k]
      /\ unix + WINDOW \in due'[budget_key]
  BY <1>1, <1>3, <1>4
<1>8. Saved(due')
  BY <1>1, <1>3, <1>4, <1>5, <1>6, <1>7, SaveKeeps
<1>9. StoreInv'
  BY <1>1, <1>8, StoreSaved
<1>10. WireInv'
  BY <1>1, WireStays DEF WireInv
<1>11. Bought(s, due')
  BY <1>5, <1>6, <1>7 DEF Bought
<1>12. link # 0 /\ session # None => session.owner = Key(conns[link].addr)
  BY DEF CoreInv, OwnBudget
<1>13. CoreInv'
  BY <1>1, <1>2, <1>3, <1>4, <1>6, <1>7, <1>11, <1>12
     DEF CoreInv, HeldOnce, OwnBudget, Bought, wire
<1> QED BY <1>9, <1>10, <1>13

\* A step that leaves the session there is, if any, its owner and its budget.
SameSession ==
    IF session = None THEN session' = None
    ELSE /\ session' \in Session /\ session'.owner = session.owner
         /\ session'.budget = session.budget

(* A session that starts to end, or is live again, is the session it was. *)
LEMMA SessionStays ==
    ASSUME CoreInv, NEW c \in BOOLEAN,
           session' = IF session = None THEN None ELSE [session EXCEPT !.closing = c]
    PROVE  SameSession
  BY NoneAssumption DEF CoreInv, Session, SameSession

(* It is its owner's still, on the connection it is on or on none. *)
LEMMA CoreKeepsSession ==
    ASSUME CoreInv, SameSession, UNCHANGED <<parked, budget_key, unix, started, due>>,
           link' = 0 \/ UNCHANGED <<conns, link>>
    PROVE  CoreInv'
<1>1. CASE session = None
  BY <1>1 DEF CoreInv, HeldOnce, OwnBudget, Bought, SameSession
<1>2. CASE session # None
  <2>1. /\ session' \in Session /\ session'.owner = session.owner
        /\ session'.budget = session.budget
    BY <1>2 DEF SameSession
  <2>2. parked = None /\ session.owner = budget_key /\ Bought(session, due)
    BY <1>2 DEF CoreInv, HeldOnce, OwnBudget
  <2> QED BY <1>2, <2>1, <2>2 DEF CoreInv, HeldOnce, OwnBudget, Bought
<1> QED BY <1>1, <1>2

(* The opening Offer of a session that resumed. *)
LEMMA OfferIInv ==
    ASSUME IInv, NEW n \in Conns, Offer(n)
    PROVE  IInv'
<1> USE DEF IInv
<1>1. /\ session # None
      /\ UNCHANGED <<wire, selling, fundings, parked, budget_key, store, unix, started, due>>
  BY DEF Offer, Hears, bounds
<1>2. PICK ending \in {session.closing, FALSE} :
         session' = [session EXCEPT !.resumed = FALSE, !.closing = ending]
  BY DEF Offer
<1>3. SameSession
  BY <1>1, <1>2, NoneAssumption DEF CoreInv, Session, SameSession
<1>4. WireInv'
  BY <1>1, WireStays DEF WireInv
<1>5. CoreInv'
  BY <1>1, <1>3, CoreKeepsSession DEF wire
<1>6. StoreInv'
  BY <1>1, StoreStays DEF CoreInv
<1> QED BY <1>4, <1>5, <1>6

(* A Disconnect. *)
LEMMA DisconnectIInv ==
    ASSUME IInv, NEW n \in Conns, Disconnect(n)
    PROVE  IInv'
<1> USE DEF IInv
<1>1. /\ session' = [session EXCEPT !.closing = TRUE] /\ session # None
      /\ link' = 0 /\ gated' = None /\ fundings' = Dropping(fundings)
      /\ UNCHANGED <<conns, selling, parked, budget_key, store, unix, started, due>>
  BY DEF Disconnect, Hears, LetGo, bounds
<1>2. WireInv'
  BY <1>1, DroppingHolds, WireDrops DEF WireInv
<1>3. CoreInv'
  BY <1>1, SessionStays, CoreKeepsSession
<1>4. StoreInv'
  BY <1>1, StoreStays DEF CoreInv
<1> QED BY <1>2, <1>3, <1>4

-----------------------------------------------------------------------------
(* Tasks, and the tick. *)

(* A funding that verifies. *)
LEMMA VerifiedIInv ==
    ASSUME IInv, NEW f \in Fundings, Verified(f)
    PROVE  IInv'
<1> USE DEF IInv
<1>1. /\ fundings' = [fundings EXCEPT ![f].at = "done"]
      /\ session' = IF session = None THEN None ELSE [session EXCEPT !.closing = FALSE]
      /\ UNCHANGED <<wire, selling, parked, budget_key, store, unix, started, due>>
  BY DEF Verified, bounds
<1>2. /\ fundings' \in [Fundings -> Incoming]
      /\ \A g \in Fundings : fundings'[g].at = "held" => fundings'[g] = fundings[g]
  BY <1>1 DEF WireInv, Incoming
<1>3. WireInv'
  BY <1>1, <1>2, HoldsFewer
<1>4. CoreInv'
  BY <1>1, SessionStays, CoreKeepsSession DEF wire
<1>5. StoreInv'
  BY <1>1, StoreStays DEF CoreInv
<1> QED BY <1>3, <1>4, <1>5

(* One that does not. *)
LEMMA NotVerifiedIInv ==
    ASSUME IInv, NEW f \in Fundings, NotVerified(f)
    PROVE  IInv'
<1> USE DEF IInv
<1> DEFINE d == Dropping(fundings)
<1>1. /\ link' = 0 /\ gated' = None /\ fundings' = [d EXCEPT ![f].at = "done"]
      /\ session' = IF session = None THEN None ELSE [session EXCEPT !.closing = TRUE]
      /\ UNCHANGED <<conns, selling, parked, budget_key, store, unix, started, due>>
  BY DEF NotVerified, bounds
<1>2. d \in [Fundings -> Incoming] /\ \A g \in Fundings : d[g].at # "held"
  BY DroppingHolds DEF WireInv
<1> HIDE DEF d
<1>3. fundings' \in [Fundings -> Incoming] /\ \A g \in Fundings : fundings'[g].at # "held"
  BY <1>1, <1>2 DEF Incoming
<1>4. WireInv'
  BY <1>1, <1>3, WireDrops DEF WireInv
<1>5. CoreInv'
  BY <1>1, SessionStays, CoreKeepsSession
<1>6. StoreInv'
  BY <1>1, StoreStays DEF CoreInv
<1> QED BY <1>4, <1>5, <1>6

(* What is released is no longer held. *)
LEMMA Releases ==
    ASSUME WireInv, NEW r, r = Released
    PROVE  /\ r \in [Fundings -> Incoming]
           /\ \A f \in Fundings : r[f].at = "held" => r[f] = fundings[f]
<1>1. fundings \in [Fundings -> Incoming]
  BY DEF WireInv
<1>2. CASE selling
  <2>1. ASSUME NEW f \in Fundings
        PROVE  r[f] \in Incoming /\ (r[f].at = "held" => r[f] = fundings[f])
    <3> DEFINE v == [fundings[f] EXCEPT !.at = "verifying"]
    <3>1. fundings[f] \in Incoming /\ v \in Incoming /\ v.at = "verifying"
      BY <1>1 DEF Incoming
    <3>2. r[f] = IF f \in Held THEN v ELSE fundings[f]
      BY <1>2 DEF Released
    <3> QED BY <3>1, <3>2
  <2>2. r = [f \in Fundings |-> r[f]]
    BY <1>2 DEF Released
  <2> QED BY <2>1, <2>2
<1>3. CASE ~selling
  BY <1>1, <1>3 DEF Released
<1> QED BY <1>2, <1>3

(* A key is let go of only when nothing is held under it. *)
LEMMA KeyRetained ==
    ASSUME CoreInv
    PROVE  /\ Retained \in Keys \cup {None}
           /\ session # None \/ parked # None => Retained = budget_key
  BY DEF CoreInv, Retained

(* A tick, and what it draws. *)
LEMMA TickIInv ==
    ASSUME IInv, NEW drawn \in {0, 1}, Tick(drawn)
    PROVE  IInv'
<1> USE DEF IInv
<1>1. /\ fundings' = Released /\ budget_key' = Retained /\ Draws(drawn)
      /\ UNCHANGED <<wire, selling, parked, store, unix, started, due>>
  BY DEF Tick, bounds
<1>2. WireInv'
  BY <1>1, Releases, HoldsFewer
<1>3. StoreInv'
  BY <1>1, StoreStays DEF CoreInv
<1>4. CASE session = None
  <2>1. session' = None
    BY <1>4 DEF Tick
  <2> QED BY <1>1, <1>2, <1>3, <1>4, <2>1, KeyRetained DEF CoreInv, HeldOnce, OwnBudget, Bought, wire
<1>5. CASE session # None
  <2> DEFINE left == IF session.budget.deadline > now THEN session.budget.remaining - drawn ELSE 0
             b == [session.budget EXCEPT !.remaining = left]
  <2>1. session \in Session /\ session.budget \in Budget
    BY <1>5 DEF CoreInv, Session
  <2>2. session' = [session EXCEPT !.budget = b]
    BY <1>5, <2>1 DEF Tick, Session, Budget
  <2>3. left \in Nat /\ (left > 0 => session.budget.remaining > 0)
    BY <1>1, <2>1 DEF Draws, Budget
  <2> HIDE DEF left
  <2>4. b \in Budget /\ b.remaining = left /\ b.deadline = session.budget.deadline
    BY <2>1, <2>3 DEF Budget
  <2> HIDE DEF b
  <2>5. /\ session' \in Session /\ session'.budget = b /\ session'.owner = session.owner
        /\ session'.closing = session.closing
    BY <2>1, <2>2, <2>4 DEF Session
  <2>6. Bought(session, due) /\ parked = None /\ budget_key' = budget_key
    BY <1>1, <1>5, KeyRetained DEF CoreInv, HeldOnce
  <2>7. Bought(session', due)
    BY <2>3, <2>4, <2>5, <2>6 DEF Bought
  <2>8. CoreInv'
    BY <1>1, <1>5, <2>5, <2>6, <2>7 DEF CoreInv, HeldOnce, OwnBudget, Bought, wire
  <2> QED BY <1>2, <1>3, <2>8
<1> QED BY <1>4, <1>5

(* A silent peer is parked and dropped. *)
LEMMA TickStaleIInv ==
    ASSUME IInv, TickStale
    PROVE  IInv'
<1> USE DEF IInv
<1>1. /\ session # None /\ Park(session) /\ session' = None /\ link' = 0 /\ gated' = None
      /\ fundings' = Dropping(Released) /\ budget_key' = Retained
      /\ UNCHANGED <<conns, selling, unix, started, due>>
  BY DEF TickStale, bounds
<1>2. Released \in [Fundings -> Incoming]
  BY Releases
<1>3. WireInv'
  BY <1>1, <1>2, DroppingHolds, WireDrops DEF WireInv
<1>4. /\ StoreInv' /\ parked' \in Session /\ parked'.owner = budget_key /\ Bought(parked', due)
      /\ budget_key' = budget_key
  BY <1>1, Parks, KeyRetained
<1>5. CoreInv'
  BY <1>1, <1>4, NoneAssumption DEF CoreInv, HeldOnce, OwnBudget, Bought
<1> QED BY <1>3, <1>4, <1>5

(* A parked session's grace is over. *)
LEMMA TickExpiredIInv ==
    ASSUME IInv, TickExpired
    PROVE  IInv'
<1> USE DEF IInv
<1>1. /\ parked # None /\ parked' = None /\ fundings' = Released /\ budget_key' = Retained
      /\ UNCHANGED <<wire, selling, session, store, unix, started, due>>
  BY DEF TickExpired, bounds
<1>2. WireInv'
  BY <1>1, Releases, HoldsFewer
<1>3. StoreInv'
  BY <1>1, StoreStays DEF CoreInv
<1>4. session = None
  BY <1>1 DEF CoreInv, HeldOnce
<1>5. CoreInv'
  BY <1>1, <1>4, KeyRetained DEF CoreInv, HeldOnce, OwnBudget, Bought, wire
<1> QED BY <1>2, <1>3, <1>5

-----------------------------------------------------------------------------
(* Outside the node. *)

(* The enforcer fails, or recovers. *)
LEMMA SellingIInv ==
    ASSUME IInv, Outage \/ Recovery
    PROVE  IInv'
<1> USE DEF IInv
<1>1. /\ selling' \in BOOLEAN
      /\ UNCHANGED <<wire, fundings, session, parked, budget_key, store, unix, started, due>>
  BY DEF Outage, Recovery, bounds
<1>2. WireInv'
  BY <1>1, WireStays
<1>3. CoreInv'
  BY <1>1, CoreStays DEF wire, CoreInv
<1>4. StoreInv'
  BY <1>1, StoreStays DEF CoreInv
<1> QED BY <1>2, <1>3, <1>4

(* Time passes: what is pruned now is pruned then. *)
LEMMA PassesIInv ==
    ASSUME IInv, Passes
    PROVE  IInv'
<1> USE DEF IInv
<1>1. /\ unix' = unix + 1
      /\ UNCHANGED <<wire, selling, fundings, session, parked, budget_key, store, started, due>>
  BY DEF Passes
<1>2. unix \in Nat /\ unix' \in Nat /\ unix <= unix'
  BY <1>1 DEF CoreInv
<1>3. WireInv'
  BY <1>1, WireStays DEF WireInv
<1>4. CoreInv'
  BY <1>1, <1>2, CoreStays DEF wire
<1>5. records \in Records /\ file \in Records
  BY DEF StoreInv
<1>6. ASSUME NEW r \in Records PROVE Prune(Prune(r, unix), unix') = Prune(r, unix')
  BY <1>2, Prunes
<1>7. FileCatchesUp'
  <2>1. CASE dirty
    BY <1>1, <2>1 DEF FileCatchesUp, store
  <2>2. CASE ~dirty
    <3>1. Prune(file, unix) = Prune(records, unix)
      BY <2>2 DEF StoreInv, FileCatchesUp
    <3>2. Prune(file, unix') = Prune(records, unix')
      BY <1>5, <1>6, <3>1
    <3> QED BY <1>1, <3>2 DEF FileCatchesUp, store
  <2> QED BY <2>1, <2>2
<1>8. StoreInv'
  BY <1>1, <1>7 DEF StoreInv, store, Filed
<1> QED BY <1>3, <1>4, <1>8

(* The node dies and starts again: what it reads is what was kept. *)
LEMMA CrashIInv ==
    ASSUME IInv, Crash
    PROVE  IInv'
<1> USE DEF IInv
<1>1. /\ conns' = [n \in Conns |-> IF conns[n].st = "up" THEN [conns[n] EXCEPT !.st = "ended"]
                                   ELSE conns[n]]
      /\ link' = 0 /\ gated' = None /\ session' = None /\ parked' = None /\ budget_key' = None
      /\ fundings' = [f \in Fundings |->
            IF fundings[f].at \in {"held", "verifying"} THEN [fundings[f] EXCEPT !.at = "dropped"]
            ELSE fundings[f]]
      /\ records' = Prune(file, unix) /\ dirty' = FALSE /\ started' = unix
      /\ UNCHANGED <<selling, file, unix, due>>
  BY DEF Crash, Open
<1>2. conns' \in [Conns -> Conn]
  BY <1>1 DEF WireInv, Conn
<1>3. fundings' \in [Fundings -> Incoming] /\ \A f \in Fundings : fundings'[f].at # "held"
  <2>1. ASSUME NEW f \in Fundings PROVE fundings'[f] \in Incoming /\ fundings'[f].at # "held"
    <3> DEFINE d == [fundings[f] EXCEPT !.at = "dropped"]
    <3>1. fundings[f] \in Incoming /\ d \in Incoming /\ d.at = "dropped"
      BY DEF WireInv, Incoming
    <3>2. fundings'[f] = IF fundings[f].at \in {"held", "verifying"} THEN d ELSE fundings[f]
      BY <1>1
    <3> QED BY <3>1, <3>2
  <2>2. fundings' = [f \in Fundings |-> fundings'[f]]
    BY <1>1
  <2> QED BY <2>1, <2>2
<1>4. WireInv'
  BY <1>1, <1>2, <1>3, WireDrops
<1>5. unix \in Nat /\ file \in Records /\ Filed(file, due)
  BY DEF CoreInv, StoreInv
<1>6. /\ records' \in Records /\ \A k \in Keys : records'[k] # None => records'[k] = file[k]
      /\ Prune(records', unix) = Prune(file, unix)
  BY <1>1, <1>5, Prunes
<1>7. StoreInv'
  BY <1>1, <1>5, <1>6 DEF StoreInv, Filed, FileCatchesUp
<1>8. CoreInv'
  BY <1>1, <1>5 DEF CoreInv, HeldOnce, OwnBudget
<1> QED BY <1>4, <1>7, <1>8

-----------------------------------------------------------------------------
(* The theorem. *)

(* A step that changes nothing. *)
LEMMA StutterIInv ==
    ASSUME IInv, UNCHANGED vars
    PROVE  IInv'
<1> USE DEF IInv
<1>1. UNCHANGED <<wire, selling, fundings, session, parked, budget_key, store, unix, started, due>>
  BY DEF vars, wire, store
<1>2. WireInv'
  BY <1>1, WireStays DEF WireInv
<1>3. CoreInv'
  BY <1>1, CoreStays DEF wire, CoreInv
<1>4. StoreInv'
  BY <1>1, StoreStays DEF CoreInv
<1> QED BY <1>2, <1>3, <1>4

(* Each event leaves the host in agreement. *)
LEMMA NextIInv == IInv /\ [Next]_vars => IInv'
<1> SUFFICES ASSUME IInv, [Next]_vars PROVE IInv'
  OBVIOUS
<1>1. ASSUME NEW n \in Conns, PeerUp(n) \/ PeerDown(n) \/ TopUp(n) \/ Disconnect(n) \/ Offer(n)
      PROVE  IInv'
  BY <1>1, PeerUpIInv, PeerDownIInv, TopUpIInv, DisconnectIInv, OfferIInv
<1>2. ASSUME NEW n \in Conns, Unheard(n) \/ TopUpUnsold(n) PROVE IInv'
  BY <1>2, StutterIInv DEF Unheard, TopUpUnsold
<1>3. ASSUME NEW n \in Conns, NEW f \in Fundings, Funding(n, f) PROVE IInv'
  BY <1>3, FundingIInv
<1>4. ASSUME NEW f \in Fundings, Verified(f) \/ NotVerified(f) PROVE IInv'
  BY <1>4, VerifiedIInv, NotVerifiedIInv
<1>5. ASSUME NEW drawn \in {0, 1}, Tick(drawn) PROVE IInv'
  BY <1>5, TickIInv
<1>6. CASE TickStale \/ TickExpired
  BY <1>6, TickStaleIInv, TickExpiredIInv
<1>7. CASE Outage \/ Recovery \/ Passes \/ Crash
  BY <1>7, SellingIInv, PassesIInv, CrashIInv
<1>8. CASE UNCHANGED vars
  BY <1>8, StutterIInv
<1> QED BY <1>1, <1>2, <1>3, <1>4, <1>5, <1>6, <1>7, <1>8 DEF Next

(* In every state the host agrees with core about the peer, in whatever      *)
(* order its connections come and end, messages come behind a drop, its      *)
(* fundings verify, the enforcer fails and the node dies: what it gates,     *)
(* that a funding held back came on the connection the peer is on or behind  *)
(* a drop, whose budget it keeps and until when (on_wire and on_tick of      *)
(* node.rs, budgets.rs).                                                     *)
THEOREM HostAgreesWithCore == Spec => []AgreesWithCore
<1>1. Init => IInv
  BY InitIInv
<1>2. IInv /\ [Next]_vars => IInv'
  BY NextIInv
<1>3. IInv => AgreesWithCore
  BY IInvAgrees
<1> QED BY <1>1, <1>2, <1>3, PTL DEF Spec

(* A step of the parts is a step of the host, or leaves it alone. *)
LEMMA HostStep ==
    ASSUME part = "host" => IInv, [MCNext]_<<part, vars, settlerVars, fundingVars, keepVars>>
    PROVE  (part = "host" => IInv)'
<1> SUFFICES ASSUME part' = "host" PROVE IInv'
  OBVIOUS
<1>1. part' = part /\ [Next]_vars
  BY DEF MCNext, HostNext, SettlerNext, FundingNext, KeepNext
<1> QED BY <1>1, NextIInv

(* The host agrees with core about a peer, whatever connection comes, ends,  *)
(* is replaced or is still heard after a drop, and over crashes and failed   *)
(* writes, for any number of connections, addresses and fundings (on_wire,   *)
(* on_tick, get and put).                                                    *)
THEOREM HostIsSound == MCSpec => []HostSound
<1>1. MCInit => (part = "host" => IInv)
  BY InitIInv DEF MCInit
<1>2. (part = "host" => IInv) /\ [MCNext]_<<part, vars, settlerVars, fundingVars, keepVars>>
        => (part = "host" => IInv)'
  BY HostStep
<1>3. (part = "host" => IInv) => HostSound
  BY IInvAgrees DEF HostSound
<1> QED BY <1>1, <1>2, <1>3, PTL DEF MCSpec

-----------------------------------------------------------------------------
(* Settlements. *)

\* What a waiting task waits for: not past the deadline it was asked for with,
\* nor past the one of a shutdown it has heard of; and if it has not heard of
\* it yet, that is still to come.
WaitsInTime ==
    \A t \in Settling!Waiting :
       /\ settler_now <= settlements[t].until
       /\ settlements[t].deadline # None => settlements[t].until <= settlements[t].deadline
       /\ closing # None => settler_now <= closing /\ (settlements[t].seen => settlements[t].until <= closing)

\* A shutdown's deadline, and drain's beyond it.
ClosingInTime ==
    /\ phase = "closing" => closing = settler_now + GRACE
    /\ phase = "draining" => closing \in Nat /\ drainBy = closing + OVER

SettlerInv == Settling!TypeOK /\ Settling!ClaimedByOne /\ WaitsInTime /\ ClosingInTime

-----------------------------------------------------------------------------
(* The backoff. *)

(* What the assumption says of the constants. *)
LEMMA SettlerConstants ==
    ASSUME Settling!SettlerAssumption
    PROVE  /\ INITIAL \in Nat /\ MAX \in Nat /\ U32_MAX \in Nat /\ SETTLED_BY \in Nat
           /\ GRACE \in Nat /\ OVER \in Nat /\ OVER > 0
           /\ \A d \in Deadlines : d \in Nat \cup {None}
           /\ None \notin Nat /\ None \notin Settling!Job
<1>1. OVER \in Nat \ {0} /\ Deadlines \subseteq (0 .. SETTLED_BY) \cup {None}
  BY Zenon DEF Settling!SettlerAssumption
<1>2. /\ INITIAL \in Nat /\ MAX \in Nat /\ U32_MAX \in Nat /\ SETTLED_BY \in Nat
      /\ GRACE \in Nat /\ None \notin Nat /\ None \notin Settling!Job
  BY Zenon DEF Settling!SettlerAssumption
<1> QED BY <1>1, <1>2

(* A wait is at most MAX. *)
LEMMA DelayType ==
    ASSUME Settling!SettlerAssumption, NEW n \in Nat
    PROVE  Settling!Delay(n) \in 0 .. MAX
<1> DEFINE k == Settling!Lesser(IF n = 0 THEN 0 ELSE n - 1, DOUBLINGS)
<1>1. k \in 0 .. DOUBLINGS
  BY DEF Settling!SettlerAssumption, Settling!Lesser
<1>2. 2 ^ k \in Nat
  BY <1>1 DEF Settling!SettlerAssumption
<1>3. Settling!Delay(n) = Settling!Lesser(INITIAL * 2 ^ k, MAX)
  BY DEF Settling!Delay
<1> HIDE DEF k
<1>4. ASSUME NEW x \in Nat PROVE Settling!Lesser(INITIAL * x, MAX) \in 0 .. MAX
  <2>1. INITIAL * x \in Nat
    BY DEF Settling!SettlerAssumption
  <2> QED BY <2>1 DEF Settling!SettlerAssumption, Settling!Lesser
<1> QED BY <1>2, <1>3, <1>4

(* A wait ends by the deadline, which is still to come. *)
LEMMA NextDelayType ==
    ASSUME Settling!SettlerAssumption, NEW n \in Nat, NEW d \in Nat \cup {None}, settler_now \in Nat,
           NEW w, w = Settling!NextDelay(n, d), w # None
    PROVE  w \in 0 .. MAX /\ (d # None => settler_now < d /\ settler_now + w <= d)
<1>1. Settling!Delay(n) \in 0 .. MAX
  BY DelayType
<1>2. CASE d = None
  BY <1>1, <1>2 DEF Settling!NextDelay
<1>3. CASE d # None
  <2>1. settler_now < d /\ w = Settling!Lesser(Settling!Delay(n), d - settler_now)
    BY <1>3 DEF Settling!NextDelay
  <2> QED BY <1>1, <1>3, <2>1 DEF Settling!Lesser, Settling!SettlerAssumption
<1> QED BY <1>2, <1>3

(* The deadline in force is no later than either of the two. *)
LEMMA DeadlineOfType ==
    ASSUME Settling!SettlerAssumption, NEW j \in Settling!Job, closing \in Nat \cup {None},
           NEW d, d = Settling!DeadlineOf(j)
    PROVE  /\ d \in Nat \cup {None}
           /\ j.deadline # None => j.deadline \in Nat /\ d # None /\ d <= j.deadline
           /\ closing # None => d # None /\ d <= closing
           /\ d # None => d = j.deadline \/ d = closing
<1>1. j.deadline \in Nat \cup {None}
  <2>1. j.deadline \in Deadlines
    BY DEF Settling!Job
  <2> QED BY <2>1, SettlerConstants
<1> QED BY <1>1
   DEF Settling!DeadlineOf, Settling!Earliest, Settling!Lesser, Settling!SettlerAssumption

-----------------------------------------------------------------------------
(* The steps. *)

(* The node starts with nothing to settle. *)
LEMMA SettlerStarts == ASSUME Settling!SettlerAssumption PROVE Settling!Init => SettlerInv
  BY DEF Settling!SettlerAssumption, Settling!Init, SettlerInv, Settling!TypeOK,
             Settling!ClaimedByOne, WaitsInTime, ClosingInTime, Settling!Alive,
             Settling!Waiting

(* One task is given a channel no other has. *)
LEMMA SettleKeeps ==
    ASSUME Settling!SettlerAssumption, SettlerInv, NEW c \in Channels, NEW d \in Deadlines, Settling!Settle(c, d)
    PROVE  SettlerInv'
<1> DEFINE j == [channel |-> c, deadline |-> d, failures |-> 0,
                 at |-> "trying", until |-> 0, seen |-> TRUE]
<1>1. j \in Settling!Job /\ j # None /\ j.channel = c /\ j.at = "trying"
  <2>1. 0 \in 0 .. U32_MAX /\ 0 \in 0 .. (SETTLED_BY + MAX)
    BY SettlerConstants
  <2>2. j \in Settling!Job
    BY <2>1 DEF Settling!Job
  <2> QED BY <2>2, SettlerConstants
<1>2. PICK t \in Tasks \ Settling!Alive : settlements' = [settlements EXCEPT ![t] = j]
  BY DEF Settling!Settle
<1>3. inFlight' = inFlight \cup {c} /\ c \notin inFlight
      /\ UNCHANGED <<settler_now, closing, phase, drainBy>>
  BY DEF Settling!Settle, Settling!Claim
<1> HIDE DEF j
<1>4. /\ settlements \in [Tasks -> Settling!Job \cup {None}] /\ settlements' \in [Tasks -> Settling!Job \cup {None}]
      /\ settlements'[t] = j /\ \A u \in Tasks : u # t => settlements'[u] = settlements[u]
  BY <1>1, <1>2 DEF SettlerInv, Settling!TypeOK
<1>5. Settling!Alive' = Settling!Alive \cup {t} /\ Settling!Waiting' = Settling!Waiting
  BY <1>1, <1>2, <1>4 DEF Settling!Alive, Settling!Waiting
<1>6. Settling!TypeOK'
  BY <1>3, <1>4 DEF SettlerInv, Settling!TypeOK
<1>7. Settling!ClaimedByOne'
  BY <1>1, <1>3, <1>4, <1>5 DEF SettlerInv, Settling!ClaimedByOne, Settling!Alive
<1>8. WaitsInTime'
  BY <1>2, <1>3, <1>4, <1>5 DEF SettlerInv, WaitsInTime, Settling!Waiting
<1>9. ClosingInTime'
  BY <1>3 DEF SettlerInv, ClosingInTime
<1> QED BY <1>6, <1>7, <1>8, <1>9 DEF SettlerInv

(* A shutdown sets a deadline that is still to come. *)
LEMMA BeginShutdownKeeps ==
    ASSUME Settling!SettlerAssumption, SettlerInv, Settling!BeginShutdown
    PROVE  SettlerInv'
<1>1. /\ settler_now \in Nat /\ closing' = settler_now + GRACE /\ phase' = "closing"
      /\ UNCHANGED <<settler_now, drainBy, inFlight>> /\ GRACE \in Nat
  BY DEF Settling!BeginShutdown, SettlerInv, Settling!TypeOK, Settling!SettlerAssumption
<1>2. ASSUME NEW j \in Settling!Job
      PROVE  LET h == [j EXCEPT !.seen = FALSE] IN
             /\ h \in Settling!Job /\ h # None /\ h.channel = j.channel /\ h.at = j.at /\ h.seen = FALSE
             /\ h.until = j.until /\ h.deadline = j.deadline
  BY DEF Settling!Job, Settling!SettlerAssumption
<1>3. \A t \in Settling!Alive : settlements[t] \in Settling!Job /\ settlements'[t] = [settlements[t] EXCEPT !.seen = FALSE]
  BY DEF Settling!BeginShutdown, Settling!Alive, SettlerInv, Settling!TypeOK
<1>4. \A t \in Tasks \ Settling!Alive : settlements'[t] = None
  BY DEF Settling!BeginShutdown
<1>5. \A t \in Settling!Alive : /\ settlements'[t] \in Settling!Job /\ settlements'[t] # None
                       /\ settlements'[t].channel = settlements[t].channel /\ settlements'[t].at = settlements[t].at
                       /\ settlements'[t].until = settlements[t].until /\ settlements'[t].seen = FALSE
                       /\ settlements'[t].deadline = settlements[t].deadline
  <2> SUFFICES ASSUME NEW t \in Settling!Alive
               PROVE  /\ settlements'[t] \in Settling!Job /\ settlements'[t] # None
                      /\ settlements'[t].channel = settlements[t].channel /\ settlements'[t].at = settlements[t].at
                      /\ settlements'[t].until = settlements[t].until /\ settlements'[t].seen = FALSE
                      /\ settlements'[t].deadline = settlements[t].deadline
    OBVIOUS
  <2>1. settlements[t] \in Settling!Job
    BY <1>3
  <2>2. settlements'[t] = [settlements[t] EXCEPT !.seen = FALSE]
    BY <1>3
  <2> QED BY <1>2, <2>1, <2>2
<1>6. Settling!Alive' = Settling!Alive /\ Settling!Waiting' = Settling!Waiting
  BY <1>4, <1>5 DEF Settling!Alive, Settling!Waiting
<1>7. Settling!TypeOK'
  <2>1. settlements' \in [Tasks -> Settling!Job \cup {None}]
    BY <1>4, <1>5 DEF Settling!BeginShutdown, Settling!Alive
  <2> QED BY <1>1, <2>1 DEF SettlerInv, Settling!TypeOK
<1>8. Settling!ClaimedByOne'
  BY <1>1, <1>5, <1>6 DEF SettlerInv, Settling!ClaimedByOne
<1>9. WaitsInTime'
  BY <1>1, <1>5, <1>6 DEF SettlerInv, WaitsInTime, Settling!Waiting
<1>10. ClosingInTime'
  BY <1>1 DEF ClosingInTime
<1> QED BY <1>7, <1>8, <1>9, <1>10 DEF SettlerInv

(* Nothing passes between a shutdown and its drain, which waits for longer   *)
(* than any task may.                                                        *)
LEMMA DrainKeeps ==
    ASSUME Settling!SettlerAssumption, SettlerInv, Settling!Drain
    PROVE  SettlerInv'
<1>1. Settling!TypeOK'
  BY DEF Settling!Drain, SettlerInv, Settling!TypeOK, Settling!SettlerAssumption
<1>2. Settling!ClaimedByOne' /\ WaitsInTime'
  BY DEF Settling!Drain, SettlerInv, Settling!ClaimedByOne, WaitsInTime, Settling!Waiting,
             Settling!Alive
<1>3. ClosingInTime'
  BY DEF Settling!Drain, SettlerInv, Settling!TypeOK, ClosingInTime, Settling!SettlerAssumption
<1> QED BY <1>1, <1>2, <1>3 DEF SettlerInv

(* The drain ends. *)
LEMMA DrainEndsKeeps ==
    ASSUME Settling!SettlerAssumption, SettlerInv, Settling!DrainDone \/ Settling!DrainTimeout
    PROVE  SettlerInv'
<1>1. CASE Settling!DrainDone
  BY <1>1
     DEF Settling!DrainDone, SettlerInv, Settling!TypeOK, Settling!ClaimedByOne, WaitsInTime,
         Settling!Waiting, Settling!Alive, ClosingInTime
<1>2. CASE Settling!DrainTimeout
  BY <1>2
     DEF Settling!DrainTimeout, SettlerInv, Settling!TypeOK, Settling!ClaimedByOne,
         WaitsInTime, Settling!Waiting, Settling!Alive, ClosingInTime
<1> QED BY <1>1, <1>2

(* A task that ends gives up its claim, and no other's. *)
LEMMA EndKeeps ==
    ASSUME Settling!SettlerAssumption, SettlerInv, NEW t \in Settling!Alive, Settling!End(t)
    PROVE  SettlerInv'
<1>1. t \in Tasks /\ settlements \in [Tasks -> Settling!Job \cup {None}] /\ settlements' = [settlements EXCEPT ![t] = None]
  BY DEF Settling!End, Settling!Alive, SettlerInv, Settling!TypeOK
<1>2. UNCHANGED <<settler_now, closing, phase, drainBy>> /\ inFlight' = inFlight \ {settlements[t].channel}
  BY DEF Settling!End
<1>3. Settling!Alive' = Settling!Alive \ {t} /\ \A u \in Settling!Alive \ {t} : settlements'[u] = settlements[u]
  BY <1>1 DEF Settling!Alive
<1>4. Settling!Waiting' = Settling!Waiting \ {t}
  BY <1>3 DEF Settling!Waiting
<1>5. Settling!TypeOK'
  BY <1>1, <1>2 DEF SettlerInv, Settling!TypeOK
<1>6. Settling!ClaimedByOne'
  BY <1>2, <1>3 DEF SettlerInv, Settling!ClaimedByOne
<1>7. WaitsInTime'
  BY <1>2, <1>3, <1>4 DEF SettlerInv, WaitsInTime, Settling!Waiting
<1>8. ClosingInTime'
  BY <1>2 DEF SettlerInv, ClosingInTime
<1> QED BY <1>5, <1>6, <1>7, <1>8 DEF SettlerInv

(* A task that goes on keeps its channel. *)
LEMMA GoesOnKeeps ==
    ASSUME Settling!SettlerAssumption, SettlerInv, NEW t \in Settling!Alive, NEW j \in Settling!Job,
           settlements' = [settlements EXCEPT ![t] = j], j.channel = settlements[t].channel,
           UNCHANGED <<settler_now, closing, phase, drainBy, inFlight>>,
           j.at = "waiting" =>
              /\ settler_now <= j.until
              /\ j.deadline # None => j.until <= j.deadline
              /\ closing # None => settler_now <= closing /\ j.until <= closing
    PROVE  SettlerInv'
<1>1. t \in Tasks /\ settlements \in [Tasks -> Settling!Job \cup {None}] /\ j # None
  BY DEF Settling!Alive, SettlerInv, Settling!TypeOK, Settling!SettlerAssumption
<1>2. settlements'[t] = j /\ \A u \in Tasks : u # t => settlements'[u] = settlements[u]
  BY <1>1
<1>3. Settling!Alive' = Settling!Alive /\ Settling!Waiting' \ {t} = Settling!Waiting \ {t}
  BY <1>1, <1>2 DEF Settling!Alive, Settling!Waiting
<1>4. Settling!TypeOK'
  BY <1>1 DEF SettlerInv, Settling!TypeOK
<1>5. Settling!ClaimedByOne'
  BY <1>1, <1>2, <1>3 DEF SettlerInv, Settling!ClaimedByOne, Settling!Alive
<1>6. WaitsInTime'
  <2> SUFFICES ASSUME NEW u \in Settling!Waiting'
               PROVE  /\ settler_now <= settlements'[u].until
                      /\ settlements'[u].deadline # None => settlements'[u].until <= settlements'[u].deadline
                      /\ closing # None =>
                            settler_now <= closing /\ (settlements'[u].seen => settlements'[u].until <= closing)
    BY DEF WaitsInTime
  <2>1. CASE u = t
    BY <1>2, <2>1 DEF Settling!Waiting
  <2>2. CASE u # t
    <3>1. u \in Settling!Waiting /\ settlements'[u] = settlements[u]
      BY <1>2, <1>3, <2>2 DEF Settling!Waiting, Settling!Alive
    <3> QED BY <3>1 DEF SettlerInv, WaitsInTime
  <2> QED BY <2>1, <2>2
<1>7. ClosingInTime'
  BY DEF SettlerInv, ClosingInTime
<1> QED BY <1>4, <1>5, <1>6, <1>7 DEF SettlerInv

(* The type of a task that is alive. *)
LEMMA AliveType ==
    ASSUME SettlerInv, NEW t \in Settling!Alive
    PROVE  t \in Tasks /\ settlements[t] \in Settling!Job
  BY DEF SettlerInv, Settling!TypeOK, Settling!Alive

(* A failed attempt waits no longer than it may. *)
LEMMA BackKeeps ==
    ASSUME Settling!SettlerAssumption, SettlerInv, NEW t \in Tasks, Settling!Back(t)
    PROVE  SettlerInv'
<1> DEFINE n == Settling!Failed(settlements[t])
           d == Settling!DeadlineOf(settlements[t])
           w == Settling!NextDelay(n, d)
           j == [settlements[t] EXCEPT !.failures = n, !.at = "waiting", !.until = settler_now + w]
<1>1. t \in Settling!Alive /\ settlements[t] \in Settling!Job /\ settlements \in [Tasks -> Settling!Job \cup {None}]
      /\ settler_now \in 0 .. SETTLED_BY /\ closing \in Nat \cup {None}
  BY AliveType DEF Settling!Back, Settling!Trying, SettlerInv, Settling!TypeOK
<1>2. w # None /\ UNCHANGED <<settler_now, closing, phase, drainBy, inFlight>>
  BY DEF Settling!Back
<1>3. settlements' = [settlements EXCEPT ![t] = j]
  BY <1>1 DEF Settling!Back, Settling!Job
<1>4. n \in 0 .. U32_MAX
  BY <1>1, SettlerConstants DEF Settling!Failed, Settling!Lesser, Settling!Job
<1> HIDE DEF n
<1>5. /\ d \in Nat \cup {None}
      /\ settlements[t].deadline # None => settlements[t].deadline \in Nat /\ d # None /\ d <= settlements[t].deadline
      /\ closing # None => d # None /\ d <= closing
  BY <1>1, DeadlineOfType
<1> HIDE DEF d
<1>6. w \in 0 .. MAX /\ (d # None => settler_now < d /\ settler_now + w <= d) /\ settler_now \in Nat /\ n \in Nat
  <2>1. settler_now \in Nat /\ n \in Nat
    BY <1>1, <1>4, SettlerConstants
  <2> QED BY <1>2, <1>5, <2>1, NextDelayType
<1> HIDE DEF w
<1>7. settler_now + w \in 0 .. (SETTLED_BY + MAX)
  BY <1>1, <1>6, SettlerConstants
<1>8. /\ j \in Settling!Job /\ j.channel = settlements[t].channel /\ j.until = settler_now + w
      /\ j.deadline = settlements[t].deadline
  BY <1>1, <1>4, <1>7 DEF Settling!Job
<1> HIDE DEF j
<1>9. /\ settler_now <= j.until
      /\ j.deadline # None => j.until <= j.deadline
      /\ closing # None => settler_now <= closing /\ j.until <= closing
  BY <1>1, <1>5, <1>6, <1>8, SettlerConstants
<1> QED BY <1>1, <1>2, <1>3, <1>8, <1>9, GoesOnKeeps

(* A task that tries again has its channel still. *)
LEMMA RetryKeeps ==
    ASSUME Settling!SettlerAssumption, SettlerInv, NEW t \in Tasks, Settling!SleepOver(t) \/ Settling!Woken(t)
    PROVE  SettlerInv'
<1>1. t \in Settling!Alive /\ settlements[t] \in Settling!Job /\ settlements \in [Tasks -> Settling!Job \cup {None}]
  BY AliveType
     DEF Settling!SleepOver, Settling!Woken, Settling!Changed, Settling!Waiting, SettlerInv,
         Settling!TypeOK
<1>2. PICK s \in BOOLEAN : Settling!Retry(t, s)
  BY <1>1 DEF Settling!SleepOver, Settling!Woken, Settling!Job
<1> DEFINE j == [settlements[t] EXCEPT !.at = "trying", !.until = 0, !.seen = s]
<1>3. settlements' = [settlements EXCEPT ![t] = j] /\ UNCHANGED <<settler_now, closing, phase, drainBy, inFlight>>
  BY <1>1, <1>2 DEF Settling!Retry, Settling!Job
<1>4. j \in Settling!Job /\ j.channel = settlements[t].channel /\ j.at = "trying"
  <2>1. 0 \in 0 .. (SETTLED_BY + MAX)
    BY SettlerConstants
  <2> QED BY <1>1, <2>1 DEF Settling!Job
<1> HIDE DEF j
<1> QED BY <1>1, <1>3, <1>4, GoesOnKeeps

(* Time does not pass a waiting task by. *)
LEMMA TickKeeps ==
    ASSUME Settling!SettlerAssumption, SettlerInv, Settling!Tick
    PROVE  SettlerInv'
<1>1. settler_now \in Nat /\ settler_now' = settler_now + 1 /\ UNCHANGED <<closing, phase, drainBy, inFlight, settlements>>
      /\ closing \in Nat \cup {None}
  BY DEF Settling!Tick, SettlerInv, Settling!TypeOK
<1>2. Settling!TypeOK' /\ Settling!ClaimedByOne'
  <2>1. settler_now' \in 0 .. SETTLED_BY
    BY <1>1, SettlerConstants DEF Settling!Tick
  <2>2. Settling!TypeOK'
    BY <1>1, <2>1 DEF SettlerInv, Settling!TypeOK
  <2>3. Settling!ClaimedByOne'
    BY <1>1 DEF SettlerInv, Settling!ClaimedByOne, Settling!Alive
  <2> QED BY <2>2, <2>3
<1>3. ClosingInTime'
  BY <1>1 DEF Settling!Tick, SettlerInv, ClosingInTime
<1>4. WaitsInTime'
  <2> SUFFICES ASSUME NEW u \in Settling!Waiting
               PROVE  /\ settler_now + 1 <= settlements[u].until
                      /\ settlements[u].deadline # None => settlements[u].until <= settlements[u].deadline
                      /\ closing # None =>
                            settler_now + 1 <= closing /\ (settlements[u].seen => settlements[u].until <= closing)
    BY <1>1 DEF WaitsInTime, Settling!Waiting, Settling!Alive
  <2>1. settlements[u] \in Settling!Job
    BY AliveType DEF Settling!Waiting
  <2>2. settlements[u].until \in Nat /\ settler_now < settlements[u].until /\ settlements[u].seen
    BY <2>1, SettlerConstants DEF Settling!Tick, Settling!Changed, Settling!Job
  <2>3. /\ settlements[u].deadline # None => settlements[u].until <= settlements[u].deadline
        /\ closing # None => settlements[u].until <= closing
    BY <2>2 DEF SettlerInv, WaitsInTime
  <2> QED BY <1>1, <2>2, <2>3, SettlerConstants
<1> QED BY <1>2, <1>3, <1>4 DEF SettlerInv

(* Every step keeps the invariant. *)
LEMMA SettlerNextKeeps ==
    ASSUME Settling!SettlerAssumption
    PROVE  SettlerInv /\ [Settling!Next]_(Settling!vars) => SettlerInv'
<1> SUFFICES ASSUME SettlerInv, [Settling!Next]_(Settling!vars) PROVE SettlerInv'
  OBVIOUS
<1>1. ASSUME NEW t \in Tasks, Settling!Settled(t) \/ Settling!CannotSettle(t) \/ Settling!GiveUp(t) PROVE SettlerInv'
  BY <1>1, EndKeeps DEF Settling!Settled, Settling!CannotSettle, Settling!GiveUp, Settling!Trying
<1>2. ASSUME NEW c \in Channels, Settling!SettleAgain(c) PROVE UNCHANGED Settling!vars
  BY <1>2 DEF Settling!SettleAgain
<1>3. CASE UNCHANGED Settling!vars
  BY <1>3
     DEF Settling!vars, SettlerInv, Settling!TypeOK, Settling!ClaimedByOne, WaitsInTime,
         ClosingInTime, Settling!Waiting, Settling!Alive
<1>4. CASE \E c \in Channels, d \in Deadlines : Settling!Settle(c, d)
  BY <1>4, SettleKeeps
<1>5. CASE Settling!BeginShutdown \/ Settling!Drain \/ Settling!DrainDone \/ Settling!DrainTimeout
  BY <1>5, BeginShutdownKeeps, DrainKeeps, DrainEndsKeeps
<1>6. CASE \E t \in Tasks : Settling!Returns(t) \/ Settling!SleepOver(t) \/ Settling!Woken(t)
  BY <1>1, <1>6, BackKeeps, RetryKeeps DEF Settling!Returns
<1>7. CASE Settling!Tick
  BY <1>7, TickKeeps
<1> QED BY <1>2, <1>3, <1>4, <1>5, <1>6, <1>7 DEF Settling!Next

-----------------------------------------------------------------------------
(* How tasks start and end. *)

(* A task that stops waiting does so by the deadline in force. *)
LEMMA StartsInTimeStep ==
    ASSUME Settling!SettlerAssumption
    PROVE  SettlerInv /\ [Settling!Next]_(Settling!vars) => [Settling!StartsInTime]_(Settling!vars)
<1> SUFFICES ASSUME SettlerInv, Settling!Next, NEW t \in Settling!Waiting,
                    settlements'[t] # None, settlements'[t].at = "trying",
                    Settling!DeadlineOf(settlements[t]) # None
             PROVE  settler_now <= Settling!DeadlineOf(settlements[t])
  BY DEF Settling!StartsInTime
<1>1. settlements[t] \in Settling!Job /\ settler_now \in Nat /\ closing \in Nat \cup {None}
  BY AliveType, SettlerConstants DEF Settling!Waiting, SettlerInv, Settling!TypeOK
<1>2. settler_now <= settlements[t].until /\ settlements[t].until \in Nat
  BY <1>1, SettlerConstants DEF SettlerInv, WaitsInTime, Settling!Job
<1>3. /\ settlements[t].deadline # None => settlements[t].deadline \in Nat /\ settler_now <= settlements[t].deadline
      /\ closing # None => settler_now <= closing
  <2>1. settlements[t].deadline # None => settlements[t].until <= settlements[t].deadline
    BY DEF SettlerInv, WaitsInTime
  <2>2. settlements[t].deadline # None => settlements[t].deadline \in Nat
    BY <1>1, DeadlineOfType
  <2>3. closing # None => settler_now <= closing
    BY DEF SettlerInv, WaitsInTime
  <2> QED BY <1>1, <1>2, <2>1, <2>2, <2>3
<1>4. Settling!DeadlineOf(settlements[t]) = settlements[t].deadline \/ Settling!DeadlineOf(settlements[t]) = closing
  BY <1>1, DeadlineOfType
<1> QED BY <1>3, <1>4

(* When a drain ends no task waits: a waiting one would have had to start by *)
(* the shutdown's deadline, which is before drain's.                         *)
LEMMA AbandonedStep ==
    ASSUME Settling!SettlerAssumption
    PROVE  SettlerInv /\ [Settling!Next]_(Settling!vars)
              => [phase = "draining" /\ phase' = "stopped" => Settling!Waiting = {}]_(Settling!vars)
<1> SUFFICES ASSUME SettlerInv, Settling!Next, phase = "draining", phase' = "stopped"
             PROVE  Settling!Waiting = {}
  OBVIOUS
<1>1. Settling!DrainDone \/ Settling!DrainTimeout
  BY DEF Settling!Next, Settling!Settle, Settling!SettleAgain, Settling!BeginShutdown,
         Settling!Drain, Settling!Returns, Settling!Settled, Settling!CannotSettle,
         Settling!GiveUp, Settling!Back, Settling!End, Settling!SleepOver, Settling!Woken,
         Settling!Retry, Settling!Tick, Settling!vars
<1>2. CASE Settling!DrainDone
  BY <1>2 DEF Settling!DrainDone, Settling!Waiting
<1>3. CASE Settling!DrainTimeout
  <2>1. closing \in Nat /\ closing # None /\ drainBy = closing + OVER /\ settler_now >= drainBy /\ settler_now \in Nat
    BY <1>3, SettlerConstants DEF Settling!DrainTimeout, SettlerInv, ClosingInTime, Settling!TypeOK
  <2>2. ~(settler_now <= closing)
    BY <2>1, SettlerConstants
  <2> QED BY <2>1, <2>2 DEF SettlerInv, WaitsInTime
<1> QED BY <1>1, <1>2, <1>3

-----------------------------------------------------------------------------
(* The settler among the parts. *)

(* A step of the parts is a step of the settler, or leaves it alone. *)
LEMMA SettlerStep ==
    ASSUME part = "settler" => SettlerInv, [MCNext]_<<part, vars, settlerVars, fundingVars, keepVars>>
    PROVE  /\ (part = "settler" => SettlerInv)'
           /\ [part = "settler" => Settling!StartsInTime]_settlerVars
           /\ [phase = "draining" /\ phase' = "stopped" => Settling!Waiting = {}]_settlerVars
<1>1. part' = part
  BY DEF MCNext, HostNext, SettlerNext, FundingNext, KeepNext
<1>2. part = "settler" => [Settling!Next]_(Settling!vars)
  BY DEF MCNext, HostNext, SettlerNext, FundingNext, KeepNext, Settling!vars, settlerVars
<1>3. part # "settler" => UNCHANGED settlerVars
  BY DEF MCNext, HostNext, SettlerNext, FundingNext, KeepNext, settlerVars
<1>4. (part = "settler" => SettlerInv)'
  BY <1>1, <1>2, PartsAssumption, SettlerNextKeeps
<1>5. CASE part = "settler"
  <2>1. [Settling!StartsInTime]_(Settling!vars)
    BY <1>2, <1>5, PartsAssumption, StartsInTimeStep
  <2>2. [phase = "draining" /\ phase' = "stopped" => Settling!Waiting = {}]_(Settling!vars)
    BY <1>2, <1>5, PartsAssumption, AbandonedStep
  <2> QED BY <1>4, <2>1, <2>2 DEF Settling!vars, settlerVars
<1> QED BY <1>3, <1>4, <1>5

(* What the proofs use of the settler holds when it starts. *)
LEMMA SettlerInit == MCInit => (part = "settler" => SettlerInv)
  BY PartsAssumption, SettlerStarts DEF MCInit

(* A channel is claimed exactly while one task settles it, for any number of *)
(* channels and tasks and any backoff (settle and InFlight of settle.rs).    *)
THEOREM SettledByOneOnly == MCSpec => []SettledByOne
<1>1. MCInit => (part = "settler" => SettlerInv)
  BY SettlerInit
<1>2. (part = "settler" => SettlerInv) /\ [MCNext]_<<part, vars, settlerVars, fundingVars, keepVars>>
        => (part = "settler" => SettlerInv)'
  BY SettlerStep
<1>3. (part = "settler" => SettlerInv) => SettledByOne
  BY DEF SettledByOne, SettlerInv
<1> QED BY <1>1, <1>2, <1>3, PTL DEF MCSpec

-----------------------------------------------------------------------------
(* Keepalives. *)

\* The most there is between two messages, and since the last one.
Gap     == Keeping!Interval - 1 + PERIOD
SentAgo == IF quiet < Keeping!Interval THEN quiet ELSE Keeping!Interval - 1 + ticked

Message == [age : 0 .. LATENCY, terms : Nat]

KeepTypes ==
    /\ quiet \in 0 .. Keeping!Interval /\ ticked \in 0 .. PERIOD /\ lost \in 0 .. MAX_LOST
    /\ unheard \in Nat /\ flight \in Seq(Message) /\ terms \in Nat

\* How long the peer can have heard nothing: a gap for each message lost in a
\* row and one more, and then the age of the message it hears next.
KeepInv ==
    /\ ~dropped /\ KeepTypes
    /\ unheard <= IF flight = << >> THEN lost * Gap + SentAgo
                  ELSE (MAX_LOST + 1) * Gap + flight[1].age

(* A queue's head, and what is put behind it. *)
LEMMA Queues ==
    ASSUME NEW S, NEW s \in Seq(S), NEW x \in S
    PROVE  /\ Append(s, x) \in Seq(S) /\ Append(s, x) # << >>
           /\ s = << >> => Append(s, x)[1] = x
           /\ s # << >> => /\ s[1] \in S /\ Append(s, x)[1] = s[1]
                           /\ Tail(s) \in Seq(S)
<1>1. Append(s, x) \in Seq(S) /\ Len(Append(s, x)) = Len(s) + 1 /\ Len(s) \in Nat
  OBVIOUS
<1>2. Append(s, x) # << >>
  BY <1>1
<1>3. s = << >> => Append(s, x)[1] = x
  OBVIOUS
<1>4. ASSUME s # << >> PROVE s[1] \in S /\ Append(s, x)[1] = s[1] /\ Tail(s) \in Seq(S)
  <2>1. Len(s) > 0 /\ 1 \in 1 .. Len(s)
    BY <1>1, <1>4
  <2> QED BY <1>4, <2>1
<1> QED BY <1>1, <1>2, <1>3, <1>4

(* The constants and what is made of them are natural numbers. *)
LEMMA GapType ==
    /\ Keeping!Interval \in Nat \ {0} /\ PERIOD \in Nat \ {0} /\ LATENCY \in Nat
    /\ MAX_LOST \in Nat /\ STALE_TIMEOUT \in Nat /\ MAX_REVISIONS \in Nat
    /\ Gap \in Nat /\ Gap = Keeping!Interval - 1 + PERIOD
<1>1. Keeping!KeepAliveAssumption
  BY PartsAssumption, Zenon
<1>2. ASSUME NEW t \in Nat PROVE (IF t \div 3 > 1 THEN t \div 3 ELSE 1) \in Nat \ {0}
  OBVIOUS
<1>3. Keeping!Interval \in Nat \ {0}
  BY <1>1, <1>2 DEF Keeping!Interval, Keeping!KeepAliveAssumption
<1> QED BY <1>1, <1>3 DEF Keeping!KeepAliveAssumption, Gap

(* One message was sent no longer ago than a gap, and lost ones add up. *)
LEMMA Gaps ==
    ASSUME KeepTypes
    PROVE  /\ SentAgo \in 0 .. Gap
           /\ lost * Gap \in Nat /\ (lost + 1) * Gap = lost * Gap + Gap
           /\ lost * Gap + Gap <= (MAX_LOST + 1) * Gap /\ (MAX_LOST + 1) * Gap \in Nat
<1>1. SentAgo \in 0 .. Gap
  BY GapType DEF KeepTypes, SentAgo
<1>2. ASSUME NEW m \in Nat, NEW n \in Nat, NEW r \in Nat, m <= n
      PROVE  m * r \in Nat /\ (m + 1) * r = m * r + r /\ (n + 1) * r \in Nat /\ m * r + r <= (n + 1) * r
  <2>1. PICK d \in Nat : n = m + d
    BY <1>2
  <2>2. (n + 1) * r = m * r + r + d * r /\ d * r \in Nat
    BY <2>1
  <2> QED BY <2>2
<1>3. lost \in Nat /\ lost <= MAX_LOST /\ MAX_LOST \in Nat /\ Gap \in Nat
  BY GapType DEF KeepTypes
<1> HIDE DEF Gap
<1> QED BY <1>1, <1>2, <1>3

(* A peer has heard from a node that is there within a gap for each message  *)
(* that may be lost, one more, and the time a message takes.                 *)
LEMMA HeardWithin ==
    ASSUME KeepInv
    PROVE  unheard <= (MAX_LOST + 1) * Gap + LATENCY
<1>1. unheard \in Nat /\ LATENCY \in Nat
  BY GapType DEF KeepInv, KeepTypes
<1>2. CASE flight = << >>
  BY <1>1, <1>2, Gaps, GapType DEF KeepInv
<1>3. CASE flight # << >>
  <2>1. flight[1] \in Message
    BY <1>3, Queues DEF KeepInv, KeepTypes
  <2>2. flight[1].age \in 0 .. LATENCY
    BY <2>1 DEF Message
  <2> QED BY <1>1, <1>3, <2>2, Gaps, GapType DEF KeepInv
<1> QED BY <1>2, <1>3

(* What a message sent does, whether it gets there or not. *)
LEMMA SendKeeps ==
    ASSUME KeepInv, NEW offer \in Nat, Keeping!Send(offer), UNCHANGED <<unheard, dropped>>,
           ticked' \in 0 .. PERIOD, terms' \in Nat
    PROVE  KeepInv'
<1> DEFINE m == [age |-> 0, terms |-> offer]
<1>1. m \in Message /\ m.age = 0
  BY GapType DEF Message
<1>2. /\ quiet' = 0
      /\ \/ flight' = Append(flight, m) /\ lost' = 0
         \/ lost < MAX_LOST /\ lost' = lost + 1 /\ flight' = flight
  BY DEF Keeping!Send
<1> HIDE DEF m
<1>3. flight \in Seq(Message) /\ lost \in 0 .. MAX_LOST /\ unheard \in Nat
  BY DEF KeepInv, KeepTypes
<1>4. flight' \in Seq(Message)
  BY <1>1, <1>2, <1>3, Queues
<1>5. Keeping!Interval' = Keeping!Interval /\ Gap' = Gap
  BY DEF Gap, Keeping!Interval
<1>6. lost' \in 0 .. MAX_LOST /\ quiet' \in 0 .. Keeping!Interval
  BY <1>2, <1>3, GapType
<1>7. KeepTypes'
  BY <1>3, <1>4, <1>5, <1>6 DEF KeepTypes, Message
<1>8. SentAgo' = 0
  <2>1. SentAgo' = IF quiet' < Keeping!Interval THEN quiet' ELSE Keeping!Interval - 1 + ticked'
    BY DEF SentAgo, Keeping!Interval
  <2>2. quiet' < Keeping!Interval
    BY <1>2, GapType
  <2> QED BY <1>2, <2>1, <2>2
<1> HIDE DEF Gap
<1>9. CASE flight = << >> /\ flight' = Append(flight, m)
  <2>1. flight' # << >> /\ flight'[1].age = 0
    BY <1>1, <1>3, <1>9, Queues
  <2>2. unheard <= (MAX_LOST + 1) * Gap
    BY <1>3, <1>9, Gaps, GapType DEF KeepInv
  <2> QED BY <1>5, <1>7, <2>1, <2>2, Gaps DEF KeepInv
<1>10. CASE flight = << >> /\ flight' = flight /\ lost' = lost + 1
  <2>1. unheard <= (lost + 1) * Gap
    BY <1>3, <1>10, Gaps, GapType DEF KeepInv
  <2>2. (lost + 1) * Gap \in Nat
    BY Gaps, GapType DEF KeepInv
  <2> QED BY <1>5, <1>7, <1>8, <1>10, <2>1, <2>2 DEF KeepInv
<1>11. CASE flight # << >>
  <2>1. flight' # << >> /\ flight'[1] = flight[1]
    BY <1>1, <1>2, <1>3, <1>11, Queues
  <2> QED BY <1>5, <1>7, <1>11, <2>1 DEF KeepInv
<1> QED BY <1>2, <1>9, <1>10, <1>11

(* Time passes for the messages on their way as it does for the peer. *)
LEMMA PassKeeps ==
    ASSUME KeepInv, alive, Keeping!Pass
    PROVE  KeepInv'
<1> USE DEF Keeping!Pass
<1>1. flight \in Seq(Message) /\ unheard \in Nat
  BY DEF KeepInv, KeepTypes
<1>2. \A i \in DOMAIN flight : flight[i] \in Message /\ flight[i].age < LATENCY
  BY <1>1
<1>3. /\ DOMAIN flight = 1 .. Len(flight) /\ Len(flight) \in Nat
      /\ flight' = [i \in 1 .. Len(flight) |-> [flight[i] EXCEPT !.age = @ + 1]]
  BY <1>1
<1>4. \A i \in 1 .. Len(flight) :
         [flight[i] EXCEPT !.age = @ + 1] \in Message
  <2>1. ASSUME NEW m \in Message, m.age < LATENCY PROVE [m EXCEPT !.age = @ + 1] \in Message
    BY <2>1, GapType DEF Message
  <2> HIDE DEF Keeping!Pass
  <2> QED BY <1>2, <1>3, <2>1
<1>5. flight' \in Seq(Message)
  BY <1>3, <1>4
<1>6. Keeping!Interval' = Keeping!Interval /\ Gap' = Gap
  BY DEF Gap, Keeping!Interval
<1>7. quiet' \in 0 .. Keeping!Interval /\ ticked' \in 0 .. PERIOD
  <2>1. quiet \in 0 .. Keeping!Interval /\ ticked \in 0 .. PERIOD
    BY DEF KeepInv, KeepTypes
  <2>2. /\ quiet' = IF quiet < Keeping!Interval THEN quiet + 1 ELSE quiet
        /\ ticked' = ticked + 1 /\ ticked < PERIOD
    OBVIOUS
  <2> HIDE DEF Keeping!Pass
  <2> QED BY <2>1, <2>2, GapType
<1>8. KeepTypes'
  BY <1>1, <1>5, <1>6, <1>7 DEF KeepInv, KeepTypes, Message
<1>9. unheard' <= unheard + 1 /\ unheard' \in Nat
  BY <1>1
<1>10. SentAgo' >= SentAgo + 1 /\ SentAgo \in Nat /\ SentAgo' \in Nat
  <2>1. SentAgo' = IF quiet' < Keeping!Interval THEN quiet' ELSE Keeping!Interval - 1 + ticked'
    BY DEF SentAgo, Keeping!Interval
  <2>2. SentAgo = IF quiet < Keeping!Interval THEN quiet ELSE Keeping!Interval - 1 + ticked
    BY DEF SentAgo
  <2>3. quiet \in 0 .. Keeping!Interval /\ ticked \in 0 .. PERIOD
    BY DEF KeepInv, KeepTypes
  <2>4. ASSUME NEW I \in Nat \ {0}, NEW q \in 0 .. I, NEW t \in Nat,
               NEW r, r = IF q < I THEN q + 1 ELSE q
        PROVE  /\ (IF r < I THEN r ELSE I - 1 + (t + 1)) >= (IF q < I THEN q ELSE I - 1 + t) + 1
               /\ (IF q < I THEN q ELSE I - 1 + t) \in Nat
               /\ (IF r < I THEN r ELSE I - 1 + (t + 1)) \in Nat
    BY <2>4
  <2>5. ticked \in Nat /\ ticked' = ticked + 1 /\ quiet' = IF quiet < Keeping!Interval THEN quiet + 1 ELSE quiet
    BY <2>3, GapType
  <2> HIDE DEF Keeping!Pass
  <2> QED BY <2>1, <2>2, <2>3, <2>4, <2>5, GapType
<1> HIDE DEF Gap
<1>11. CASE flight = << >>
  <2>1. flight' = << >> /\ lost' = lost
    BY <1>3, <1>11
  <2>2. unheard' <= lost * Gap + SentAgo + 1
    BY <1>1, <1>9, <1>10, <1>11, Gaps DEF KeepInv
  <2>3. lost' * Gap' = lost * Gap /\ lost * Gap \in Nat
    BY <1>6, <2>1, Gaps DEF KeepInv
  <2>4. unheard' <= lost' * Gap' + SentAgo'
    BY <1>9, <1>10, <2>2, <2>3
  <2> QED BY <1>8, <2>1, <2>4 DEF KeepInv
<1>12. CASE flight # << >>
  <2>1. flight[1] \in Message /\ 1 \in 1 .. Len(flight)
    BY <1>1, <1>3, <1>12
  <2>2. flight'[1].age = flight[1].age + 1 /\ flight[1].age \in Nat
    BY <1>3, <2>1, GapType DEF Message
  <2>3. flight' # << >>
    BY <1>3, <1>5, <2>1
  <2>4. unheard' <= (MAX_LOST + 1) * Gap + flight'[1].age
    BY <1>1, <1>9, <1>12, <2>2, Gaps DEF KeepInv
  <2> QED BY <1>6, <1>8, <2>3, <2>4 DEF KeepInv
<1> QED BY <1>11, <1>12

(* Nothing the node or the peer does lets the peer wait for longer, as long  *)
(* as a node that is there is heard from before the peer's patience ends.    *)
LEMMA KeepStep ==
    ASSUME (MAX_LOST + 1) * Gap + LATENCY <= STALE_TIMEOUT,
           alive => KeepInv, [Keeping!Next]_(Keeping!vars)
    PROVE  (alive => KeepInv)'
<1> SUFFICES ASSUME alive' PROVE KeepInv'
  OBVIOUS
<1>1. alive /\ KeepInv
  BY DEF Keeping!Next, Keeping!vars, Keeping!Tick, Keeping!Say, Keeping!Revise, Keeping!Hear,
         Keeping!Stale, Keeping!Pass, Keeping!Die
<1>2. Keeping!Interval' = Keeping!Interval /\ Gap' = Gap
  BY DEF Gap, Keeping!Interval
<1>3. SentAgo' = IF quiet' < Keeping!Interval THEN quiet' ELSE Keeping!Interval - 1 + ticked'
  BY DEF SentAgo, Keeping!Interval
<1> HIDE DEF Gap
<1>4. KeepTypes /\ 0 \in 0 .. PERIOD
  BY <1>1, GapType DEF KeepInv
<1>5. ASSUME UNCHANGED Keeping!vars PROVE KeepInv'
  BY <1>1, <1>2, <1>3, <1>5 DEF Keeping!vars, KeepInv, KeepTypes, SentAgo, Message
<1>6. ASSUME Keeping!Tick PROVE KeepInv'
  <2>1. CASE quiet >= Keeping!Interval
    BY <1>1, <1>4, <1>6, <2>1, SendKeeps DEF Keeping!Tick, Keeping!OfferSent, KeepTypes
  <2>2. CASE ~(quiet >= Keeping!Interval)
    <3>1. /\ ticked' = 0 /\ UNCHANGED <<quiet, flight, lost, terms, unheard, dropped>>
          /\ quiet < Keeping!Interval
      BY <1>4, <1>6, <2>2, GapType DEF Keeping!Tick, KeepTypes
    <3>2. SentAgo' = SentAgo
      BY <1>3, <3>1 DEF SentAgo
    <3>3. KeepTypes'
      BY <1>2, <1>4, <3>1 DEF KeepTypes, Message
    <3> QED BY <1>1, <1>2, <3>1, <3>2, <3>3 DEF KeepInv
  <2> QED BY <2>1, <2>2
<1>7. ASSUME Keeping!Say PROVE KeepInv'
  <2>1. Keeping!NoTerms \in Nat
    BY GapType DEF Keeping!NoTerms
  <2> QED BY <1>1, <1>4, <1>7, <2>1, SendKeeps DEF Keeping!Say, KeepTypes
<1>8. ASSUME Keeping!Revise PROVE KeepInv'
  <2>1. terms + 1 \in Nat
    BY <1>4 DEF KeepTypes
  <2> QED BY <1>1, <1>4, <1>8, <2>1, SendKeeps DEF Keeping!Revise, KeepTypes
<1>9. ASSUME Keeping!Hear PROVE KeepInv'
  <2>1. flight # << >> /\ flight' = Tail(flight) /\ unheard' = 0 /\ UNCHANGED <<quiet, ticked, terms, lost, dropped>>
    BY <1>9 DEF Keeping!Hear
  <2>2. flight' \in Seq(Message)
    BY <1>4, <2>1 DEF KeepTypes
  <2>3. KeepTypes'
    BY <1>2, <1>4, <2>1, <2>2 DEF KeepTypes, Message
  <2>4. SentAgo' = SentAgo /\ SentAgo \in Nat /\ lost' * Gap' = lost * Gap /\ lost * Gap \in Nat
    BY <1>2, <1>3, <1>4, <2>1, Gaps DEF SentAgo
  <2>5. flight' # << >> => flight'[1] \in Message /\ flight'[1].age \in Nat
    <3>1. flight' # << >> => flight'[1] \in Message
      BY <2>2, Queues
    <3> QED BY <3>1, GapType DEF Message
  <2>6. unheard' <= IF flight' = << >> THEN lost' * Gap' + SentAgo'
                    ELSE (MAX_LOST + 1) * Gap' + flight'[1].age
    BY <1>2, <1>4, <2>1, <2>4, <2>5, Gaps
  <2> QED BY <1>1, <2>1, <2>3, <2>6 DEF KeepInv
<1>10. ASSUME Keeping!Stale PROVE FALSE
  <2>1. unheard > STALE_TIMEOUT
    BY <1>10 DEF Keeping!Stale, Keeping!TooLong
  <2> QED BY <1>1, <1>4, <2>1, HeardWithin, Gaps, GapType DEF KeepTypes
<1>11. ASSUME Keeping!Pass PROVE KeepInv'
  BY <1>1, <1>11, PassKeeps
<1>12. ASSUME Keeping!Die PROVE FALSE
  BY <1>12 DEF Keeping!Die
<1> QED BY <1>5, <1>6, <1>7, <1>8, <1>9, <1>10, <1>11, <1>12 DEF Keeping!Next

(* A node that is there is never taken for gone, as long as the peer's       *)
(* patience outlasts, for every message that may be lost in a row and one    *)
(* more, a keepalive interval and a tick, and then the time a message takes  *)
(* (keepalive_interval_ms, keep_alive and Tick's stale check).               *)
THEOREM NotTakenForGone ==
    ASSUME (MAX_LOST + 1) * (Keeping!Interval - 1 + PERIOD) + LATENCY <= STALE_TIMEOUT
    PROVE  MCSpec => []NeverTakenForGone
<1> DEFINE Inv == part = "keepalive" => (alive => KeepInv)
<1>1. MCInit => Inv
  <2> SUFFICES ASSUME Keeping!Init PROVE KeepInv
    BY DEF MCInit
  <2>1. KeepTypes
    BY GapType DEF Keeping!Init, KeepTypes
  <2>2. lost * Gap \in Nat /\ SentAgo \in Nat
    BY <2>1, Gaps
  <2> QED BY <2>1, <2>2 DEF Keeping!Init, KeepInv
<1>2. Inv /\ [MCNext]_<<part, vars, settlerVars, fundingVars, keepVars>> => Inv'
  <2> SUFFICES ASSUME Inv, [MCNext]_<<part, vars, settlerVars, fundingVars, keepVars>>,
                      part' = "keepalive"
               PROVE  (alive => KeepInv)'
    OBVIOUS
  <2>1. part = "keepalive" /\ [Keeping!Next]_(Keeping!vars)
    BY DEF MCNext, HostNext, SettlerNext, FundingNext, KeepNext, Keeping!vars, keepVars
  <2> QED BY <2>1, KeepStep DEF Gap
<1>3. Inv => NeverTakenForGone
  BY DEF KeepInv, NeverTakenForGone, Keeping!NeverTakenForGone
<1> QED BY <1>1, <1>2, <1>3, PTL DEF MCSpec

-----------------------------------------------------------------------------
(* Fundings. *)

\* Requests whose call has come back.
Returned == {r \in Opening!Requests : requests[r].at \in {"sleeping", "failed", "over"}}

Unasked == \A q \in Opening!Requests : q > asked => requests[q].at = "none"

\* What core waits on, and what the host does about it; no more calls have
\* failed in a row than have come back.
FundInv ==
    /\ Opening!TypeOK /\ Unasked
    /\ failures <= Cardinality(Returned)
    /\ pending # None => open = None
    /\ open # None => open.latest = asked /\ open.first <= asked
    /\ ~sells => outages > 0
    /\ open # None /\ open.since # None =>
          \/ requests[asked].at \in {"calling", "sleeping", "failed", "funded"}
          \/ outages > 0

\* The last call was made by the last request that was not kept quiet, and its
\* failure reaches core no sooner than the first wait after it.
WaitInv ==
    called # None =>
       /\ called <= funding_now
       /\ open # None => IF open.since = None THEN funding_now >= called + INITIAL
                         ELSE called <= open.since
       /\ asked # 0 /\ requests[asked].at = "sleeping" => requests[asked].until >= called + INITIAL
       /\ asked # 0 /\ requests[asked].at = "failed" => funding_now >= called + INITIAL

(* The constants. *)
LEMMA FundingTypes ==
    /\ MAX_REQUESTS \in Nat /\ INITIAL \in Nat \ {0} /\ FUNDING_TIMEOUT \in Nat
    /\ INITIAL <= FUNDING_TIMEOUT /\ FUNDED_BY \in Nat /\ MAX_OUTAGES \in Nat /\ None \notin Nat
    /\ Opening!Requests = 1 .. MAX_REQUESTS
<1>1. Opening!FundingAssumption
  BY PartsAssumption, Zenon
<1>2. /\ MAX_REQUESTS \in Nat /\ INITIAL \in Nat \ {0} /\ FUNDING_TIMEOUT \in Nat
      /\ INITIAL <= FUNDING_TIMEOUT /\ FUNDED_BY \in Nat /\ MAX_OUTAGES \in Nat /\ None \notin Nat
  BY <1>1, Zenon DEF Opening!FundingAssumption
<1> QED BY <1>2, Zenon DEF Opening!Requests

(* A wait is at least the first, and at most the timeout. *)
LEMMA WaitType ==
    ASSUME NEW n \in 1 .. MAX_REQUESTS
    PROVE  Opening!Delay(n) \in INITIAL .. FUNDING_TIMEOUT
<1>1. n - 1 \in 0 .. MAX_REQUESTS
  BY FundingTypes
<1>2. 2 ^ (n - 1) \in Nat \ {0}
  BY <1>1, PartsAssumption, Zenon DEF Opening!FundingAssumption
<1>3. ASSUME NEW x \in Nat \ {0}
      PROVE  (IF INITIAL * x < FUNDING_TIMEOUT THEN INITIAL * x ELSE FUNDING_TIMEOUT)
                \in INITIAL .. FUNDING_TIMEOUT
  <2>1. INITIAL * x \in Nat /\ INITIAL * x >= INITIAL
    <3>1. PICK y \in Nat : x = y + 1
      OBVIOUS
    <3>2. INITIAL * x = INITIAL * y + INITIAL /\ INITIAL * y \in Nat
      BY <3>1, FundingTypes
    <3> QED BY <3>2, FundingTypes
  <2> QED BY <2>1, FundingTypes
<1> QED BY <1>2, <1>3 DEF Opening!Delay

(* There are no more requests that came back than requests, and a set of    *)
(* them that grows counts for more.                                         *)
LEMMA ReturnedCount ==
    ASSUME NEW R \in SUBSET Opening!Requests, NEW S \in SUBSET Opening!Requests, R \subseteq S
    PROVE  /\ Cardinality(R) \in Nat /\ Cardinality(S) \in Nat /\ Cardinality(R) <= Cardinality(S)
           /\ Cardinality(S) <= MAX_REQUESTS
           /\ \A r \in S \ R : Cardinality(R) + 1 <= Cardinality(S)
<1>1. IsFiniteSet(Opening!Requests) /\ Cardinality(Opening!Requests) = MAX_REQUESTS
  BY FundingTypes, FS_Interval
<1>2. IsFiniteSet(S) /\ Cardinality(S) <= MAX_REQUESTS /\ Cardinality(S) \in Nat
  BY <1>1, FS_Subset, FS_CardinalityType
<1>3. IsFiniteSet(R) /\ Cardinality(R) <= Cardinality(S) /\ Cardinality(R) \in Nat
  BY <1>2, FS_Subset, FS_CardinalityType
<1>4. ASSUME NEW r \in S \ R PROVE Cardinality(R) + 1 <= Cardinality(S)
  <2>1. Cardinality(R \cup {r}) = Cardinality(R) + 1
    BY <1>3, <1>4, FS_AddElement
  <2>2. R \cup {r} \subseteq S
    BY <1>4
  <2> QED BY <1>2, <2>1, <2>2, FS_Subset
<1> QED BY <1>2, <1>3, <1>4

(* A request that goes on, when the rest stays. *)
LEMMA RequestMoves ==
    ASSUME FundInv, NEW r \in Opening!Requests, NEW t \in Opening!Task,
           requests' = [requests EXCEPT ![r] = t],
           requests[r].at \in {"sleeping", "failed", "over"} => t.at \in {"sleeping", "failed", "over"}
    PROVE  /\ requests' \in [Opening!Requests -> Opening!Task]
           /\ Returned' \in SUBSET Opening!Requests /\ Returned \subseteq Returned'
           /\ Cardinality(Returned) <= Cardinality(Returned')
           /\ Cardinality(Returned) \in Nat /\ Cardinality(Returned') \in Nat
<1>1. requests \in [Opening!Requests -> Opening!Task]
  BY DEF FundInv, Opening!TypeOK
<1>2. requests' \in [Opening!Requests -> Opening!Task]
  BY <1>1
<1>3. Opening!Requests' = Opening!Requests
  BY DEF Opening!Requests
<1>4. Returned' \in SUBSET Opening!Requests /\ Returned \subseteq Returned'
  BY <1>1, <1>3 DEF Returned
<1>5. Returned \in SUBSET Opening!Requests
  BY DEF Returned
<1> QED BY <1>2, <1>4, <1>5, ReturnedCount

\* The types of all but the requests.
FundingTyped ==
    /\ funding_now \in 0 .. FUNDED_BY
    /\ open \in [first : Opening!Requests, latest : Opening!Requests, since : Nat \cup {None}] \cup {None}
    /\ asked \in Opening!Requests \cup {0}
    /\ failures \in Nat
    /\ pending \in Opening!Requests \cup {None} /\ unused \subseteq Opening!Requests
    /\ sells \in BOOLEAN /\ outages \in 0 .. MAX_OUTAGES
    /\ called \in 0 .. FUNDED_BY \cup {None}

(* The parts of the types. *)
LEMMA FundingTypesNext ==
    /\ Opening!TypeOK <=> FundingTyped /\ requests \in [Opening!Requests -> Opening!Task]
    /\ Opening!TypeOK' <=> FundingTyped' /\ requests' \in [Opening!Requests -> Opening!Task]
    /\ Opening!Requests' = Opening!Requests
  BY DEF Opening!TypeOK, FundingTyped, Opening!Requests, Opening!Task

(* A request's new place is one. *)
LEMMA TaskType ==
    ASSUME NEW where \in {"none", "calling", "sleeping", "failed", "funded", "over"},
           NEW until \in 0 .. (FUNDED_BY + FUNDING_TIMEOUT)
    PROVE  /\ [at |-> where, until |-> until] \in Opening!Task
           /\ [at |-> where, until |-> 0] \in Opening!Task
  BY FundingTypes DEF Opening!Task

(* Asking: the last call is the first wait away, or the timeout, which is    *)
(* no shorter.                                                               *)
LEMMA AskKeeps ==
    ASSUME FundInv, WaitInv, Opening!Ask
    PROVE  FundInv' /\ WaitInv' /\ Opening!AskedAfterWait
<1> DEFINE r == asked + 1
<1>1. /\ r \in Opening!Requests /\ asked' = r /\ pending = None /\ ~Opening!InFlight
      /\ open' = [first |-> IF open = None THEN r ELSE open.first, latest |-> r, since |-> funding_now]
      /\ IF sells THEN requests' = Opening!At(r, "calling") /\ called' = funding_now
         ELSE requests' = Opening!At(r, "over") /\ UNCHANGED called
      /\ UNCHANGED <<funding_now, failures, pending, unused, sells, outages>>
  BY DEF Opening!Ask
<1>2. FundingTyped /\ requests \in [Opening!Requests -> Opening!Task]
  BY FundingTypesNext DEF FundInv
<1>3. FundingTyped'
  <2>1. open' \in [first : Opening!Requests, latest : Opening!Requests, since : Nat \cup {None}]
    BY <1>1, <1>2 DEF FundingTyped
  <2> QED BY <1>1, <1>2, <2>1, FundingTypesNext, FundingTypes DEF FundingTyped
<1>4. PICK where \in {"calling", "over"} :
         /\ where = IF sells THEN "calling" ELSE "over"
         /\ requests' = [requests EXCEPT ![r] = [at |-> where, until |-> 0]]
  BY <1>1 DEF Opening!At
<1>5. [at |-> where, until |-> 0] \in Opening!Task
  BY TaskType, FundingTypes
<1>6. r \in Nat /\ asked \in Nat /\ r > asked
  BY <1>1, <1>2, FundingTypes DEF FundingTyped
<1>7. requests[r].at = "none"
  BY <1>1, <1>6 DEF FundInv, Unasked
<1>8. /\ requests' \in [Opening!Requests -> Opening!Task]
      /\ Cardinality(Returned) <= Cardinality(Returned')
      /\ Cardinality(Returned) \in Nat /\ Cardinality(Returned') \in Nat
  <2> DEFINE t == [at |-> where, until |-> 0]
  <2>1. t \in Opening!Task /\ requests' = [requests EXCEPT ![r] = t]
    BY <1>4, <1>5
  <2> HIDE DEF t
  <2> QED BY <1>1, <1>7, <2>1, RequestMoves
<1>9. requests'[r].at = where
  BY <1>1, <1>2, <1>4
<1>10. FundInv'
  <2>1. Opening!TypeOK'
    BY <1>3, <1>8, FundingTypesNext
  <2>2. failures' <= Cardinality(Returned')
    BY <1>1, <1>2, <1>8 DEF FundInv, FundingTyped
  <2>3. ~sells => where = "over" /\ outages > 0
    BY <1>4 DEF FundInv
  <2>4. Unasked'
    <3> SUFFICES ASSUME NEW q \in Opening!Requests, q > asked' PROVE requests'[q].at = "none"
      BY FundingTypesNext DEF Unasked
    <3>1. q # r /\ q > asked /\ q \in Nat
      BY <1>1, <1>6, FundingTypes
    <3> QED BY <1>2, <1>4, <3>1 DEF FundInv, Unasked
  <2>5. open' # None => open'.latest = asked' /\ open'.first <= asked'
    <3>1. open # None => open.first \in Nat /\ open.first <= asked
      BY <1>2, FundingTypes DEF FundInv, FundingTyped
    <3> QED BY <1>1, <1>6, <3>1
  <2> QED BY <1>1, <1>4, <1>9, <2>1, <2>2, <2>3, <2>4, <2>5 DEF FundInv
<1>11. WaitInv'
  <2>1. funding_now \in Nat
    BY <1>2, FundingTypes DEF FundingTyped
  <2>2. requests'[asked'].at \in {"calling", "over"}
    BY <1>1, <1>4, <1>9
  <2>3. open' # None => open'.since = funding_now
    BY <1>1
  <2>4. called' # None => called' <= funding_now
    BY <1>1, <2>1 DEF WaitInv
  <2>5. funding_now # None
    BY <2>1, FundingTypes
  <2> QED BY <1>1, <2>2, <2>3, <2>4, <2>5 DEF WaitInv
<1>12. Opening!AskedAfterWait
  <2> SUFFICES ASSUME open # None, called # None PROVE funding_now - called >= INITIAL
    BY DEF Opening!AskedAfterWait
  <2>1. funding_now \in Nat /\ called \in Nat /\ open.since \in Nat \cup {None}
    BY <1>2, FundingTypes DEF FundingTyped
  <2>2. CASE open.since = None
    BY <2>1, <2>2, FundingTypes DEF WaitInv
  <2>3. CASE open.since # None
    <3>1. ~(funding_now - open.since < FUNDING_TIMEOUT) /\ called <= open.since /\ open.since \in Nat
      BY <1>1, <2>1, <2>3 DEF Opening!InFlight, WaitInv
    <3> QED BY <2>1, <3>1, FundingTypes
  <2> QED BY <2>2, <2>3
<1> QED BY <1>10, <1>11, <1>12

(* A request that was asked goes on, and the rest of what is typed is. *)
LEMMA GoesOn ==
    ASSUME FundInv, NEW r \in Opening!Requests, NEW t \in Opening!Task,
           requests' = [requests EXCEPT ![r] = t], requests[r].at # "none",
           requests[r].at \in {"sleeping", "failed", "over"} => t.at \in {"sleeping", "failed", "over"},
           asked' = asked, FundingTyped', failures' <= failures
    PROVE  /\ Opening!TypeOK' /\ Unasked' /\ failures' <= Cardinality(Returned')
           /\ r <= asked /\ asked \in Nat /\ asked # 0
           /\ requests'[asked] = IF r = asked THEN t ELSE requests[asked]
<1>1. FundingTyped /\ requests \in [Opening!Requests -> Opening!Task]
  BY FundingTypesNext DEF FundInv
<1>2. /\ requests' \in [Opening!Requests -> Opening!Task]
      /\ Cardinality(Returned) <= Cardinality(Returned')
      /\ Cardinality(Returned) \in Nat /\ Cardinality(Returned') \in Nat
  BY RequestMoves
<1>3. r \in Nat /\ r > 0 /\ asked \in Nat
  BY <1>1, FundingTypes DEF FundingTyped
<1>4. ~(r > asked)
  BY DEF FundInv, Unasked
<1>5. r <= asked /\ asked # 0 /\ asked \in Opening!Requests
  BY <1>1, <1>3, <1>4 DEF FundingTyped
<1>6. Unasked'
  <2> SUFFICES ASSUME NEW q \in Opening!Requests, q > asked PROVE requests'[q].at = "none"
    BY FundingTypesNext DEF Unasked
  <2>1. q # r /\ q \in Nat
    BY <1>3, <1>5, FundingTypes
  <2> QED BY <1>1, <2>1 DEF FundInv, Unasked
<1>7. Opening!TypeOK'
  BY <1>2, FundingTypesNext
<1>8. failures' <= Cardinality(Returned')
  BY <1>1, <1>2 DEF FundInv, FundingTyped
<1> QED BY <1>1, <1>3, <1>5, <1>6, <1>7, <1>8

(* Core takes a channel, and no longer waits; or hands it back. *)
LEMMA HearFundedKeeps ==
    ASSUME FundInv, WaitInv, NEW r \in Opening!Requests, Opening!HearFunded(r)
    PROVE  FundInv' /\ WaitInv'
<1> DEFINE t == [at |-> "over", until |-> 0]
<1>1. /\ requests[r].at = "funded" /\ requests' = [requests EXCEPT ![r] = t]
      /\ IF Opening!Answers(r) THEN pending' = r /\ open' = None /\ UNCHANGED unused
         ELSE unused' = unused \cup {r} /\ UNCHANGED <<pending, open>>
      /\ UNCHANGED <<funding_now, asked, failures, sells, outages, called>>
  BY DEF Opening!HearFunded, Opening!At
<1>2. FundingTyped /\ failures \in Nat
  BY FundingTypesNext DEF FundInv, FundingTyped
<1>3. FundingTyped'
  BY <1>1, <1>2, FundingTypesNext DEF FundingTyped
<1>4. t \in Opening!Task /\ t.at = "over"
  BY TaskType, FundingTypes
<1> HIDE DEF t
<1>5. /\ Opening!TypeOK' /\ Unasked' /\ failures' <= Cardinality(Returned')
      /\ r <= asked /\ asked \in Nat /\ asked # 0
      /\ requests'[asked] = IF r = asked THEN t ELSE requests[asked]
  <2>1. failures' <= failures /\ requests[r].at # "none"
        /\ (requests[r].at \in {"sleeping", "failed", "over"} => t.at \in {"sleeping", "failed", "over"})
    BY <1>1, <1>2, <1>3, <1>4
  <2> QED BY <1>1, <1>2, <1>3, <1>4, <2>1, GoesOn, Zenon
<1>6. CASE open' = None
  <2>1. FundInv'
    BY <1>1, <1>5, <1>6 DEF FundInv
  <2>2. WaitInv'
    BY <1>1, <1>4, <1>5, <1>6 DEF WaitInv
  <2> QED BY <2>1, <2>2
<1>7. CASE open' # None
  <2>1. ~Opening!Answers(r) /\ open' = open /\ pending' = pending
    BY <1>1, <1>7
  <2>2. r # asked
    <3> SUFFICES ASSUME r = asked PROVE FALSE
      OBVIOUS
    <3>1. pending = None /\ open.latest = r /\ open.first \in Opening!Requests /\ open.first \in Nat
      BY <1>2, <1>7, <2>1, FundingTypes DEF FundInv, FundingTyped
    <3>2. ~(open.first <= r)
      BY <1>5, <1>7, <2>1, <3>1 DEF Opening!Answers
    <3> QED BY <1>7, <2>1, <3>1, <3>2 DEF FundInv
  <2>3. requests'[asked] = requests[asked]
    BY <1>5, <2>2
  <2>4. FundInv'
    BY <1>1, <1>5, <2>1, <2>3 DEF FundInv
  <2>5. WaitInv'
    BY <1>1, <2>1, <2>3 DEF WaitInv
  <2> QED BY <2>4, <2>5
<1> QED BY <1>6, <1>7

(* A failure is heard no sooner than the first wait after the last call. *)
LEMMA HearFailedKeeps ==
    ASSUME FundInv, WaitInv, NEW r \in Opening!Requests, Opening!HearFailed(r)
    PROVE  FundInv' /\ WaitInv'
<1> DEFINE t == [at |-> "over", until |-> 0]
<1>1. /\ requests[r].at = "failed" /\ requests' = [requests EXCEPT ![r] = t]
      /\ open' = IF Opening!IsLatest(r) THEN [open EXCEPT !.since = None] ELSE open
      /\ UNCHANGED <<funding_now, asked, failures, pending, unused, sells, outages, called>>
  BY DEF Opening!HearFailed, Opening!At
<1>2. FundingTyped /\ failures \in Nat
  BY FundingTypesNext DEF FundInv, FundingTyped
<1>3. open' \in [first : Opening!Requests, latest : Opening!Requests, since : Nat \cup {None}] \cup {None}
  BY <1>1, <1>2 DEF FundingTyped, Opening!IsLatest
<1>4. FundingTyped'
  BY <1>1, <1>2, <1>3, FundingTypesNext DEF FundingTyped
<1>5. t \in Opening!Task /\ t.at = "over"
  BY TaskType, FundingTypes
<1> HIDE DEF t
<1>6. /\ Opening!TypeOK' /\ Unasked' /\ failures' <= Cardinality(Returned')
      /\ r <= asked /\ asked \in Nat /\ asked # 0
      /\ requests'[asked] = IF r = asked THEN t ELSE requests[asked]
  <2>1. failures' <= failures /\ requests[r].at # "none"
        /\ (requests[r].at \in {"sleeping", "failed", "over"} => t.at \in {"sleeping", "failed", "over"})
    BY <1>1, <1>2, <1>4, <1>5
  <2> QED BY <1>1, <1>2, <1>4, <1>5, <2>1, GoesOn, Zenon
<1>7. CASE Opening!IsLatest(r)
  <2>1. /\ open # None /\ open.latest = r /\ r = asked /\ pending = None
    BY <1>7 DEF Opening!IsLatest, FundInv
  <2>2. open' = [open EXCEPT !.since = None] /\ open'.since = None /\ open'.latest = r
    BY <1>1, <1>2, <1>7, <2>1 DEF FundingTyped
  <2>3. FundInv'
    BY <1>1, <1>6, <2>1, <2>2 DEF FundInv
  <2>4. WaitInv'
    BY <1>1, <1>5, <1>6, <2>1, <2>2 DEF WaitInv
  <2> QED BY <2>3, <2>4
<1>8. CASE ~Opening!IsLatest(r)
  <2>1. open' = open /\ (open # None => r # asked)
    BY <1>1, <1>8 DEF Opening!IsLatest, FundInv
  <2>2. FundInv'
    BY <1>1, <1>6, <2>1 DEF FundInv
  <2>3. WaitInv'
    BY <1>1, <1>5, <1>6, <2>1 DEF WaitInv
  <2> QED BY <2>2, <2>3
<1> QED BY <1>7, <1>8

(* A call that works starts the count of failures again. *)
LEMMA CallWorksKeeps ==
    ASSUME FundInv, WaitInv, NEW r \in Opening!Requests, Opening!CallWorks(r)
    PROVE  FundInv' /\ WaitInv'
<1> DEFINE t == [at |-> "funded", until |-> 0]
<1>1. /\ requests[r].at = "calling" /\ requests' = [requests EXCEPT ![r] = t] /\ failures' = 0
      /\ UNCHANGED <<funding_now, open, asked, pending, unused, sells, outages, called>>
  BY DEF Opening!CallWorks, Opening!At
<1>2. FundingTyped /\ failures \in Nat
  BY FundingTypesNext DEF FundInv, FundingTyped
<1>3. FundingTyped'
  BY <1>1, <1>2, FundingTypesNext DEF FundingTyped
<1>4. t \in Opening!Task /\ t.at = "funded"
  BY TaskType, FundingTypes
<1> HIDE DEF t
<1>5. /\ Opening!TypeOK' /\ Unasked' /\ failures' <= Cardinality(Returned')
      /\ r <= asked /\ asked \in Nat /\ asked # 0
      /\ requests'[asked] = IF r = asked THEN t ELSE requests[asked]
  <2>1. failures' <= failures /\ requests[r].at # "none"
        /\ (requests[r].at \in {"sleeping", "failed", "over"} => t.at \in {"sleeping", "failed", "over"})
    BY <1>1, <1>2, <1>3, <1>4
  <2> QED BY <1>1, <1>2, <1>3, <1>4, <2>1, GoesOn, Zenon
<1>6. FundInv'
  BY <1>1, <1>4, <1>5 DEF FundInv
<1>7. WaitInv'
  BY <1>1, <1>4, <1>5 DEF WaitInv
<1> QED BY <1>6, <1>7

(* A wait that is over has lasted the first one. *)
LEMMA SleepOverKeeps ==
    ASSUME FundInv, WaitInv, NEW r \in Opening!Requests, Opening!SleepOver(r)
    PROVE  FundInv' /\ WaitInv'
<1> DEFINE t == [at |-> "failed", until |-> 0]
<1>1. /\ requests[r].at = "sleeping" /\ requests' = [requests EXCEPT ![r] = t]
      /\ funding_now >= requests[r].until
      /\ UNCHANGED <<funding_now, failures, open, asked, pending, unused, sells, outages, called>>
  BY DEF Opening!SleepOver, Opening!At
<1>2. FundingTyped /\ failures \in Nat /\ requests[r].until \in Nat
  BY FundingTypesNext, FundingTypes, SMTT(20) DEF FundInv, FundingTyped, Opening!Task
<1>3. FundingTyped'
  BY <1>1, <1>2, FundingTypesNext DEF FundingTyped
<1>4. t \in Opening!Task /\ t.at = "failed"
  BY TaskType, FundingTypes
<1> HIDE DEF t
<1>5. /\ Opening!TypeOK' /\ Unasked' /\ failures' <= Cardinality(Returned')
      /\ r <= asked /\ asked \in Nat /\ asked # 0
      /\ requests'[asked] = IF r = asked THEN t ELSE requests[asked]
  <2>1. failures' <= failures /\ requests[r].at # "none"
        /\ (requests[r].at \in {"sleeping", "failed", "over"} => t.at \in {"sleeping", "failed", "over"})
    BY <1>1, <1>2, <1>3, <1>4
  <2> QED BY <1>1, <1>2, <1>3, <1>4, <2>1, GoesOn, Zenon
<1>6. FundInv'
  BY <1>1, <1>4, <1>5 DEF FundInv
<1>7. CASE r = asked /\ called # None
  <2>1. called \in Nat /\ funding_now \in Nat
    BY <1>2, <1>7, FundingTypes DEF FundingTyped
  <2>2. funding_now >= called + INITIAL
    BY <1>1, <1>2, <1>5, <1>7, <2>1, FundingTypes DEF WaitInv
  <2> QED BY <1>1, <1>4, <1>5, <1>6, <1>7, <2>2 DEF WaitInv
<1>8. CASE ~(r = asked /\ called # None)
  BY <1>1, <1>5, <1>6, <1>8 DEF WaitInv
<1> QED BY <1>7, <1>8

(* A call that fails is held back for the first wait at least. *)
LEMMA CallFailsKeeps ==
    ASSUME FundInv, WaitInv, NEW r \in Opening!Requests, Opening!CallFails(r)
    PROVE  FundInv' /\ WaitInv'
<1> DEFINE t == [at |-> "sleeping", until |-> funding_now + Opening!Delay(failures')]
<1>1. /\ requests[r].at = "calling" /\ requests' = [requests EXCEPT ![r] = t] /\ failures' = failures + 1
      /\ UNCHANGED <<funding_now, open, asked, pending, unused, sells, outages, called>>
  BY DEF Opening!CallFails, Opening!Wait
<1>2. FundingTyped /\ failures \in Nat /\ funding_now \in 0 .. FUNDED_BY
  BY FundingTypesNext DEF FundInv, FundingTyped
<1>3. requests \in [Opening!Requests -> Opening!Task] /\ Opening!Requests' = Opening!Requests
  BY FundingTypesNext DEF FundInv
<1>4. r \notin Returned /\ Returned \in SUBSET Opening!Requests
  BY <1>1 DEF Returned
<1>5. Cardinality(Returned) + 1 <= MAX_REQUESTS /\ Cardinality(Returned) \in Nat
  <2> DEFINE S == Returned \cup {r}
  <2>1. S \in SUBSET Opening!Requests /\ r \in S \ Returned /\ Returned \subseteq S
    BY <1>4
  <2> HIDE DEF S
  <2>2. /\ Cardinality(Returned) + 1 <= Cardinality(S) /\ Cardinality(S) <= MAX_REQUESTS
        /\ Cardinality(Returned) \in Nat /\ Cardinality(S) \in Nat
    BY <1>4, <2>1, ReturnedCount
  <2> QED BY <2>2, FundingTypes
<1>6. failures' \in 1 .. MAX_REQUESTS
  BY <1>1, <1>2, <1>5, FundingTypes DEF FundInv
<1>7. Opening!Delay(failures') \in INITIAL .. FUNDING_TIMEOUT
  BY <1>6, WaitType
<1>8. t.until \in 0 .. (FUNDED_BY + FUNDING_TIMEOUT) /\ t.until >= funding_now + INITIAL /\ t.at = "sleeping"
  BY <1>2, <1>7, FundingTypes
<1>9. t \in Opening!Task
  <2> DEFINE u == funding_now + Opening!Delay(failures')
  <2>1. t = [at |-> "sleeping", until |-> u] /\ u \in 0 .. (FUNDED_BY + FUNDING_TIMEOUT)
    BY <1>8
  <2> HIDE DEF u
  <2> QED BY <2>1, TaskType
<1> HIDE DEF t
<1>10. FundingTyped'
  BY <1>1, <1>2, FundingTypesNext DEF FundingTyped
<1>11. requests' \in [Opening!Requests -> Opening!Task]
  BY <1>1, <1>3, <1>9
<1>12. r \in Nat /\ asked \in Nat /\ r <= asked /\ asked # 0 /\ asked \in Opening!Requests
  <2>1. r \in Nat /\ r > 0 /\ asked \in Nat
    BY <1>2, FundingTypes DEF FundingTyped
  <2>2. ~(r > asked)
    BY <1>1 DEF FundInv, Unasked
  <2> QED BY <1>2, <2>1, <2>2 DEF FundingTyped
<1>13. Unasked'
  <2> SUFFICES ASSUME NEW q \in Opening!Requests, q > asked PROVE requests'[q].at = "none"
    BY <1>1, <1>3 DEF Unasked
  <2>1. q # r
    BY <1>12, FundingTypes
  <2> QED BY <1>1, <1>3, <2>1 DEF FundInv, Unasked
<1>14. failures' <= Cardinality(Returned')
  <2>1. Returned' \in SUBSET Opening!Requests /\ Returned \subseteq Returned' /\ r \in Returned'
    BY <1>1, <1>3, <1>8 DEF Returned
  <2>2. Cardinality(Returned) + 1 <= Cardinality(Returned') /\ Cardinality(Returned') \in Nat
    BY <1>4, <2>1, ReturnedCount
  <2> QED BY <1>1, <1>2, <1>5, <2>2 DEF FundInv
<1>15. requests'[asked] = IF r = asked THEN t ELSE requests[asked]
  BY <1>1, <1>3, <1>12
<1>16. FundInv'
  <2>1. Opening!TypeOK'
    BY <1>10, <1>11, FundingTypesNext
  <2> QED BY <1>1, <1>8, <1>13, <1>14, <1>15, <2>1 DEF FundInv
<1>17. CASE r = asked /\ called # None
  <2>1. called \in Nat /\ funding_now \in Nat /\ called <= funding_now
    BY <1>2, <1>17, FundingTypes DEF FundingTyped, WaitInv
  <2>2. t.until >= called + INITIAL
    BY <1>8, <2>1, FundingTypes
  <2> QED BY <1>1, <1>8, <1>15, <1>16, <1>17, <2>2 DEF WaitInv
<1>18. CASE ~(r = asked /\ called # None)
  BY <1>1, <1>15, <1>16, <1>18 DEF WaitInv
<1> QED BY <1>17, <1>18

(* What touches no request: a channel filled, an outage, time. *)
LEMMA RestKeeps ==
    ASSUME FundInv, WaitInv,
           Opening!Filled \/ Opening!Flip \/ Opening!Pass \/ UNCHANGED Opening!vars
    PROVE  FundInv' /\ WaitInv'
<1>1. /\ UNCHANGED <<open, asked, requests, failures, unused, called>>
      /\ pending' \in {pending, None}
  BY DEF Opening!Filled, Opening!Flip, Opening!Pass, Opening!vars
<1>2. FundingTyped /\ funding_now \in 0 .. FUNDED_BY /\ requests \in [Opening!Requests -> Opening!Task]
      /\ sells \in BOOLEAN /\ outages \in 0 .. MAX_OUTAGES
  BY FundingTypesNext DEF FundInv, FundingTyped
<1>3. funding_now' \in 0 .. FUNDED_BY /\ funding_now' >= funding_now
  BY <1>2, FundingTypes DEF Opening!Filled, Opening!Flip, Opening!Pass, Opening!vars
<1>4. /\ sells' \in BOOLEAN /\ outages' \in 0 .. MAX_OUTAGES /\ outages' >= outages
      /\ ~sells' => outages' > 0
  <2>1. CASE UNCHANGED <<sells, outages>>
    BY <1>2, <2>1, FundingTypes DEF FundInv
  <2>2. CASE sells' = ~sells /\ outages < MAX_OUTAGES /\ sells /\ outages' = outages + 1
    BY <1>2, <2>2, FundingTypes
  <2>3. CASE sells' = ~sells /\ ~sells /\ outages' = outages
    <3>1. sells'
      BY <2>3
    <3>2. outages' \in 0 .. MAX_OUTAGES /\ outages' >= outages
      BY <1>2, <2>3, FundingTypes
    <3> QED BY <3>1, <3>2, Zenon
  <2> QED BY <2>1, <2>2, <2>3, Zenon DEF Opening!Filled, Opening!Flip, Opening!Pass, Opening!vars
<1>5. Opening!TypeOK'
  <2>1. FundingTyped'
    BY <1>1, <1>2, <1>3, <1>4, FundingTypesNext DEF FundingTyped
  <2> QED BY <1>1, <1>2, <2>1, FundingTypesNext
<1>6. Unasked' /\ Returned' = Returned
  BY <1>1, FundingTypesNext DEF FundInv, Unasked, Returned
<1>7. FundInv'
  <2>1. outages > 0 => outages' > 0
    BY <1>2, <1>4, FundingTypes
  <2> QED BY <1>1, <1>4, <1>5, <1>6, <2>1 DEF FundInv
<1>8. WaitInv'
  <2> SUFFICES ASSUME called # None PROVE WaitInv'
    BY <1>1 DEF WaitInv
  <2>1. called \in Nat /\ funding_now \in Nat /\ funding_now' \in Nat /\ INITIAL \in Nat
    BY <1>2, <1>3, FundingTypes DEF FundingTyped
  <2>2. /\ called <= funding_now => called <= funding_now'
        /\ funding_now >= called + INITIAL => funding_now' >= called + INITIAL
    BY <1>3, <2>1
  <2> QED BY <1>1, <2>2 DEF WaitInv
<1> QED BY <1>7, <1>8

(* Every step of the fundings. *)
LEMMA FundingNextKeeps ==
    ASSUME FundInv, WaitInv, [Opening!Next]_(Opening!vars)
    PROVE  FundInv' /\ WaitInv' /\ [Opening!AskedAfterWait]_(Opening!vars)
<1>1. CASE Opening!Ask
  BY <1>1, AskKeeps
<1>2. CASE ~Opening!Ask
  <2>1. asked' = asked
    BY <1>2 DEF Opening!Next, Opening!Filled, Opening!Flip, Opening!Pass, Opening!HearFunded,
                Opening!HearFailed, Opening!CallWorks, Opening!CallFails, Opening!SleepOver,
                Opening!vars
  <2>2. FundInv' /\ WaitInv'
    BY <1>2, HearFundedKeeps, HearFailedKeeps, CallWorksKeeps, CallFailsKeeps, SleepOverKeeps,
       RestKeeps DEF Opening!Next
  <2> QED BY <2>1, <2>2 DEF Opening!AskedAfterWait
<1> QED BY <1>1, <1>2

(* Nothing has been asked yet. *)
LEMMA FundingInit == Opening!Init => FundInv /\ WaitInv
<1> SUFFICES ASSUME Opening!Init PROVE FundInv /\ WaitInv
  OBVIOUS
<1>1. [at |-> "none", until |-> 0] \in Opening!Task
  BY TaskType, FundingTypes
<1>2. requests \in [Opening!Requests -> Opening!Task]
  BY <1>1 DEF Opening!Init
<1>3. FundingTyped
  BY FundingTypes DEF Opening!Init, FundingTyped
<1>4. Returned \in SUBSET Opening!Requests
  BY DEF Returned
<1>5. failures <= Cardinality(Returned)
  BY <1>4, ReturnedCount, FundingTypes DEF Opening!Init
<1>6. Opening!TypeOK
  BY <1>2, <1>3, FundingTypesNext
<1> QED BY <1>5, <1>6 DEF Opening!Init, FundInv, WaitInv, Unasked

\* The invariant of the fundings among the parts.
FundingPart == part = "funding" => FundInv /\ WaitInv

(* A step of the parts is a step of the fundings, or leaves them alone. *)
LEMMA FundingStep ==
    ASSUME FundingPart, [MCNext]_<<part, vars, settlerVars, fundingVars, keepVars>>
    PROVE  FundingPart' /\ [part = "funding" => Opening!AskedAfterWait]_fundingVars
<1>1. part' = part /\ (part = "funding" => [Opening!Next]_(Opening!vars))
  BY DEF MCNext, HostNext, SettlerNext, FundingNext, KeepNext, Opening!vars, fundingVars
<1> QED BY <1>1, FundingNextKeeps DEF FundingPart, Opening!vars, fundingVars

(* Core never waits on a funding request the host has answered, in whatever  *)
(* order requests time out, fail and are answered, for any number of them    *)
(* (funding_failed, answers).                                                *)
THEOREM WaitsForAnswers == MCSpec => []WaitsForAnswer
<1>1. MCInit => FundingPart
  BY FundingInit DEF MCInit, FundingPart
<1>2. FundingPart /\ [MCNext]_<<part, vars, settlerVars, fundingVars, keepVars>> => FundingPart'
  BY FundingStep
<1>3. FundingPart => WaitsForAnswer
  BY DEF FundingPart, FundInv, WaitsForAnswer, Opening!WaitsForAnswer, Opening!InFlight
<1> QED BY <1>1, <1>2, <1>3, PTL DEF MCSpec

(* No retry is too early or too late: what a shutdown abandons was being     *)
(* tried when it did; none starts past the deadline in force; and a mint     *)
(* that is down is not asked for a funding again at once (begin_shutdown,    *)
(* drain, Backoff::next, FUNDING_BACKOFF).                                   *)
THEOREM RetriesAreInTime == MCSpec => RetriesInTime
<1>1. MCInit => FundingPart /\ (part = "settler" => SettlerInv)
  BY FundingInit, SettlerInit DEF MCInit, FundingPart
<1>2. FundingPart /\ (part = "settler" => SettlerInv)
         /\ [MCNext]_<<part, vars, settlerVars, fundingVars, keepVars>>
        => FundingPart' /\ (part = "settler" => SettlerInv)'
  BY FundingStep, SettlerStep
<1>3. FundingPart /\ (part = "settler" => SettlerInv)
         /\ [MCNext]_<<part, vars, settlerVars, fundingVars, keepVars>>
        => /\ [phase = "draining" /\ phase' = "stopped" => Settling!Waiting = {}]_(Settling!vars)
           /\ [part = "settler" => Settling!StartsInTime]_settlerVars
           /\ [part = "funding" => Opening!AskedAfterWait]_fundingVars
  BY FundingStep, SettlerStep DEF settlerVars, Settling!vars
<1> QED BY <1>1, <1>2, <1>3, PTL DEF MCSpec, RetriesInTime, Settling!AbandonedInAttempt
==============================================================================
