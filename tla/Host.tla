-------------------------------- MODULE Host ---------------------------------
(***************************************************************************)
(* The node's event loop for one payer's key (tollgate-net/src/node.rs):   *)
(* the connection it is on, what the enforcer gates, the fundings held     *)
(* while nothing is sold, and where its budget is kept.  A payer comes     *)
(* back on a new connection before the old one's end is heard, and, when a *)
(* payer is its address, from another address.  A connection core has      *)
(* dropped the peer of is still read until its end, and core still acts on *)
(* what is said on it.                                                     *)
(*                                                                         *)
(* Core is its session: live, ending or parked, with the budget it holds.  *)
(* Each action is one event from the wire, a finished task or a tick, with *)
(* every action core answers it with.                                      *)
(***************************************************************************)
EXTENDS Budgets, FiniteSets

CONSTANTS
    Conns,                  \* connections, numbered from 1 as they are made
    Fundings,               \* channel fundings the payer sends
    MAX_DEFERRED_FUNDINGS,
    WINDOW,                 \* the window a purchase asks for
    Allowances              \* bounds on what happens in a behaviour, by kind

Allowance ==
    [units    : Nat,    \* units bought, ever
     time     : Nat,    \* time that passes
     fundings : Nat,    \* fundings sent
     outages  : Nat,    \* outages of the enforcer
     crashes  : Nat]    \* crashes of the node

ASSUME HostAssumption ==
    /\ Conns \subseteq Nat \ {0}
    /\ MAX_DEFERRED_FUNDINGS \in Nat /\ WINDOW \in Nat \ {0}
    /\ Allowances \subseteq Allowance

VARIABLES
    conns,      \* each connection: where it is from and whether it has ended
    link,       \* links: the connection the peer is on, 0 if none
    gated,      \* the address the enforcer has for the peer, or None
    selling,    \* Enforcer::selling
    fundings,   \* where each funding is, the connection it came on, and whether
                \* core had dropped the peer by then
    session,    \* Sessions.peers
    parked,     \* Sessions.parked
    budget_key, \* budget_keys
    records,    \* BudgetStore.records
    file,       \* what is on disk
    dirty,      \* whether the last write failed
    unix,       \* the time of day
    started,    \* when the node started
    due,        \* the deadlines of what each key ever bought
    spare       \* what of its Allowance is left to the behaviour

wire  == <<conns, link, gated>>
store == <<records, file, dirty>>
bounds == <<due, spare>>
vars  == <<conns, link, gated, selling, fundings, session, parked, budget_key,
           records, file, dirty, unix, started, due, spare>>

\* A session that resumed one from before has yet to hear the opening Offer.
Session == [closing : BOOLEAN, resumed : BOOLEAN, budget : Budget, owner : Keys]

Incoming ==
    [at : {"none", "held", "verifying", "done", "dropped"}, via : Conns \cup {0}, late : BOOLEAN]

\* None is nothing that is held, kept or known.
ASSUME NoneAssumption ==
    None \notin Addrs /\ None \notin Keys /\ None \notin Session /\ None \notin Record

TypeOK ==
    /\ conns \in [Conns -> [addr : Addrs, st : {"none", "up", "ended"}]]
    /\ link \in Conns \cup {0}
    /\ gated \in Addrs \cup {None}
    /\ selling \in BOOLEAN
    /\ fundings \in [Fundings -> Incoming]
    /\ session \in Session \cup {None} /\ parked \in Session \cup {None}
    /\ budget_key \in Keys \cup {None}
    /\ records \in [Keys -> Record \cup {None}] /\ file \in [Keys -> Record \cup {None}]
    /\ dirty \in BOOLEAN
    /\ unix \in Nat /\ started \in 0 .. unix

now  == unix - started
Held == {f \in Fundings : fundings[f].at = "held"}
Dropping(fs) == [f \in Fundings |-> IF fs[f].at = "held" THEN [fs[f] EXCEPT !.at = "dropped"]
                                    ELSE fs[f]]

\* Whether n is a connection another has replaced: not while there is no link.
Replaced(n) == link # 0 /\ link # n

\* One of what the behaviour is allowed of this kind.
OneOf(kind) == spare[kind] > 0 /\ spare' = [spare EXCEPT ![kind] = @ - 1]

Init ==
    /\ conns \in [Conns -> [addr : Addrs, st : {"none"}]]
    /\ link = 0 /\ gated = None /\ selling = TRUE
    /\ fundings = [f \in Fundings |-> [at |-> "none", via |-> 0, late |-> FALSE]]
    /\ session = None /\ parked = None /\ budget_key = None
    /\ records = NoRecords /\ file = NoRecords /\ dirty = FALSE
    /\ unix = 0 /\ started = 0
    /\ due = [k \in Keys |-> {}]
    /\ spare \in Allowances

-----------------------------------------------------------------------------
(* Actions core asks for. *)

\* SaveBudget of what s holds, to what is kept as recs; the write may fail.
Save(recs, k, s) ==
    LET p == Put(recs, k, s.budget, unix, now) IN
    /\ records' = p.records
    /\ IF ~p.writes THEN UNCHANGED <<file, dirty>>
       ELSE \/ file' = p.records /\ dirty' = FALSE
            \/ file' = file /\ dirty' = TRUE

\* DropPeer, and what the end of a connection lets go of.
LetGo ==
    /\ link' = 0 /\ gated' = None
    /\ fundings' = Dropping(fundings)

NewSession(k, b) ==
    [closing |-> FALSE, resumed |-> FALSE, owner |-> k,
     budget |-> IF b = None THEN [remaining |-> 0, deadline |-> 0] ELSE b]

-----------------------------------------------------------------------------
(* The wire. *)

\* The session the new connection starts over: a live one, or a parked one.
Kept == IF session # None /\ ~session.closing THEN session ELSE parked

\* Whether what is held for the key belongs to another payer, and is forgotten.
Foreign(k) == budget_key # None /\ budget_key # k

StillParked(k)  == IF session # None /\ ~session.closing /\ ~Foreign(k) THEN parked ELSE None

Replacing == IF link # 0 THEN Dropping(fundings) ELSE fundings

\* Wire::PeerUp, and on_connected: what a session that is over held is saved
\* under the key it was had under, and the budget kept is read before core
\* saves that of a session that was ending.
PeerUp(n) ==
    LET k    == Key(conns[n].addr)
        over == IF Foreign(k) THEN IF session # None THEN session ELSE parked
                ELSE IF session # None /\ session.closing THEN session ELSE None
        kept == IF Foreign(k) THEN None ELSE Kept
    IN
    /\ conns[n].st = "none" /\ \A m \in Conns : m < n => conns[m].st # "none"
    /\ conns' = [conns EXCEPT ![n].st = "up"]
    /\ link' = n
    /\ gated' = conns[n].addr
    /\ fundings' = Replacing
    /\ IF over = None THEN UNCHANGED store
       ELSE Save(records, IF Foreign(k) THEN budget_key ELSE k, over)
    /\ session' = IF kept # None THEN [kept EXCEPT !.resumed = TRUE]
                  ELSE NewSession(k, Get(IF Foreign(k) THEN records' ELSE records, k, unix, now))
    /\ parked' = StillParked(k)
    /\ budget_key' = k
    /\ UNCHANGED <<selling, unix, started, bounds>>

\* Hold a session for its return: its budget is saved.
Park(s) ==
    /\ parked' = [s EXCEPT !.closing = FALSE, !.resumed = FALSE]
    /\ Save(records, budget_key, s)

\* Wire::PeerDown: the end of a replaced connection is not the peer's.
PeerDown(n) ==
    /\ conns[n].st = "up"
    /\ conns' = [conns EXCEPT ![n].st = "ended"]
    /\ IF Replaced(n) THEN UNCHANGED <<link, gated, fundings, session, parked, store>>
       ELSE /\ LetGo
            /\ session' = None
            /\ CASE session = None    -> UNCHANGED <<parked, store>>
                 [] session # None /\ session.closing ->
                       Save(records, budget_key, session) /\ UNCHANGED parked
                 [] OTHER             -> Park(session)
    /\ UNCHANGED <<selling, budget_key, unix, started, bounds>>

\* A message reaches core, which acts on it: its connection is up and has not
\* been replaced, and core has a session, one that is ending as well as any other.
Hears(n) == conns[n].st = "up" /\ ~Replaced(n) /\ session # None

\* The opening Offer to a session that resumed: one whose channel the peer has
\* affirmed is live again even if it was ending.
Offer(n) ==
    /\ Hears(n) /\ session.resumed
    /\ \E ending \in {session.closing, FALSE} :
          session' = [session EXCEPT !.resumed = FALSE, !.closing = ending]
    /\ UNCHANGED <<wire, selling, fundings, parked, budget_key, store, unix, started, bounds>>

\* A message of a replaced connection, or for a session core no longer has, is
\* dropped.
Unheard(n) ==
    /\ conns[n].st = "up" /\ (Replaced(n) \/ session = None)
    /\ UNCHANGED vars

\* An Accept or a RolloverInit: VerifyFunding, held while nothing is sold.
HasRoom == Cardinality(Held) < MAX_DEFERRED_FUNDINGS
Funding(n, f) ==
    /\ Hears(n)
    /\ fundings[f].at = "none"
    /\ fundings' = [fundings EXCEPT ![f] =
          [at |-> IF selling THEN "verifying" ELSE IF HasRoom THEN "held" ELSE "dropped",
           via |-> n, late |-> link = 0]]
    /\ OneOf("fundings")
    /\ UNCHANGED <<wire, selling, session, parked, budget_key, store, unix, started, due>>

\* A TopUp core accepts: RecordUpdates and SaveBudget.
TopUp(n) ==
    /\ Hears(n) /\ selling
    /\ OneOf("units")
    /\ LET after == [remaining |-> (IF session.budget.deadline > now
                                    THEN session.budget.remaining ELSE 0) + 1,
                     deadline  |-> now + WINDOW]
           s == [session EXCEPT !.budget = after]
       IN  session' = s /\ Save(records, budget_key, s)
    /\ due' = [due EXCEPT ![session.owner] = @ \cup {unix + WINDOW}]
    /\ UNCHANGED <<wire, selling, fundings, parked, budget_key, unix, started>>

\* A TopUp while nothing is sold is refused before core hears of it.
TopUpUnsold(n) ==
    /\ conns[n].st = "up" /\ ~Replaced(n) /\ ~selling
    /\ UNCHANGED vars

\* A Disconnect, or a message core rejects the peer for.
Disconnect(n) ==
    /\ Hears(n)
    /\ session' = [session EXCEPT !.closing = TRUE]
    /\ LetGo
    /\ UNCHANGED <<conns, selling, parked, budget_key, store, unix, started, bounds>>

-----------------------------------------------------------------------------
(* Tasks, and the tick. *)

\* IncomingFundingVerified: whatever session there is by now is established, one
\* that was ending included.
Verified(f) ==
    /\ fundings[f].at = "verifying"
    /\ fundings' = [fundings EXCEPT ![f].at = "done"]
    /\ session' = IF session = None THEN None ELSE [session EXCEPT !.closing = FALSE]
    /\ UNCHANGED <<wire, selling, parked, budget_key, store, unix, started, bounds>>

\* A funding that does not verify: the peer is rejected and dropped.
NotVerified(f) ==
    /\ fundings[f].at = "verifying"
    /\ link' = 0 /\ gated' = None
    /\ fundings' = [Dropping(fundings) EXCEPT ![f].at = "done"]
    /\ session' = IF session = None THEN None ELSE [session EXCEPT !.closing = TRUE]
    /\ UNCHANGED <<conns, selling, parked, budget_key, store, unix, started, bounds>>

\* Mutant: what is held back stays held back.
ReleasedNever == fundings

\* release_deferred: what was held is verified, if the enforcer sells.
Released ==
    IF selling THEN [f \in Fundings |-> IF f \in Held THEN [fundings[f] EXCEPT !.at = "verifying"]
                                        ELSE fundings[f]]
    ELSE fundings

\* Mutant: a parked peer's key goes as well.
RetainLive == IF session = None THEN None ELSE budget_key

\* budget_keys.retain: a key goes once core holds nothing of the peer.
Retained   == IF session = None /\ parked = None THEN None ELSE budget_key

\* What is drawn of the budget, while the enforcer applies the payer's rate.
Draws(drawn) ==
    \/ drawn = 0
    \/ session # None /\ link # 0 /\ selling /\ drawn <= session.budget.remaining

\* on_tick: fundings released, keys let go, what was carried drawn.
Tick(drawn) ==
    /\ fundings' = Released
    /\ budget_key' = Retained
    /\ session' = IF session = None THEN None
                  ELSE [session EXCEPT !.budget.remaining =
                          IF session.budget.deadline > now THEN @ - drawn ELSE 0]
    /\ Draws(drawn)
    /\ UNCHANGED <<wire, selling, parked, store, unix, started, bounds>>

\* A tick that finds the peer silent for the stale timeout: parked and dropped.
TickStale ==
    /\ session # None
    /\ Park(session)
    /\ session' = None
    /\ link' = 0 /\ gated' = None
    /\ fundings' = Dropping(Released)
    /\ budget_key' = Retained
    /\ UNCHANGED <<conns, selling, unix, started, bounds>>

\* A tick that finds a parked session's grace over.  Its budget was saved.
TickExpired ==
    /\ parked # None
    /\ parked' = None
    /\ fundings' = Released
    /\ budget_key' = Retained
    /\ UNCHANGED <<wire, selling, session, store, unix, started, bounds>>

-----------------------------------------------------------------------------
(* Outside the node. *)

Outage == selling /\ OneOf("outages") /\ selling' = FALSE
          /\ UNCHANGED <<wire, fundings, session, parked, budget_key, store, unix, started, due>>
Recovery == ~selling /\ selling' = TRUE
          /\ UNCHANGED <<wire, fundings, session, parked, budget_key, store, unix, started, bounds>>

Passes == OneOf("time") /\ unix' = unix + 1
          /\ UNCHANGED <<wire, selling, fundings, session, parked, budget_key, store, started, due>>

\* The node dies and starts again: connections and memory are gone.
Crash ==
    /\ OneOf("crashes")
    /\ conns' = [n \in Conns |-> IF conns[n].st = "up" THEN [conns[n] EXCEPT !.st = "ended"]
                                 ELSE conns[n]]
    /\ link' = 0 /\ gated' = None /\ session' = None /\ parked' = None /\ budget_key' = None
    /\ fundings' = [f \in Fundings |->
          IF fundings[f].at \in {"held", "verifying"} THEN [fundings[f] EXCEPT !.at = "dropped"]
          ELSE fundings[f]]
    /\ records' = Open(file, unix)
    /\ dirty' = FALSE
    /\ started' = unix
    /\ UNCHANGED <<selling, file, unix, due>>

Next ==
    \/ \E n \in Conns : PeerUp(n) \/ PeerDown(n) \/ Unheard(n) \/ TopUp(n) \/ TopUpUnsold(n)
                        \/ Disconnect(n) \/ Offer(n)
    \/ \E n \in Conns, f \in Fundings : Funding(n, f)
    \/ \E f \in Fundings : Verified(f) \/ NotVerified(f)
    \/ \E drawn \in {0, 1} : Tick(drawn)
    \/ TickStale \/ TickExpired
    \/ Outage \/ Recovery \/ Passes \/ Crash

Spec == Init /\ [][Next]_vars

-----------------------------------------------------------------------------
(* Properties. *)

\* The enforcer gates the address of the connection the peer is on, and none
\* when it is on none, in whatever order the ends of its connections are heard
\* (on_wire's replaced).
GateFollowsLink ==
    gated = IF link = 0 THEN None ELSE conns[link].addr

\* A funding held back came on the connection the peer is on, or after core had
\* dropped the peer: what was held for a link goes with it (on_wire and DropPeer
\* clear deferred), and only what comes behind a drop can outlast its connection.
HeldOnLink ==
    /\ \A f \in Held : fundings[f].late \/ (link # 0 /\ fundings[f].via = link)
    /\ Cardinality(Held) <= MAX_DEFERRED_FUNDINGS

\* What core holds is kept under the key of the payer who bought it, live,
\* ending or parked, so that SaveBudget is never dropped for want of a key or
\* filed under another payer's, and a live session is never another's
\* (on_wire's forget, and on_tick's retain).
OwnBudget ==
    /\ session # None => session.owner = budget_key
    /\ parked # None => parked.owner = budget_key
    /\ link # 0 /\ session # None => session.owner = Key(conns[link].addr)

\* A peer is never held twice, which would leave two budgets to resume.
HeldOnce == session = None \/ parked = None

\* A budget's deadline stays where a purchase put it on the clock on the wall,
\* through parking, resuming and restarts, though core's clock starts again
\* (budgets.rs get and put).
DeadlineKept ==
    \A s \in {session, parked} \ {None} :
        s.budget.remaining > 0 => s.budget.deadline + started \in due[s.owner]

\* A write that works writes everything: the file is what is in memory unless
\* the last write failed, whichever payer that one was for (put).
FileCatchesUp == dirty \/ Prune(file, unix) = Prune(records, unix)

\* The host agrees with core: the gate follows the connection the peer is on,
\* fundings are held for that one or came behind a drop, the budget is that of
\* the payer it is kept for, with its deadline where a purchase put it on the
\* clock on the wall, and the file is behind only while writes fail (on_wire and
\* on_tick of node.rs, get and put of budgets.rs).
AgreesWithCore ==
    /\ TypeOK /\ GateFollowsLink /\ HeldOnLink /\ HeldOnce
    /\ OwnBudget /\ DeadlineKept /\ FileCatchesUp
=============================================================================
