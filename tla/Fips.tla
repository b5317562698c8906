-------------------------------- MODULE Fips --------------------------------
(***************************************************************************)
(* Selling over a FIPS mesh (enforcer/fips.rs): each peer's admission and  *)
(* rate as core decides them, set on the FIPS daemon with one request each *)
(* over its control socket, and the counts it reports, read into a         *)
(* session's meter (tollgate-core/src/meter.rs).                           *)
(*                                                                         *)
(* The daemon is external.  It carries a peer under the policy set for it, *)
(* or the default; counts what it carries under a policy until that is     *)
(* cleared; and knows nothing after a restart.  Between two requests of    *)
(* one decision it carries on.                                             *)
(***************************************************************************)
EXTENDS Naturals, Sequences, FiniteSetsExt

CONSTANTS
    Payers,
    MIN_FLOW,       \* minimum_flow, the allowance of a peer that has not paid
    Rates,          \* rates a budget is shaped to
    MAX_U64,        \* u64::MAX, and the rate of a peer that is not metered
    WEIGHT,         \* from_payer_weight
    Null,
    Allowances      \* bounds on what happens in a behaviour

Allowance ==
    [payers    : SUBSET Payers,   \* who connects
     decisions : Nat,   \* of core
     units     : Nat,   \* carried
     faults    : Nat,   \* of the kinds in broken:
     broken    : SUBSET {"set", "clear", "show",   \* a request fails,
                         "daemon", "node"}]        \* FIPS or the node is killed

Counters == [to : Nat, from : Nat]
ZERO == [to |-> 0, from |-> 0]

\* What there is of a peer: the node's of it, core's and the daemon's.
Peer    == [access : {"None", "Active", "Free"}, rate : 0 .. MAX_U64, counters : Counters]
Gate    == [access : {"None", "Active", "Free"}, rate : 0 .. MAX_U64]
Session == [gate : Gate, was : Gate, last : Counters, drawn : Nat]
Policy  == [admitted : BOOLEAN, rate : 0 .. MAX_U64 \cup {Null}, moved : Counters]

FipsAssumption ==
    /\ Null \notin Nat /\ Null \notin Peer /\ Null \notin Session /\ Null \notin Policy
    /\ MIN_FLOW \in Nat /\ WEIGHT \in Nat /\ MAX_U64 \in Nat
    /\ Rates \subseteq MIN_FLOW .. MAX_U64 - 1 /\ MIN_FLOW < MAX_U64
    /\ Allowances \subseteq Allowance

VARIABLES
    core,       \* of each session: its gate, the one before, meter and budget drawn
    calls,      \* SetAccess and SetShapingRate still to be executed
    peers,      \* Fips::peers
    fresh,      \* last_refresh is within COUNTER_TTL
    policy,     \* FIPS: the policy set for each peer, and what moved under it
    default,    \* FIPS: the default policy
    carried,    \* what moved under a peer's policy since its session began
    decisions,  \* of core, so far
    spare       \* the behaviour's Allowance, with the faults that are left

vars == <<core, calls, peers, fresh, policy, default, carried, decisions, spare>>

-----------------------------------------------------------------------------
(* meter.rs *)

\* What grew; nothing, if a counter started over.
DeltaSince(now, earlier) ==
    [d \in {"to", "from"} |-> IF now[d] > earlier[d] THEN now[d] - earlier[d] ELSE 0]

Weighted(c) == Min({c.to + c.from * WEIGHT, MAX_U64})

-----------------------------------------------------------------------------
(* what core asks for *)

Carried(access, rate) == access = "Free" \/ rate > 0

\* A gate core may decide on: the level and the rate that goes with it.
Gates ==
    {[access |-> "Free", rate |-> MAX_U64], [access |-> "None", rate |-> MIN_FLOW]}
    \cup [access : {"Active"}, rate : Rates \cup {MIN_FLOW}]
Closed == [access |-> "None", rate |-> MIN_FLOW]

Call(p, what, v) == <<p, what, v>>

\* refresh: an action only for what changed.
Refresh(p, old, g) ==
    (IF old.access # g.access THEN <<Call(p, "access", g.access)>> ELSE <<>>)
    \o (IF old.rate # g.rate THEN <<Call(p, "rate", g.rate)>> ELSE <<>>)

-----------------------------------------------------------------------------
(* the policy of a peer *)

RateForFips(rate) == IF rate = MAX_U64 THEN Null ELSE rate
PolicyOf(access, rate) == [admitted |-> Carried(access, rate), rate |-> RateForFips(rate)]

\* set_transit_policy, at the daemon.
Set(pol, e) ==
    [admitted |-> Carried(e.access, e.rate), rate |-> RateForFips(e.rate),
     moved    |-> IF pol = Null THEN ZERO ELSE pol.moved]

\* Whether a request came through; it may be out of luck where FaultIn says.
Request(kind, ok) ==
    /\ ok \/ (kind \in spare.broken /\ spare.faults > 0)
    /\ spare' = IF ok THEN spare ELSE [spare EXCEPT !.faults = @ - 1]

\* apply: a failure is logged and that is all.
Apply(p, e) ==
    \E ok \in BOOLEAN :
       /\ Request("set", ok)
       /\ policy' = IF ok THEN [policy EXCEPT ![p] = Set(policy[p], e)] ELSE policy

SetAccess(p, access) ==
    LET e == peers[p] IN
    /\ peers' = [peers EXCEPT ![p].access = access]
    /\ IF Carried(e.access, e.rate) = Carried(access, e.rate) THEN UNCHANGED <<policy, spare>>
       ELSE Apply(p, [e EXCEPT !.access = access])

SetShapingRate(p, rate) ==
    LET e == peers[p] IN
    /\ peers' = [peers EXCEPT ![p].rate = rate]
    /\ IF e.rate = rate THEN UNCHANGED <<policy, spare>>
       ELSE Apply(p, [e EXCEPT !.rate = rate])

\* The node executes core's actions one after the other.
Execute ==
    /\ calls # <<>>
    /\ LET c == Head(calls) IN
       \/ c[2] = "access" /\ SetAccess(c[1], c[3])
       \/ c[2] = "rate" /\ SetShapingRate(c[1], c[3])
    /\ calls' = Tail(calls) /\ UNCHANGED <<core, fresh, default, carried, decisions>>

Entry == [access |-> "None", rate |-> 0, counters |-> ZERO]

\* remove, with clear_transit_policy.
Remove(p, ok) ==
    /\ Request("clear", ok)
    /\ policy' = IF ok THEN [policy EXCEPT ![p] = Null] ELSE policy

-----------------------------------------------------------------------------
(* the node *)

Decided == decisions < spare.decisions /\ decisions' = decisions + 1

\* PeerUp: of a new peer, or of one whose old connection has not ended.
PeerUp(p, g) ==
    /\ p \in spare.payers /\ calls = <<>> /\ Decided
    /\ IF peers[p] = Null THEN UNCHANGED <<policy, spare>> ELSE \E ok \in BOOLEAN : Remove(p, ok)
    /\ peers' = [peers EXCEPT ![p] = Entry]
    /\ core' = [core EXCEPT ![p] = [gate |-> g, was |-> Closed, last |-> ZERO, drawn |-> 0]]
    /\ calls' = <<Call(p, "access", "None")>> \o Refresh(p, [access |-> "None", rate |-> Null], g)
    /\ carried' = [carried EXCEPT ![p] = ZERO] /\ UNCHANGED <<fresh, default>>

\* PeerDown, or DropPeer.
PeerDown(p) ==
    /\ calls = <<>> /\ peers[p] # Null
    /\ \E ok \in BOOLEAN : Remove(p, ok)
    /\ peers' = [peers EXCEPT ![p] = Null] /\ core' = [core EXCEPT ![p] = Null]
    /\ carried' = [carried EXCEPT ![p] = ZERO] /\ UNCHANGED <<calls, fresh, default, decisions>>

\* Core changes its mind: a purchase, a budget that ran out, a policy.
Decide(p, g) ==
    /\ calls = <<>> /\ core[p] # Null /\ g # core[p].gate
    /\ Decided
    /\ core' = [core EXCEPT ![p].was = core[p].gate, ![p].gate = g]
    /\ calls' = Refresh(p, core[p].gate, g)
    /\ UNCHANGED <<peers, fresh, policy, default, carried, spare>>

\* refresh_counters: a peer that is not in the answer keeps its reading.
Stale == ~fresh
Taken(reported) ==
    [p \in Payers |-> IF peers[p] # Null /\ p \in reported
                      THEN [peers[p] EXCEPT !.counters = policy[p].moved] ELSE peers[p]]

\* on_metered: the meter observes the reading; a metered peer's budget is drawn.
Observe(s, c) ==
    [s EXCEPT !.last = c,
              !.drawn = IF s.gate.access = "Active" THEN @ + Weighted(DeltaSince(c, s.last)) ELSE @]

\* on_tick for one peer: counters(), after a refresh if the last is too old.
\* The answer may leave a peer out.
Tick(p) ==
    /\ calls = <<>> /\ peers[p] # Null
    /\ IF Stale
       THEN LET named == {q \in Payers : policy[q] # Null} IN
            \E ok \in BOOLEAN, reported \in SUBSET named :
               /\ Request("show", ok /\ reported = named)
               /\ peers' = IF ok THEN Taken(reported) ELSE peers
               /\ fresh' = ok
       ELSE UNCHANGED <<peers, fresh, spare>>
    /\ core' = [core EXCEPT ![p] = Observe(core[p], peers'[p].counters)]
    /\ UNCHANGED <<calls, policy, default, carried, decisions>>

Age ==
    /\ fresh /\ fresh' = FALSE
    /\ UNCHANGED <<core, calls, peers, policy, default, carried, decisions, spare>>

Killed(what) ==
    /\ what \in spare.broken /\ spare.faults > 0
    /\ spare' = [spare EXCEPT !.faults = @ - 1]

\* Fips::new, after the node was killed: FIPS has not noticed.
New ==
    /\ Killed("node")
    /\ core' = [p \in Payers |-> Null] /\ peers' = [p \in Payers |-> Null]
    /\ calls' = <<>> /\ fresh' = FALSE /\ carried' = [p \in Payers |-> ZERO]
    /\ default' = PolicyOf("None", MIN_FLOW) /\ UNCHANGED <<policy, decisions>>

-----------------------------------------------------------------------------
(* FIPS *)

Carry(p, d) ==
    /\ policy[p] # Null /\ policy[p].admitted /\ policy[p].rate # 0
    /\ policy[p].moved[d] < spare.units /\ carried[p][d] < spare.units
    /\ policy' = [policy EXCEPT ![p].moved[d] = @ + 1]
    /\ carried' = [carried EXCEPT ![p][d] = @ + 1]
    /\ UNCHANGED <<core, calls, peers, fresh, default, decisions, spare>>

\* The daemon is started again.
Reboot ==
    /\ Killed("daemon")
    /\ policy' = [p \in Payers |-> Null] /\ default' = Null
    /\ UNCHANGED <<core, calls, peers, fresh, carried, decisions>>

-----------------------------------------------------------------------------

Init ==
    /\ core = [p \in Payers |-> Null] /\ peers = [p \in Payers |-> Null]
    /\ policy = [p \in Payers |-> Null] /\ default = PolicyOf("None", MIN_FLOW)
    /\ calls = <<>> /\ fresh = FALSE /\ carried = [p \in Payers |-> ZERO]
    /\ decisions = 0 /\ spare \in Allowances

Next ==
    \/ Execute \/ Age \/ New \/ Reboot
    \/ \E p \in Payers :
          \/ \E g \in Gates : PeerUp(p, g) \/ Decide(p, g)
          \/ PeerDown(p) \/ Tick(p)
          \/ \E d \in {"to", "from"} : Carry(p, d)

Spec == Init /\ [][Next]_vars

-----------------------------------------------------------------------------
(* properties *)

TypeOK ==
    /\ \A p \in Payers :
          /\ peers[p] # Null => /\ peers[p].access \in {"None", "Active", "Free"}
                               /\ peers[p].rate \in 0 .. MAX_U64 /\ peers[p].counters \in Counters
          /\ (core[p] = Null) = (peers[p] = Null)
          /\ core[p] # Null => core[p].gate \in Gates /\ core[p].last \in Counters /\ core[p].drawn \in Nat
          /\ policy[p] # Null => policy[p].admitted \in BOOLEAN /\ policy[p].moved \in Counters
    /\ \A i \in DOMAIN calls : peers[calls[i][1]] # Null
    /\ fresh \in BOOLEAN

\* What FIPS does for a peer: its own policy or the default.
InEffect(p) ==
    IF policy[p] = Null THEN default
    ELSE [admitted |-> policy[p].admitted, rate |-> policy[p].rate]
Wanted(p) ==
    IF core[p] = Null THEN PolicyOf("None", MIN_FLOW)
    ELSE PolicyOf(core[p].gate.access, core[p].gate.rate)
Pace(pol) ==
    IF ~pol.admitted THEN 0 ELSE IF pol.rate = Null THEN MAX_U64 ELSE pol.rate

\* Nothing has happened that leaves FIPS with something else than it was told.
Undisturbed == spare.broken \subseteq {"show"}

\* Once the node has said all it had to say, FIPS does for every peer, named
\* or not, connected or gone, what core decided for it (apply, remove and the
\* requests set_access and set_shaping_rate leave out).
InForce == (Undisturbed /\ calls = <<>>) => \A p \in Payers : InEffect(p) = Wanted(p)

\* There is never a moment where a peer is admitted at a rate it has not
\* bought: between the two requests of a decision FIPS does no more for a peer
\* than before it or after it.
NeverMore ==
    \A p \in Payers : Undisturbed /\ core[p] # Null =>
       Pace(InEffect(p)) <= Max({Pace(Wanted(p)), Pace(PolicyOf(core[p].was.access, core[p].was.rate))})

\* A session's budget is drawn for no more than was carried for it, whatever
\* FIPS' counters start over from, and however old a reading is
\* (Meter::observe); a node that was killed, or whose clear came to nothing,
\* finds the counts of the sessions before.
ChargedOnce ==
    \A p \in Payers : (core[p] # Null /\ {"node", "clear"} \cap spare.broken = {}) =>
       core[p].drawn <= carried[p].to + carried[p].from * WEIGHT
=============================================================================
