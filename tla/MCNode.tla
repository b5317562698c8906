------------------------------- MODULE MCNode --------------------------------
(***************************************************************************)
(* The parts of a node that work beside its sessions, each on its own:     *)
(* the event loop and the budget store (Host), settlements (Settler), the  *)
(* fundings the buyer asks for (Funding) and the keepalive (KeepAlive).    *)
(* Which part a behaviour is of is chosen at its start; the variables of   *)
(* the others are Off.                                                     *)
(***************************************************************************)
EXTENDS Host, TLC

CONSTANTS
    Channels, Tasks, Deadlines, MAX, DOUBLINGS, U32_MAX, GRACE, OVER,       \* Settler
    MAX_REQUESTS, FUNDING_TIMEOUT, MAX_OUTAGES,                             \* Funding
    INITIAL, SETTLED_BY, FUNDED_BY,                     \* both, and where their clocks stop
    STALE_TIMEOUT, DEFAULT_TIMEOUT, OWN_TIMEOUT, PERIOD, LATENCY,           \* KeepAlive
    MAX_LOST, MAX_REVISIONS, CHATTY

VARIABLES
    part,
    settler_now, closing, phase, drainBy, inFlight, settlements,
    funding_now, open, asked, requests, failures, pending, unused, sells, outages, called,
    quiet, ticked, terms, flight, lost, unheard, heard, dropped, alive

settlerVars == <<settler_now, closing, phase, drainBy, inFlight, settlements>>
fundingVars == <<funding_now, open, asked, requests, failures, pending, unused, sells,
                 outages, called>>
keepVars    == <<quiet, ticked, terms, flight, lost, unheard, heard, dropped, alive>>

Settling ==
    INSTANCE Settler WITH
        now <- settler_now, tasks <- settlements, MAX_NOW <- SETTLED_BY

Opening ==
    INSTANCE Funding WITH
        now <- funding_now, tasks <- requests, selling <- sells, MAX_NOW <- FUNDED_BY

Keeping == INSTANCE KeepAlive

ASSUME PartsAssumption ==
    Settling!SettlerAssumption /\ Opening!FundingAssumption /\ Keeping!KeepAliveAssumption

-----------------------------------------------------------------------------
(* A budget bought, kept and found again across a crash; fundings held      *)
(* through an outage.                                                       *)
Nothing == [units |-> 0, time |-> 0, fundings |-> 0, outages |-> 0, crashes |-> 0]
MCAllowances ==
    {[Nothing EXCEPT !.units = 2, !.time = 2, !.crashes = 1],
     [Nothing EXCEPT !.fundings = 2, !.outages = 1]}

Off == "off"
HostOff ==
    /\ conns = Off /\ link = Off /\ gated = Off /\ selling = Off /\ fundings = Off
    /\ session = Off /\ parked = Off /\ budget_key = Off /\ records = Off /\ file = Off
    /\ dirty = Off /\ unix = Off /\ started = Off /\ due = Off /\ spare = Off
SettlerOff ==
    /\ settler_now = Off /\ closing = Off /\ phase = Off /\ drainBy = Off
    /\ inFlight = Off /\ settlements = Off
FundingOff ==
    /\ funding_now = Off /\ open = Off /\ asked = Off /\ requests = Off /\ failures = Off
    /\ pending = Off /\ unused = Off /\ sells = Off /\ outages = Off /\ called = Off
KeepOff ==
    /\ quiet = Off /\ ticked = Off /\ terms = Off /\ flight = Off /\ lost = Off
    /\ unheard = Off /\ heard = Off /\ dropped = Off /\ alive = Off

MCInit ==
    \/ /\ part = "host" /\ SettlerOff /\ FundingOff /\ KeepOff
       /\ Init /\ conns[1].addr = CHOOSE a \in Addrs : TRUE     \* the addresses are alike
    \/ part = "settler" /\ HostOff /\ FundingOff /\ KeepOff /\ Settling!Init
    \/ part = "funding" /\ HostOff /\ SettlerOff /\ KeepOff /\ Opening!Init
    \/ part = "keepalive" /\ HostOff /\ SettlerOff /\ FundingOff /\ Keeping!Init

HostNext    == part = "host" /\ Next /\ UNCHANGED <<part, settlerVars, fundingVars, keepVars>>
SettlerNext == part = "settler" /\ Settling!Next /\ UNCHANGED <<part, vars, fundingVars, keepVars>>
FundingNext == part = "funding" /\ Opening!Next /\ UNCHANGED <<part, vars, settlerVars, keepVars>>
KeepNext    == part = "keepalive" /\ Keeping!Next
               /\ UNCHANGED <<part, vars, settlerVars, fundingVars>>
MCNext == HostNext \/ SettlerNext \/ FundingNext \/ KeepNext

\* The node ticks and an enforcer that stops selling sells again; the runtime
\* runs the settler's timers and the clock, and every attempt to settle ends.
MCFairness ==
    /\ WF_vars(part = "host" /\ Tick(0)) /\ WF_vars(part = "host" /\ Recovery)
    /\ WF_settlerVars(part = "settler" /\ Settling!Tick)
    /\ WF_settlerVars(part = "settler" /\ Settling!Drain)
    /\ WF_settlerVars(part = "settler" /\ Settling!DrainDone)
    /\ WF_settlerVars(part = "settler" /\ Settling!DrainTimeout)
    /\ \A t \in Tasks :
          /\ WF_settlerVars(part = "settler" /\ Settling!SleepOver(t))
          /\ WF_settlerVars(part = "settler" /\ Settling!Woken(t))
          /\ WF_settlerVars(part = "settler" /\ Settling!Returns(t))

MCSpec ==
    MCInit /\ [][MCNext]_<<part, vars, settlerVars, fundingVars, keepVars>> /\ MCFairness

-----------------------------------------------------------------------------
(* The properties of each part. *)

\* The host agrees with core, whatever connection comes, ends or is replaced,
\* and over crashes and failed writes (on_wire and on_tick of node.rs, get and
\* put of budgets.rs).
HostSound == part = "host" => AgreesWithCore

IsHeld(f) == part = "host" /\ fundings[f].at = "held"

\* A funding held back is verified, or let go, once the enforcer sells again
\* (release_deferred).
HeldEnds == \A f \in Fundings : IsHeld(f) ~> ~IsHeld(f)

\* A channel is claimed exactly while one task settles it (settle and InFlight
\* of settle.rs).
SettledByOne == part = "settler" => Settling!TypeOK /\ Settling!ClaimedByOne

\* No retry is too early or too late: what a shutdown abandons was being tried
\* when it did, not waiting to be (begin_shutdown and drain); none starts past
\* the deadline in force (Backoff::next); and a mint that is down is not asked
\* for a funding again at once (FUNDING_BACKOFF).
RetriesInTime ==
    /\ Settling!AbandonedInAttempt
    /\ [][part = "settler" => Settling!StartsInTime]_settlerVars
    /\ [][part = "funding" => Opening!AskedAfterWait]_fundingVars

HasDeadline(t) ==
    part = "settler" /\ settlements[t] # None /\ settlements[t].deadline # None

\* A settlement with a deadline does not go on for ever: it is settled, given
\* up or abandoned (Backoff::next returns None at the deadline).
SettlementEnds == \A t \in Tasks : HasDeadline(t) ~> ~HasDeadline(t)

\* Core never waits on a funding request the host has answered, in whatever
\* order requests time out, fail and are answered (funding_failed, answers).
WaitsForAnswer == part = "funding" => Opening!TypeOK /\ Opening!WaitsForAnswer

\* A node that is there is never taken for gone: its keepalives come in time,
\* one of them lost (keepalive_interval_ms, keep_alive and Tick's stale check).
NeverTakenForGone == part = "keepalive" => Keeping!NeverTakenForGone
=============================================================================
