------------------------------- MODULE Funding -------------------------------
(***************************************************************************)
(* Funding a channel against a mint that may be down or hang, between core *)
(* and the host (Action::FundChannel in tollgate-net/src/node.rs): core    *)
(* asks on a tick and waits for the answer up to a timeout; the host makes *)
(* the call on a blocking thread, and holds a failure back for as long as  *)
(* the failures in a row call for before core hears of it.                 *)
(***************************************************************************)
EXTENDS Naturals

CONSTANTS
    MAX_REQUESTS,       \* bound: where core's counter of requests ends
    None,
    INITIAL,            \* FUNDING_BACKOFF.initial
    FUNDING_TIMEOUT,    \* FUNDING_TIMEOUT_MS, and FUNDING_BACKOFF.max
    MAX_NOW,            \* bound: when the clock stops
    MAX_OUTAGES         \* bound: times the enforcer stops selling

\* What the constants are to be.
FundingAssumption ==
    /\ MAX_REQUESTS \in Nat
    /\ INITIAL \in Nat \ {0} /\ FUNDING_TIMEOUT \in Nat /\ INITIAL <= FUNDING_TIMEOUT
    /\ \A n \in 0 .. MAX_REQUESTS : 2 ^ n \in Nat \ {0}
    /\ MAX_NOW \in Nat /\ MAX_OUTAGES \in Nat /\ None \notin Nat

Requests == 1 .. MAX_REQUESTS

VARIABLES
    now,
    open,       \* Buyer.funding: the earliest and the latest request open
    asked,      \* requests made
    tasks,      \* what the host does about each
    failures,   \* funding_failures
    pending,    \* the request whose channel core took, or None
    unused,     \* requests whose channels came back too late, for reclaiming
    selling,    \* Enforcer::selling
    outages,
    called      \* when the mint was last called, or None

vars == <<now, open, asked, tasks, failures, pending, unused, selling, outages, called>>

Task == [at : {"none", "calling", "sleeping", "failed", "funded", "over"},
         until : 0 .. (MAX_NOW + FUNDING_TIMEOUT)]

TypeOK ==
    /\ now \in 0 .. MAX_NOW
    /\ open \in [first : Requests, latest : Requests, since : Nat \cup {None}] \cup {None}
    /\ asked \in Requests \cup {0}
    /\ tasks \in [Requests -> Task]
    /\ failures \in Nat
    /\ pending \in Requests \cup {None} /\ unused \subseteq Requests
    /\ selling \in BOOLEAN /\ outages \in 0 .. MAX_OUTAGES
    /\ called \in 0 .. MAX_NOW \cup {None}

At(r, where) == [tasks EXCEPT ![r] = [at |-> where, until |-> 0]]

\* Backoff::delay.
Delay(n) ==
    LET d == INITIAL * 2 ^ (n - 1) IN IF d < FUNDING_TIMEOUT THEN d ELSE FUNDING_TIMEOUT

Init ==
    /\ now = 0 /\ open = None /\ asked = 0 /\ failures = 0 /\ pending = None /\ unused = {}
    /\ tasks = [r \in Requests |-> [at |-> "none", until |-> 0]]
    /\ selling = TRUE /\ outages = 0 /\ called = None

-----------------------------------------------------------------------------
(* Core. *)

InFlight ==
    /\ open # None /\ open.since # None
    /\ now - open.since < FUNDING_TIMEOUT

\* A tick finds a channel wanted and none on its way.  Nothing is asked of the
\* mint while the enforcer does not sell, and core is not told.
Ask ==
    LET r == asked + 1 IN
    /\ pending = None /\ ~InFlight
    /\ r \in Requests
    /\ asked' = r
    /\ open' = [first |-> IF open = None THEN r ELSE open.first, latest |-> r, since |-> now]
    /\ IF selling THEN tasks' = At(r, "calling") /\ called' = now
       ELSE tasks' = At(r, "over") /\ UNCHANGED called
    /\ UNCHANGED <<now, failures, pending, unused, selling, outages>>

\* OutgoingChannelFunded: the first to come back for any open request is taken,
\* and any other is handed back.
Answers(r) == pending = None /\ open # None /\ r \in open.first .. open.latest

HearFunded(r) ==
    /\ tasks[r].at = "funded"
    /\ tasks' = At(r, "over")
    /\ IF Answers(r) THEN pending' = r /\ open' = None /\ UNCHANGED unused
       ELSE unused' = unused \cup {r} /\ UNCHANGED <<pending, open>>
    /\ UNCHANGED <<now, asked, failures, selling, outages, called>>

\* Mutant: the first open request is taken for the latest.
NotLatest(r) == open # None /\ open.first = r

\* OutgoingFundingFailed: the latest request is no longer waited on.
IsLatest(r)  == open # None /\ open.latest = r
HearFailed(r) ==
    /\ tasks[r].at = "failed"
    /\ tasks' = At(r, "over")
    /\ open' = IF IsLatest(r) THEN [open EXCEPT !.since = None] ELSE open
    /\ UNCHANGED <<now, asked, failures, pending, unused, selling, outages, called>>

\* The peer confirms the channel and the payer fills it: another is wanted.
Filled ==
    /\ pending # None
    /\ pending' = None
    /\ UNCHANGED <<now, open, asked, tasks, failures, unused, selling, outages, called>>

-----------------------------------------------------------------------------
(* The host's tasks. *)

CallWorks(r) ==
    /\ tasks[r].at = "calling"
    /\ tasks' = At(r, "funded")
    /\ failures' = 0
    /\ UNCHANGED <<now, open, asked, pending, unused, selling, outages, called>>

\* A failure is counted, and held back before core hears of it.
Wait(r)   == tasks' = [tasks EXCEPT ![r] = [at |-> "sleeping", until |-> now + Delay(failures')]]
CallFails(r) ==
    /\ tasks[r].at = "calling"
    /\ failures' = failures + 1
    /\ Wait(r)
    /\ UNCHANGED <<now, open, asked, pending, unused, selling, outages, called>>

SleepOver(r) ==
    /\ tasks[r].at = "sleeping" /\ now >= tasks[r].until
    /\ tasks' = At(r, "failed")
    /\ UNCHANGED <<now, open, asked, failures, pending, unused, selling, outages, called>>

Flip ==
    /\ outages < MAX_OUTAGES \/ ~selling
    /\ selling' = ~selling
    /\ outages' = IF selling THEN outages + 1 ELSE outages
    /\ UNCHANGED <<now, open, asked, tasks, failures, pending, unused, called>>

Pass ==
    /\ now < MAX_NOW
    /\ \A r \in Requests : tasks[r].at = "sleeping" => now < tasks[r].until
    /\ now' = now + 1
    /\ UNCHANGED <<open, asked, tasks, failures, pending, unused, selling, outages, called>>

Next ==
    \/ Ask \/ Filled \/ Flip \/ Pass
    \/ \E r \in Requests : HearFunded(r) \/ HearFailed(r) \/ CallWorks(r) \/ CallFails(r)
                           \/ SleepOver(r)

Spec == Init /\ [][Next]_vars

-----------------------------------------------------------------------------
(* Properties. *)

\* A mint that is down is not asked again at once: a channel still wanted is
\* asked for again no sooner after the last call than the first wait, though
\* requests time out and fail late and in any order (FUNDING_BACKOFF).
AskedAfterWait ==
    asked' # asked /\ open # None /\ called # None => now - called >= INITIAL
NotHammered == [][AskedAfterWait]_vars

\* While core waits for an answer, the host is at work on the request or has
\* kept quiet because nothing is sold: core never waits on a request the host
\* has answered (funding_failed).
WaitsForAnswer ==
    InFlight => \/ tasks[open.latest].at \in {"calling", "sleeping", "failed", "funded"}
                \/ outages > 0
=============================================================================
