------------------------------- MODULE Settler -------------------------------
(***************************************************************************)
(* Settling channels until it sticks (tollgate-net/src/settle.rs): one     *)
(* task a channel, attempting, backing off and attempting again until the  *)
(* backend settles the channel or says that no retry can help, or until a  *)
(* deadline: the channel's expiry, or the node's shutdown.                 *)
(*                                                                         *)
(* An attempt is a call to a mint on a blocking thread: it takes any time, *)
(* or for ever.  A timer fires when it is due: time does not pass while    *)
(* one that is due, or a wakeup, has not been taken, nor while a shutdown  *)
(* asks for its own settlements.                                           *)
(***************************************************************************)
EXTENDS Naturals, FiniteSets

CONSTANTS
    Channels,       \* channels the node is asked to settle
    Tasks,          \* slots of the task set
    None,
    INITIAL, MAX,   \* Backoff
    DOUBLINGS,      \* 31, past which delay stops doubling
    U32_MAX,        \* what the count of failures saturates at
    GRACE,          \* SHUTDOWN_SETTLE_GRACE
    OVER,           \* what drain allows beyond it
    Deadlines,      \* deadlines a settlement is asked for with, None included
    MAX_NOW         \* bound: when the clock stops

VARIABLES
    now,
    closing,    \* the deadline shutdown sets, or None
    phase,      \* "running", "closing", "draining" or "stopped"
    drainBy,    \* when drain stops waiting
    inFlight,   \* channels with a settlement running
    tasks       \* the tasks alive

vars == <<now, closing, phase, drainBy, inFlight, tasks>>

\* A Job: what it was asked for, where run stands, and whether it has seen the
\* last change of closing.
Job ==
    [channel : Channels, deadline : Deadlines, failures : 0 .. U32_MAX,
     at : {"trying", "waiting"}, until : 0 .. (MAX_NOW + MAX), seen : BOOLEAN]

\* What the constants are to be.
SettlerAssumption ==
    /\ INITIAL \in Nat \ {0} /\ MAX \in Nat /\ INITIAL <= MAX
    /\ DOUBLINGS \in Nat /\ U32_MAX \in Nat /\ DOUBLINGS < U32_MAX
    /\ \A n \in 0 .. DOUBLINGS : 2 ^ n \in Nat
    /\ GRACE \in Nat \ {0} /\ OVER \in Nat \ {0} /\ MAX_NOW \in Nat
    /\ Deadlines \subseteq (0 .. MAX_NOW) \cup {None}
    /\ None \notin Nat /\ None \notin Job

TypeOK ==
    /\ now \in 0 .. MAX_NOW
    /\ closing \in Nat \cup {None}
    /\ phase \in {"running", "closing", "draining", "stopped"}
    /\ drainBy \in Nat \cup {None}
    /\ inFlight \subseteq Channels
    /\ tasks \in [Tasks -> Job \cup {None}]

Alive     == {t \in Tasks : tasks[t] # None}
Waiting   == {t \in Alive : tasks[t].at = "waiting"}
Trying    == Alive \ Waiting

-----------------------------------------------------------------------------
(* When to try again. *)

Lesser(a, b) == IF a <= b THEN a ELSE b

Delay(failures) ==
    LET doublings == Lesser(IF failures = 0 THEN 0 ELSE failures - 1, DOUBLINGS)
    IN  Lesser(INITIAL * 2 ^ doublings, MAX)

\* Mutant: one more try at the deadline itself.
NextOnce(failures, deadline) ==
    IF deadline # None /\ now > deadline THEN None
    ELSE IF deadline = None THEN Delay(failures)
    ELSE Lesser(Delay(failures), deadline - now)

\* The wait after so many failures, or None to give up.
NextDelay(failures, deadline) ==
    IF deadline = None THEN Delay(failures)
    ELSE IF now >= deadline THEN None
    ELSE Lesser(Delay(failures), deadline - now)

Earliest(a, b) ==
    IF a = None THEN b ELSE IF b = None THEN a ELSE Lesser(a, b)

DeadlineOf(j) == Earliest(j.deadline, closing)

-----------------------------------------------------------------------------
(* The node's calls. *)

Init ==
    /\ now = 0 /\ closing = None /\ phase = "running" /\ drainBy = None
    /\ inFlight = {} /\ tasks = [t \in Tasks |-> None]

\* InFlight::claim: a channel already being settled is left to its task.
Claim(c) == c \notin inFlight /\ inFlight' = inFlight \cup {c}

Settle(c, deadline) ==
    /\ phase \in {"running", "closing"}
    /\ Claim(c)
    /\ \E t \in Tasks \ Alive :
          tasks' = [tasks EXCEPT ![t] =
             [channel |-> c, deadline |-> deadline, failures |-> 0,
              at |-> "trying", until |-> 0, seen |-> TRUE]]
    /\ UNCHANGED <<now, closing, phase, drainBy>>

\* A request for a channel in flight does nothing.
SettleAgain(c) ==
    /\ phase \in {"running", "closing"}
    /\ c \in inFlight
    /\ UNCHANGED vars

BeginShutdown ==
    /\ phase = "running"
    /\ now + GRACE + OVER <= MAX_NOW
    /\ closing' = now + GRACE
    /\ phase' = "closing"
    /\ tasks' = [t \in Tasks |->
                    IF t \in Alive THEN [tasks[t] EXCEPT !.seen = FALSE] ELSE None]
    /\ UNCHANGED <<now, drainBy, inFlight>>

Drain ==
    /\ phase = "closing"
    /\ phase' = "draining"
    /\ drainBy' = now + GRACE + OVER
    /\ UNCHANGED <<now, closing, inFlight, tasks>>

DrainDone ==
    /\ phase = "draining"
    /\ Alive = {}
    /\ phase' = "stopped"
    /\ UNCHANGED <<now, closing, drainBy, inFlight, tasks>>

\* What is still running is abandoned, its claim with it.
DrainTimeout ==
    /\ phase = "draining"
    /\ now >= drainBy
    /\ phase' = "stopped"
    /\ tasks' = [t \in Tasks |-> None]
    /\ inFlight' = {}
    /\ UNCHANGED <<now, closing, drainBy>>

-----------------------------------------------------------------------------
(* Job::run. *)

\* Mutant: the claim outlives its task.
EndKeepsClaim(t) ==
    /\ tasks' = [tasks EXCEPT ![t] = None]
    /\ UNCHANGED <<now, closing, phase, drainBy, inFlight>>

\* The task returns, and InFlight's drop gives its claim up.
End(t) ==
    /\ tasks' = [tasks EXCEPT ![t] = None]
    /\ inFlight' = inFlight \ {tasks[t].channel}
    /\ UNCHANGED <<now, closing, phase, drainBy>>

\* The backend settled the channel, or said CannotSettle.
Settled(t)      == t \in Trying /\ End(t)
CannotSettle(t) == t \in Trying /\ End(t)

Failed(j)     == Lesser(j.failures + 1, U32_MAX)

\* A failure that may pass: out of time, or wait.
GiveUp(t) ==
    /\ t \in Trying
    /\ NextDelay(Failed(tasks[t]), DeadlineOf(tasks[t])) = None
    /\ End(t)

Back(t) ==
    /\ t \in Trying
    /\ LET failures == Failed(tasks[t])
           delay    == NextDelay(failures, DeadlineOf(tasks[t]))
       IN  /\ delay # None
           /\ tasks' = [tasks EXCEPT
                 ![t].failures = failures, ![t].at = "waiting", ![t].until = now + delay]
    /\ UNCHANGED <<now, closing, phase, drainBy, inFlight>>

Retry(t, seen) ==
    /\ tasks' = [tasks EXCEPT ![t].at = "trying", ![t].until = 0, ![t].seen = seen]
    /\ UNCHANGED <<now, closing, phase, drainBy, inFlight>>

\* The select: the sleep is over, or closing has changed since it was last seen.
SleepOver(t) ==
    /\ t \in Waiting
    /\ now >= tasks[t].until
    /\ Retry(t, tasks[t].seen)

\* Mutant: a waiting task does not hear of the shutdown.
Unheard(t) == FALSE

Changed(t) == t \in Waiting /\ ~tasks[t].seen

Woken(t) == Changed(t) /\ Retry(t, TRUE)

Tick ==
    /\ now < MAX_NOW /\ phase \in {"running", "draining"}
    /\ \A t \in Waiting : now < tasks[t].until /\ ~Changed(t)
    /\ phase = "draining" => now < drainBy
    /\ now' = now + 1
    /\ UNCHANGED <<closing, phase, drainBy, inFlight, tasks>>

Returns(t) == Settled(t) \/ CannotSettle(t) \/ GiveUp(t) \/ Back(t)

Next ==
    \/ \E c \in Channels, d \in Deadlines : Settle(c, d)
    \/ \E c \in Channels : SettleAgain(c)
    \/ BeginShutdown \/ Drain \/ DrainDone \/ DrainTimeout
    \/ \E t \in Tasks : Returns(t) \/ SleepOver(t) \/ Woken(t)
    \/ Tick

Spec == Init /\ [][Next]_vars

\* The runtime runs the timers, the clock and wind_down; an attempt may hang.
FairSpec ==
    /\ Spec
    /\ WF_vars(Tick) /\ WF_vars(Drain) /\ WF_vars(DrainDone) /\ WF_vars(DrainTimeout)
    /\ \A t \in Tasks : WF_vars(SleepOver(t)) /\ WF_vars(Woken(t))

-----------------------------------------------------------------------------
(* Properties. *)

\* A channel is claimed exactly while one task settles it: two tasks never race
\* to settle it (claim), and no way a task can end leaves a claim that would
\* have every later request for the channel ignored (InFlight's drop).
ClaimedByOne ==
    /\ \A t, u \in Alive : tasks[t].channel = tasks[u].channel => t = u
    /\ inFlight = {tasks[t].channel : t \in Alive}

\* No retry starts past the deadline in force when it starts, though shutdown
\* may have moved it in while the task was waiting: past it the funder can
\* take the money back (Backoff::next, run).
StartsInTime ==
    \A t \in Waiting :
       tasks'[t] # None /\ tasks'[t].at = "trying" =>
          LET d == DeadlineOf(tasks[t]) IN d = None \/ now <= d
RetryInTime == [][StartsInTime]_vars

\* What a shutdown abandons was being tried when it did: no channel is lost
\* while its task sleeps through a backoff, however long it had become
\* (begin_shutdown wakes it, drain waits longer than any wait is clipped to).
AbandonedInAttempt ==
    [][phase = "draining" /\ phase' = "stopped" => Waiting = {}]_vars
=============================================================================
