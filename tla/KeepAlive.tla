------------------------------ MODULE KeepAlive ------------------------------
(***************************************************************************)
(* Keeping a quiet link alive (tollgate-core/src/session/core.rs): a node  *)
(* sends its Offer again to a peer it has sent nothing for a third of the  *)
(* stale timeout, and the peer drops a node it has heard nothing from for  *)
(* all of it.  One direction of one live link.                             *)
(*                                                                         *)
(* Times are ages, in units of the smallest delay told apart.  A message   *)
(* takes at most LATENCY, or is lost by a full outbox, at most MAX_LOST in *)
(* a row; last_sent is set either way.                                     *)
(***************************************************************************)
EXTENDS Naturals, Sequences

CONSTANTS
    STALE_TIMEOUT,      \* of the peer, assumed to be ours
    DEFAULT_TIMEOUT,    \* DEFAULT_STALE_TIMEOUT_MS
    OWN_TIMEOUT,        \* ours as configured, 0 for none
    PERIOD,             \* most between two ticks
    LATENCY,            \* most a message takes
    MAX_LOST,           \* bound: messages lost in a row
    MAX_REVISIONS,      \* bound: revisions of the terms
    CHATTY              \* whether anything else is ever sent

\* What the constants are to be.
KeepAliveAssumption ==
    /\ STALE_TIMEOUT \in Nat \ {0} /\ DEFAULT_TIMEOUT \in Nat \ {0} /\ OWN_TIMEOUT \in Nat
    /\ PERIOD \in Nat \ {0} /\ LATENCY \in Nat
    /\ MAX_LOST \in Nat /\ MAX_REVISIONS \in Nat /\ CHATTY \in BOOLEAN

VARIABLES
    quiet,      \* since last_sent
    ticked,     \* since the last tick
    terms,      \* offer_sent: the revision of the Offer last sent
    flight,     \* messages on their way: their age, and the terms of an Offer
    lost,       \* messages lost in a row
    unheard,    \* at the peer, since last_seen
    heard,      \* at the peer, the terms it was last sent
    dropped,    \* whether the peer took the node for gone
    alive       \* whether the node is there

vars == <<quiet, ticked, terms, flight, lost, unheard, heard, dropped, alive>>

NoTerms == MAX_REVISIONS + 1

\* Mutant: a keepalive each stale timeout.
WholeTimeout == STALE_TIMEOUT

\* keepalive_interval_ms.
Interval ==
    LET timeout == IF OWN_TIMEOUT = 0 THEN DEFAULT_TIMEOUT ELSE OWN_TIMEOUT
    IN  IF timeout \div 3 > 1 THEN timeout \div 3 ELSE 1

Init ==
    /\ quiet = 0 /\ ticked = 0 /\ terms = 0 /\ flight = << >> /\ lost = 0
    /\ unheard = 0 /\ heard = 0 /\ dropped = FALSE /\ alive = TRUE

\* A message goes out, or is lost; note_sent counts it either way.
Send(offer) ==
    /\ quiet' = 0
    /\ \/ flight' = Append(flight, [age |-> 0, terms |-> offer]) /\ lost' = 0
       \/ lost < MAX_LOST /\ lost' = lost + 1 /\ UNCHANGED flight

\* The Offer a keepalive repeats.
OfferSent  == terms

\* keep_alive, at the end of a tick.
Tick ==
    /\ alive /\ ~dropped
    /\ ticked > 0 /\ ticked' = 0
    /\ IF quiet >= Interval THEN Send(OfferSent) ELSE UNCHANGED <<quiet, flight, lost>>
    /\ UNCHANGED <<terms, unheard, heard, dropped, alive>>

\* Any other message: a TopUp, a Balance.
Say ==
    /\ CHATTY /\ alive /\ ~dropped /\ Len(flight) < 2 /\ quiet > 0
    /\ Send(NoTerms)
    /\ UNCHANGED <<ticked, terms, unheard, heard, dropped, alive>>

\* set_peer_policy: the revised Offer is sent at once and remembered.
Revise ==
    /\ alive /\ ~dropped /\ terms < MAX_REVISIONS
    /\ terms' = terms + 1
    /\ Send(terms + 1)
    /\ UNCHANGED <<ticked, unheard, heard, dropped, alive>>

\* The peer hears: last_seen, and the terms if it is an Offer.
Hear ==
    /\ ~dropped /\ flight # << >>
    /\ unheard' = 0
    /\ heard' = IF Head(flight).terms = NoTerms THEN heard ELSE Head(flight).terms
    /\ flight' = Tail(flight)
    /\ UNCHANGED <<quiet, ticked, terms, lost, dropped, alive>>

\* The peer's tick finds the node silent for too long.
TooLong(age) == age > STALE_TIMEOUT
Stale ==
    /\ ~dropped /\ TooLong(unheard)
    /\ dropped' = TRUE
    /\ UNCHANGED <<quiet, ticked, terms, flight, lost, unheard, heard, alive>>

Pass ==
    /\ ~dropped /\ (alive => ticked < PERIOD)
    /\ \A i \in DOMAIN flight : flight[i].age < LATENCY
    /\ quiet' = IF quiet < Interval THEN quiet + 1 ELSE quiet
    /\ ticked' = IF alive THEN ticked + 1 ELSE 0
    /\ flight' = [i \in DOMAIN flight |-> [flight[i] EXCEPT !.age = @ + 1]]
    /\ unheard' = IF unheard > STALE_TIMEOUT THEN unheard ELSE unheard + 1
    /\ UNCHANGED <<terms, lost, heard, dropped, alive>>

\* The node goes without a word.
Die ==
    /\ alive /\ ~dropped /\ alive' = FALSE /\ ticked' = 0
    /\ UNCHANGED <<quiet, terms, flight, lost, unheard, heard, dropped>>

Next == Tick \/ Say \/ Revise \/ Hear \/ Stale \/ Die \/ Pass

Spec == Init /\ [][Next]_vars

-----------------------------------------------------------------------------
(* Properties. *)

\* A node that is there is never taken for gone, though messages are lost and
\* it has nothing to say ("so two can be lost before the peer gives up on us",
\* keepalive_interval_ms).
NeverTakenForGone == alive => ~dropped
=============================================================================
