------------------------------- MODULE Account -------------------------------
(***************************************************************************)
(* What a payer and a provider promise each other, with no channel, link   *)
(* or clock in it: the payer signs for units, the provider credits no more *)
(* than was signed for, and what is left to use grows only by a credit, or *)
(* goes back to what was last saved.  Module Peering is shown to implement *)
(* it.                                                                     *)
(***************************************************************************)
EXTENDS Naturals

VARIABLES
    signed,     \* units the payer has signed for, ever
    credited,   \* units the provider has granted for them, ever
    left,       \* units of those it still holds for the payer
    saved       \* units it would hold if it died now

vars == <<signed, credited, left, saved>>

Init == signed = 0 /\ credited = 0 /\ left = 0 /\ saved = 0

\* The payer signs for more.
Sign ==
    /\ signed' \in Nat /\ signed' > signed
    /\ UNCHANGED <<credited, left, saved>>

\* What is left is saved, or what was saved stays or is forfeit.
Saves == saved' \in (0 .. saved) \cup {left'}

\* The provider grants some of what was signed for, all of which can be used.
Credit ==
    /\ credited' \in Nat /\ credited' > credited
    /\ credited' <= signed
    /\ left' \in 0 .. (left + (credited' - credited))
    /\ Saves
    /\ UNCHANGED signed

\* Units are used, or forfeit at the deadline.
Use ==
    /\ left' \in 0 .. left
    /\ Saves
    /\ UNCHANGED <<signed, credited>>

\* A provider that lost its session finds the budget it last saved.
Recover ==
    /\ left' \in 0 .. saved
    /\ saved' \in 0 .. saved
    /\ UNCHANGED <<signed, credited>>

Next == Sign \/ Credit \/ Use \/ Recover

Spec == Init /\ [][Next]_vars
=============================================================================
