----------------------------- MODULE MCAdmission -----------------------------
(***************************************************************************)
(* Two payers with a channel each compete for a capacity that cannot hold  *)
(* both of their reservations; or there is one of them, and the operator   *)
(* changes its policy at any moment.  Connections are replaced while they  *)
(* end, and integers are so narrow that budgets saturate.                  *)
(***************************************************************************)
EXTENDS Provider, TLC

CONSTANTS p1, p2, c1, c2

MCOwner     == c1 :> p1 @@ c2 :> p2
MCCapacity  == c1 :> 2 @@ c2 :> 2
MCExpiresAt == c1 :> None @@ c2 :> None

U(c, n) == [channel |-> c, cumulative |-> n]
MCPurchases == {<<U(c, 1)>> : c \in {c1, c2}}

\* Exchanging the payers together with their channels.
MCSymmetry == {p1 :> p2 @@ p2 :> p1 @@ c1 :> c2 @@ c2 :> c1}

\* A payer that has never come.
Away(p) ==
    /\ sess[p] = NoSession /\ overrides[p] = "charge"
    /\ \A c \in announced : Owner[c] # p

\* Where both have come, both are charged, and one that is back has sent its
\* Offer before time passes.
Bound ==
    \/ \E p \in Payers : Away(p)
    \/ \A p \in Payers : overrides[p] = "charge" /\ (sess[p].resumed => now = 0)
=============================================================================
