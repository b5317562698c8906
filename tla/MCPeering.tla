------------------------------ MODULE MCPeering ------------------------------
(***************************************************************************)
(* Small instances of Peering.  A behaviour has one thing go wrong, or one *)
(* thing change, of those its Allowance names.                             *)
(***************************************************************************)
EXTENDS Peering

CONSTANTS c1, c2, c3

\* The first channel is small and expires; those that replace it are larger.
Growing      == [c \in Channels |-> IF c = c1 THEN 3 ELSE 8]
FirstExpires == [c \in Channels |-> IF c = c1 THEN 3 ELSE None]
OthersAlike  == Permutations(Channels \ {c1})

\* All alike, and none of them expires.
AllLarge == [c \in Channels |-> 8]
AllSmall == [c \in Channels |-> 3]
NoExpiry == [c \in Channels |-> None]

\* Pays per use, from a budget of two units.
PerUse ==
    [demand |-> 0, reserve |-> FALSE, headroom_pct |-> 100, min_rate |-> 0,
     max_rate |-> 4, window |-> 1, budget |-> 2, renew_lead |-> 1, cap_hold |-> 2]
\* Reserves what it observes.
Reserves == [PerUse EXCEPT !.reserve = TRUE]
\* Buys nothing.
NotBuying == [PerUse EXCEPT !.budget = 0]

OnlyPerUse  == {PerUse}
OnlyReserve == {Reserves}
AnyPolicy   == {PerUse, Reserves, NotBuying}

Calm == [lost |-> 0, cuts |-> 0, failed |-> 0, revisions |-> 0, settings |-> 0]
OneOfEach ==
    {[Calm EXCEPT ![kind] = 1] : kind \in DOMAIN Calm}
FailedAndCut  == {[Calm EXCEPT !.failed = 1, !.cuts = 1]}
NothingAllowed == {Calm}
TwoCuts        == {[Calm EXCEPT !.cuts = 2]}
=============================================================================
