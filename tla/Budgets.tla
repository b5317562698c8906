------------------------------- MODULE Budgets -------------------------------
(***************************************************************************)
(* Each payer's budget, kept between sessions (tollgate-net/src/budgets.rs):*)
(* the records in memory and the file they are written to whole.  Core's   *)
(* clock starts with the node, so a deadline is kept as a time of day.     *)
(***************************************************************************)
EXTENDS Naturals

CONSTANTS
    Addrs,          \* addresses a payer connects from
    ByAddress,      \* whether the payer is its address, PeerIdentity::Address
    None

ASSUME BudgetsAssumption == ByAddress \in BOOLEAN

\* What a budget is kept under: the key, with the address when it is checked.
Key(a) == IF ByAddress THEN a ELSE "key"
Keys   == {Key(a) : a \in Addrs}

Budget == [remaining : Nat, deadline : Nat]
Record == [remaining : Nat, deadline_unix : Nat]

NoRecords == [k \in Keys |-> None]

Prune(records, unix) ==
    [k \in Keys |->
        IF records[k] # None /\ records[k].remaining > 0 /\ records[k].deadline_unix > unix
        THEN records[k] ELSE None]

\* BudgetStore::open, of a file that may not be readable.
Open(file, unix) == Prune(file, unix)

\* The budget kept under k on core's clock, or None.
Get(records, k, unix, now) ==
    LET r == records[k] IN
    IF r # None /\ r.remaining > 0 /\ r.deadline_unix > unix
    THEN [remaining |-> r.remaining, deadline |-> now + (r.deadline_unix - unix)]
    ELSE None

\* BudgetStore::put: the records after it, and whether it writes them.
Put(records, k, b, unix, now) ==
    LET left == IF b.deadline > now THEN b.deadline - now ELSE 0
        gone == b.remaining = 0 \/ left = 0
        kept == IF gone THEN None
                ELSE [remaining |-> b.remaining, deadline_unix |-> unix + left]
    IN  IF gone /\ records[k] = None THEN [records |-> records, writes |-> FALSE]
        ELSE [records |-> Prune([records EXCEPT ![k] = kept], unix), writes |-> TRUE]
=============================================================================
