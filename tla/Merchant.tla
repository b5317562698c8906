------------------------------ MODULE Merchant ------------------------------
(***************************************************************************)
(* What merchantd sells for (merchant.rs, pricing.rs): the operator's      *)
(* prices, the BTC rates a task keeps fetching, and the table the market   *)
(* sells by, recomputed from both by whoever changed either.               *)
(*                                                                         *)
(* reprice holds the read lock on the prices from reading them to          *)
(* replacing the table, so a new price waits for it; the rates have a lock *)
(* of their own, released at once.  Prices and rates are whole numbers;    *)
(* the tolerance for decimals that are not exact in binary is left out.    *)
(***************************************************************************)
EXTENDS Integers, FiniteSets

CONSTANTS Accepts,     \* accepted mints, each with the unit of its tokens
          UnitOf,
          Fiats,       \* fiat currencies: "usd", "eur"
          Prices,      \* prices the operator may set: [unit, per_mbit]
          Start,       \* the default price in the file
          SatsPer,     \* what a unit of fiat may be worth, in sats
          Mbit,        \* bytes in a megabit
          Most,        \* u64::MAX
          Operators,   \* control requests that may be served at once
          MaxChanges, MaxMoves

MerchantAssumption ==
    /\ \A m \in Accepts : UnitOf[m] \in Fiats \cup {"sat"}
    /\ SatsPer \subseteq Nat \ {0} /\ Mbit \in Nat \ {0}

VARIABLES default,  \* pricing.0
          own,      \* pricing.1: each accepted mint's own price, if it has one
          rates,    \* BTC rates, as sats per unit of fiat; 0 before the first
          table,    \* bytes_per_unit of each accepted mint; 0 is no row
          pc,       \* where each caller of reprice is
          fresh,    \* the table it has computed
          todo,     \* currencies the fetching task still has to ask for
          changes, moves

vars == <<default, own, rates, table, pc, fresh, todo, changes, moves>>

NoPrice == [unit |-> "none", per_mbit |-> 0]

Callers == Operators \cup {"fetcher"}

-----------------------------------------------------------------------------
(* pricing.rs *)

Sats(unit, r) == IF unit = "sat" THEN 1 ELSE r[unit]

\* One token unit is a sat, or a hundredth of the fiat currency.
Parts(unit) == IF unit = "sat" THEN 1 ELSE 100

Value(p, unit, r) == IF unit = p.unit THEN 1 ELSE Sats(unit, r)

Cost(p, unit, r) == p.per_mbit * Parts(unit) * (IF unit = p.unit THEN 1 ELSE Sats(p.unit, r))

\* Rounded down; 0 when there is no price, no rate, not a byte, or too many.
BytesPerUnit(p, unit, r) ==
    IF Cost(p, unit, r) = 0 THEN 0
    ELSE LET bytes == (Value(p, unit, r) * Mbit) \div Cost(p, unit, r)
         IN IF bytes < Most THEN bytes ELSE 0

PriceFor(m) == IF own[m] = NoPrice THEN default ELSE own[m]

Table == [m \in Accepts |-> BytesPerUnit(PriceFor(m), UnitOf[m], rates)]

CurrenciesNeeded(priced) ==
    {c \in Fiats : \E m \in Accepts :
        priced[m] # NoPrice /\ priced[m].unit # UnitOf[m] /\ c \in {priced[m].unit, UnitOf[m]}}

\* Worked out once, when merchantd starts.
Fetched == CurrenciesNeeded([m \in Accepts |-> Start])

-----------------------------------------------------------------------------
(* merchant.rs: reprice *)

\* Whether somebody holds the read lock on the prices.
Reading == \E c \in Callers : pc[c] = "computed"

Compute(c) ==
    /\ pc[c] = "changed"
    /\ fresh' = [fresh EXCEPT ![c] = Table]
    /\ pc' = [pc EXCEPT ![c] = "computed"]
    /\ UNCHANGED <<default, own, rates, table, todo, changes, moves>>

Replace(c) ==
    /\ pc[c] = "computed"
    /\ table' = fresh[c]
    /\ pc' = [pc EXCEPT ![c] = "idle"]
    /\ fresh' = [fresh EXCEPT ![c] = [m \in Accepts |-> 0]]
    /\ UNCHANGED <<default, own, rates, todo, changes, moves>>

SetPrice(c) ==
    /\ pc[c] = "idle" /\ changes < MaxChanges /\ ~Reading
    /\ \E p \in Prices :
          \/ default' = p /\ UNCHANGED own
          \/ \E m \in Accepts : own' = [own EXCEPT ![m] = p] /\ UNCHANGED default
    /\ pc' = [pc EXCEPT ![c] = "changed"]
    /\ changes' = changes + 1
    /\ UNCHANGED <<rates, table, fresh, todo, moves>>

-----------------------------------------------------------------------------
(* keep_fetching: every currency in turn, then reprice, then sleep. *)

\* A source answers.
Fetch ==
    /\ pc["fetcher"] = "fetching" /\ todo # {}
    /\ \E c \in todo, s \in SatsPer :
          /\ todo' = todo \ {c}
          /\ rates' = [rates EXCEPT ![c] = s]
          /\ moves' = IF s = rates[c] THEN moves ELSE moves + 1
          /\ moves' <= MaxMoves
    /\ UNCHANGED <<default, own, table, pc, fresh, changes>>

\* Every source fails: the last rate stays.
FetchNothing ==
    /\ pc["fetcher"] = "fetching" /\ todo # {}
    /\ \E c \in todo : todo' = todo \ {c}
    /\ UNCHANGED <<default, own, rates, table, pc, fresh, changes, moves>>

\* Mutant: the rates are fetched and nobody is told.
AllFetchedSilently ==
    /\ pc["fetcher"] = "fetching" /\ todo = {}
    /\ pc' = [pc EXCEPT !["fetcher"] = "idle"]
    /\ UNCHANGED <<default, own, rates, table, fresh, todo, changes, moves>>

AllFetched ==
    /\ pc["fetcher"] = "fetching" /\ todo = {}
    /\ pc' = [pc EXCEPT !["fetcher"] = "changed"]
    /\ UNCHANGED <<default, own, rates, table, fresh, todo, changes, moves>>

FetchAgain ==
    /\ Fetched # {} /\ pc["fetcher"] = "idle"
    /\ pc' = [pc EXCEPT !["fetcher"] = "fetching"]
    /\ todo' = Fetched
    /\ UNCHANGED <<default, own, rates, table, fresh, changes, moves>>

-----------------------------------------------------------------------------
Init ==
    /\ default = Start /\ own = [m \in Accepts |-> NoPrice]
    /\ rates = [c \in Fiats |-> 0]
    /\ table = Table
    /\ pc = [c \in Callers |-> "idle"]
    /\ fresh = [c \in Callers |-> [m \in Accepts |-> 0]]
    /\ todo = {} /\ changes = 0 /\ moves = 0

Next ==
    \/ \E c \in Operators : SetPrice(c)
    \/ \E c \in Callers : Compute(c) \/ Replace(c)
    \/ Fetch \/ FetchNothing \/ AllFetched \/ FetchAgain

\* Every request and the fetching task run to their end, and the task sleeps
\* and starts again.  A source that is asked again and again answers in the
\* end.
Fairness ==
    /\ \A c \in Callers : WF_vars(Compute(c)) /\ WF_vars(Replace(c))
    /\ SF_vars(Fetch) /\ WF_vars(FetchNothing) /\ WF_vars(AllFetched) /\ WF_vars(FetchAgain)

Spec == Init /\ [][Next]_vars /\ Fairness

-----------------------------------------------------------------------------
TypeOK ==
    /\ \A m \in Accepts : table[m] \in Nat /\ table[m] < Most
    /\ pc \in [Callers -> {"idle", "fetching", "changed", "computed"}]
    /\ todo \subseteq Fetched

=============================================================================
