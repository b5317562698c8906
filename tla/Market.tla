------------------------------- MODULE Market -------------------------------
(***************************************************************************)
(* Selling vouchers (market.rs): a swap request is priced, its payment is  *)
(* deposited, mintd is asked for a quote and to mint against it, and a     *)
(* payment nothing could be issued against is handed back (wallet.rs,      *)
(* refund and send_within).  Requests are served at the same time, the     *)
(* price and mintd's ceiling change under them, and any call may fail or   *)
(* lose its answer.                                                        *)
(*                                                                         *)
(* One accepted paper and its wallet balance; a token is worth what it     *)
(* says, less the issuing mint's fee once deposited.                       *)
(***************************************************************************)
EXTENDS Send, FiniteSets

CONSTANTS Sales,      \* swap requests
          Tokens,     \* payments; two requests may carry the same one
          Values,     \* what a token may be worth
          Wants,      \* capacities asked for
          Prices,     \* bytes_per_unit; 0 refuses the paper
          OwnMax,     \* the market's own max_amount
          Ceilings,   \* the mint's ceiling on one quote
          MaxFaults,  \* calls that fail
          MaxChanges, \* changes of price, of the ceiling, and other spending
          LostAnswers \* whether a mint may sign and the answer be lost

MarketAssumption ==
    /\ OwnMax \in Nat \ {0}
    /\ Values \subseteq Nat /\ Wants \subseteq Nat /\ Prices \subseteq Nat /\ Ceilings \subseteq Nat

VARIABLES sale,     \* where each request is
          price,    \* bytes_per_unit in force
          ceiling,  \* what mintd issues against one quote
          cache,    \* Issuer.limit: the ceiling last looked up, or not looked up
          worth,    \* what each token says it is worth
          spent,    \* tokens redeemed at the issuing mint
          held,     \* the wallet's balance of this paper
          faults, changes

vars == <<sale, price, ceiling, cache, worth, spent, held, faults, changes>>

None == [looked |-> FALSE, max |-> 0]

Looked(m) == [looked |-> TRUE, max |-> m]

Idle == [at |-> "idle", token |-> CHOOSE t \in Tokens : TRUE, wanted |-> 0, rate |-> 0,
         credit |-> 0, signed |-> FALSE, back |-> 0, fee |-> 0]

Ended == {"idle", "refused", "sold", "refunded", "owed"}

Taken == {"paid", "quoted", "failed", "sold", "refunded", "owed"}

-----------------------------------------------------------------------------
(* Prices *)

\* Rounded up to a whole unit, never free.
PriceOf(bytes, bpu) == (bytes + bpu - 1) \div bpu

\* 0 is no answer: the market's own ceiling applies.
MaxSale(m) == IF m = 0 THEN OwnMax ELSE Least(OwnMax, m)

PricedPurchase(paid, bpu, most, wanted) ==
    /\ bpu > 0
    /\ wanted <= most
    /\ wanted > 0
    /\ PriceOf(wanted, bpu) = paid

-----------------------------------------------------------------------------
(* A swap *)

Move(s, to) == sale' = [sale EXCEPT ![s].at = to]

Fault == faults < MaxFaults /\ faults' = faults + 1

Ask(s) ==
    /\ sale[s].at = "idle"
    /\ \E t \in Tokens, w \in Wants :
          sale' = [sale EXCEPT ![s].at = "asked", ![s].token = t, ![s].wanted = w]
    /\ UNCHANGED <<price, ceiling, cache, worth, spent, held, faults, changes>>

\* The mint is asked for its ceiling unless the last answer, or the last
\* failure to get one, still stands.
Lookup(s) ==
    /\ sale[s].at = "asked" /\ ~cache.looked
    /\ \/ cache' = Looked(ceiling) /\ UNCHANGED faults
       \/ cache' = Looked(0) /\ Fault
    /\ UNCHANGED <<sale, price, ceiling, worth, spent, held, changes>>

CheckPrice(s) ==
    /\ sale[s].at = "asked" /\ cache.looked
    /\ IF PricedPurchase(worth[sale[s].token], price, MaxSale(cache.max), sale[s].wanted)
       THEN sale' = [sale EXCEPT ![s].at = "priced", ![s].rate = price]
       ELSE Move(s, "refused")
    /\ UNCHANGED <<price, ceiling, cache, worth, spent, held, faults, changes>>

\* Mutant: issuing starts before the payment has cleared.
DepositSkipped(s) ==
    /\ sale[s].at = "priced"
    /\ sale' = [sale EXCEPT ![s].at = "paid", ![s].credit = worth[sale[s].token]]
    /\ held' = held + worth[sale[s].token]
    /\ UNCHANGED <<price, ceiling, cache, worth, spent, faults, changes>>

\* Redeemed at the issuing mint: good once, and worth its value less the fee.
Deposit(s) ==
    /\ sale[s].at = "priced"
    /\ LET t == sale[s].token
       IN \/ /\ t \notin spent
             /\ spent' = spent \cup {t}
             /\ \E f \in 0..Least(MaxFee, worth[t]) :
                   /\ held' = held + worth[t] - f
                   /\ sale' = [sale EXCEPT ![s].at = "paid", ![s].credit = worth[t] - f]
             /\ UNCHANGED faults
          \/ /\ t \in spent
             /\ Move(s, "refused")
             /\ UNCHANGED <<spent, held, faults>>
          \/ /\ Fault
             /\ Move(s, "refused")
             /\ UNCHANGED <<spent, held>>
    /\ UNCHANGED <<price, ceiling, cache, worth, changes>>

\* Issuer::issue, its first call: a quote of the outputs' total.
Quote(s) ==
    /\ sale[s].at = "paid"
    /\ \/ sale[s].wanted <= ceiling /\ Move(s, "quoted") /\ UNCHANGED faults
       \/ sale[s].wanted > ceiling /\ Move(s, "failed") /\ UNCHANGED faults
       \/ Fault /\ Move(s, "failed")
    /\ UNCHANGED <<price, ceiling, cache, worth, spent, held, changes>>

\* Its second call: mint against the paid quote.
MintAgainst(s) ==
    /\ sale[s].at = "quoted"
    /\ \/ sale' = [sale EXCEPT ![s].at = "sold", ![s].signed = TRUE] /\ UNCHANGED faults
       \/ Fault /\ Move(s, "failed")
       \/ LostAnswers /\ Fault /\ sale' = [sale EXCEPT ![s].at = "failed", ![s].signed = TRUE]
    /\ UNCHANGED <<price, ceiling, cache, worth, spent, held, changes>>

\* The money is in and nothing came of it: hand back what cleared, less the
\* fee for making the token, or leave it for the operator to return.
HandBack(s) ==
    /\ sale[s].at = "failed"
    /\ \E r \in SendWithin(sale[s].credit, sale[s].credit, held) :
          IF r.ok
          THEN /\ sale' = [sale EXCEPT ![s].at = "refunded", ![s].back = r.worth, ![s].fee = r.fee]
               /\ held' = held - r.worth - r.fee
          ELSE Move(s, "owed") /\ UNCHANGED held
    /\ UNCHANGED <<price, ceiling, cache, worth, spent, faults, changes>>

-----------------------------------------------------------------------------
(* Around it *)

Change == changes < MaxChanges /\ changes' = changes + 1

\* merchantd replaces its table.
Reprice ==
    /\ Change
    /\ \E p \in Prices \ {price} : price' = p
    /\ UNCHANGED <<sale, ceiling, cache, worth, spent, held, faults>>

\* mintd restarts with another max_amount.
MintRestarts ==
    /\ Change
    /\ \E c \in Ceilings \ {ceiling} : ceiling' = c
    /\ UNCHANGED <<sale, price, cache, worth, spent, held, faults>>

\* LIMIT_TTL or FAILED_LIMIT_TTL has passed.
CacheExpires ==
    /\ Change
    /\ cache.looked /\ cache' = None
    /\ UNCHANGED <<sale, price, ceiling, worth, spent, held, faults>>

\* Something else is paid out of the same paper.
SpendElsewhere ==
    /\ Change
    /\ held > 0 /\ \E n \in 1..held : held' = held - n
    /\ UNCHANGED <<sale, price, ceiling, cache, worth, spent, faults>>

Init ==
    /\ sale = [s \in Sales |-> Idle]
    /\ price \in Prices /\ ceiling \in Ceilings
    /\ cache = None
    /\ worth \in [Tokens -> Values]
    /\ spent = {} /\ held = 1 /\ faults = 0 /\ changes = 0

Handle(s) == Lookup(s) \/ CheckPrice(s) \/ Deposit(s) \/ Quote(s) \/ MintAgainst(s) \/ HandBack(s)

Next ==
    \/ \E s \in Sales : Ask(s) \/ Handle(s)
    \/ Reprice \/ MintRestarts \/ CacheExpires \/ SpendElsewhere

\* Every request is a task of the HTTP server, and every call it makes ends,
\* by its answer or by the client's timeout.
Spec == Init /\ [][Next]_vars /\ \A s \in Sales : WF_vars(Handle(s))

-----------------------------------------------------------------------------
TypeOK ==
    /\ \A s \in Sales : sale[s].at \in Ended \cup Taken \cup {"asked", "priced"}
    /\ held \in Nat /\ spent \subseteq Tokens
    /\ cache.max \in Ceilings \cup {0}

\* What was signed was paid for: the payment is the whole price, in force when
\* it was checked, of the capacity signed, never a unit less and never a whole
\* unit more (priced_purchase, price_of).
PaidInFull ==
    \A s \in Sales : sale[s].signed =>
        /\ worth[sale[s].token] * sale[s].rate >= sale[s].wanted
        /\ (worth[sale[s].token] - 1) * sale[s].rate < sale[s].wanted

\* One payment buys once, though two requests carry it at the same time: the
\* deposit comes before anything is issued (swap).
OncePerToken ==
    \A s, t \in Sales : (s # t /\ sale[s].token = sale[t].token)
        => ~(sale[s].at \in Taken /\ sale[t].at \in Taken)

\* A refund and the fee for making it come to no more than what cleared: none
\* of the wallet's other money pays for it (refund, send_within).
RefundWithin ==
    \A s \in Sales : sale[s].at = "refunded" =>
        sale[s].back + sale[s].fee <= sale[s].credit

\* A buyer that was paid back has nothing to show for its payment: what is
\* signed was not refunded (swap: "The money is already ours and the buyer has
\* nothing").
NeverBoth == \A s \in Sales : ~(sale[s].signed /\ sale[s].at = "refunded")
=============================================================================
