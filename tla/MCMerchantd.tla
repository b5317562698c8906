---------------------------- MODULE MCMerchantd ------------------------------
(***************************************************************************)
(* merchantd, each of its parts on its own: the wallet's paper (Wallet),   *)
(* the vouchers it sells (Market) and what it sells them for (Merchant).   *)
(* Which a behaviour is of is chosen at its start; the variables of the    *)
(* others are Off.                                                         *)
(***************************************************************************)
EXTENDS Wallet, TLC

CONSTANTS Sales, Tokens, Values, Wants, Prices, OwnMax, Ceilings,   \* Market
          MaxFaults, MaxChanges, LostAnswers,
          m1, m2, o1, o2                                             \* Merchant

VARIABLES
    of,
    sale, price, ceiling, cache, worth, spent, balance, failed, repriced,   \* Market
    default, own, rates, table, pc, fresh, todo, changes, moves             \* Merchant

marketVars   == <<sale, price, ceiling, cache, worth, spent, balance, failed, repriced>>
merchantVars == <<default, own, rates, table, pc, fresh, todo, changes, moves>>

\* Payments split while a channel is funded; top-ups collected, claimed and
\* recovered; and one of them while a channel is funded.
MCAllowances ==
    {[funds |-> Funds, splits |-> Splits, quotes |-> {}, faults |-> 0],
     [funds |-> {}, splits |-> {}, quotes |-> Quotes, faults |-> 2]}

Selling == INSTANCE Market WITH held <- balance, faults <- failed, changes <- repriced

Priced(u, n) == [unit |-> u, per_mbit |-> n]

\* A dollar price paid in sats and in cents.
Pricing ==
    INSTANCE Merchant WITH
        Accepts <- {m1, m2}, UnitOf <- [m \in {m1, m2} |-> IF m = m1 THEN "sat" ELSE "usd"],
        Fiats <- {"usd"}, Prices <- {Priced("sat", 5), Priced("usd", 1)},
        Start <- Priced("usd", 2), SatsPer <- {100, 300}, Mbit <- 1000, Most <- 10000,
        Operators <- {o1, o2}, MaxChanges <- 2, MaxMoves <- 2

ASSUME PartsAssumption == Selling!MarketAssumption /\ Pricing!MerchantAssumption

-----------------------------------------------------------------------------
Off == "off"
WalletOff ==
    /\ held = Off /\ fund = Off /\ part = Off /\ quote = Off /\ claim = Off
    /\ faults = Off /\ spare = Off
MarketOff ==
    /\ sale = Off /\ price = Off /\ ceiling = Off /\ cache = Off /\ worth = Off
    /\ spent = Off /\ balance = Off /\ failed = Off /\ repriced = Off
MerchantOff ==
    /\ default = Off /\ own = Off /\ rates = Off /\ table = Off /\ pc = Off
    /\ fresh = Off /\ todo = Off /\ changes = Off /\ moves = Off

MCInit ==
    \/ of = "wallet" /\ Init /\ MarketOff /\ MerchantOff
    \/ of = "market" /\ WalletOff /\ Selling!Init /\ MerchantOff
    \/ of = "merchant" /\ WalletOff /\ MarketOff /\ Pricing!Init

WalletNext   == of = "wallet" /\ Next /\ UNCHANGED <<of, marketVars, merchantVars>>
MarketNext   == of = "market" /\ Selling!Next /\ UNCHANGED <<of, vars, merchantVars>>
MerchantNext == of = "merchant" /\ Pricing!Next /\ UNCHANGED <<of, vars, marketVars>>
MCNext == WalletNext \/ MarketNext \/ MerchantNext

\* The fairness of each part.
MCFairness ==
    /\ \A q \in Quotes :
          /\ WF_vars(of = "wallet" /\ Collect(q) /\ UNCHANGED spare)
          /\ WF_vars(of = "wallet" /\ ClaimOne(q) /\ UNCHANGED spare)
    /\ \A s \in Sales : WF_marketVars(of = "market" /\ Selling!Handle(s))
    /\ \A c \in {o1, o2, "fetcher"} :
          /\ WF_merchantVars(of = "merchant" /\ Pricing!Compute(c))
          /\ WF_merchantVars(of = "merchant" /\ Pricing!Replace(c))
    /\ SF_merchantVars(of = "merchant" /\ Pricing!Fetch)
    /\ WF_merchantVars(of = "merchant" /\ Pricing!FetchNothing)
    /\ WF_merchantVars(of = "merchant" /\ Pricing!AllFetched)
    /\ WF_merchantVars(of = "merchant" /\ Pricing!FetchAgain)

MCSpec == MCInit /\ [][MCNext]_<<of, vars, marketVars, merchantVars>> /\ MCFairness

-----------------------------------------------------------------------------
(* The properties of each part. *)

\* A top-up is credited once, and by a claim at the latest, whoever gets to it
\* and whatever was killed on the way (collect, claim_pending and recover); a
\* payment is split out of what it brought in (split and send_within).
PaperSound == of = "wallet" => TypeOK /\ CreditedOnce /\ ClaimGetsAll /\ SplitWithin

IsPaid(q) == of = "wallet" /\ quote[q].state = "paid" /\ quote[q].task = "waiting"

IsOver(q) == of = "wallet" /\ (quote[q].state = "issued" \/ quote[q].task = "ended")

IsAsked(s) == of = "market" /\ sale[s].at # "idle"

IsAnswered(s) == of = "market" /\ sale[s].at \in Selling!Ended

\* A payment is not left hanging: a top-up that is paid is minted, unless its
\* task gives up or dies, even if claims leave its quote reserved (collect);
\* and a swap ends as a refusal, a sale, a refund or a debt the operator is
\* told of (swap).
PaymentEnds ==
    /\ \A q \in Quotes : IsPaid(q) ~> IsOver(q)
    /\ \A s \in Sales : IsAsked(s) ~> IsAnswered(s)

\* What is signed was paid for in full, once; a refund costs nobody else, and
\* nothing signed is refunded (swap, priced_purchase and send_within).
SaleSound ==
    of = "market" =>
       /\ Selling!TypeOK /\ Selling!PaidInFull /\ Selling!OncePerToken
       /\ Selling!RefundWithin /\ Selling!NeverBoth

\* Once prices and rates are left alone, the table comes to be the one they
\* give (reprice and keep_fetching).
TableSettles ==
    <>[](of = "merchant" => Pricing!TypeOK /\ table = Pricing!Table)
=============================================================================
