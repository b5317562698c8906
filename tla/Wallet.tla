------------------------------- MODULE Wallet -------------------------------
(***************************************************************************)
(* One issuer's paper in the wallet (wallet.rs), shared by the requests    *)
(* merchantd serves at the same time: channels funded out of it with the   *)
(* shortfall minted first, payments split, tokens deposited, and top-ups   *)
(* that a task collects once their invoice is paid (merchant.rs, top_up)   *)
(* or an operator claims.                                                  *)
(*                                                                         *)
(* cdk's wallet and the mint are external: a quote is reserved while it is *)
(* being minted, an attempt that fails or dies leaves it reserved, and     *)
(* recovering finishes what the mint has issued and releases the rest,     *)
(* attempts still being made excepted.                                     *)
(***************************************************************************)
EXTENDS Send, FiniteSets, Sums

CONSTANTS Funds,      \* channels to fund
          Splits,     \* payments to split
          Quotes,     \* top-ups
          Amounts,    \* what is asked for
          Most,       \* the largest part of a split
          Ceiling,    \* the mint's max_amount for one quote
          Nobody,     \* no task
          Allowances  \* bounds on what happens in a behaviour

Allowance ==
    [funds  : SUBSET Funds,     \* what is asked for
     splits : SUBSET Splits,
     quotes : SUBSET Quotes,
     faults : Nat]              \* calls that fail, tasks that give up, kills

ASSUME WalletAssumption ==
    /\ IsFiniteSet(Quotes) /\ Nobody # "task"
    /\ Ceiling \in Nat \ {0} /\ Most \in Nat \ {0} /\ Amounts \subseteq Nat \ {0}
    /\ Allowances \subseteq Allowance

VARIABLES held,    \* total balance
          fund,    \* fund_from, one per channel
          part,    \* split, one per payment
          quote,   \* mint quotes in the wallet's database
          claim,   \* claim_pending: the quotes it still has to try
          faults,  \* so far
          spare    \* the behaviour's Allowance

vars == <<held, fund, part, quote, claim, faults, spare>>

NoClaim == [on |-> FALSE, todo |-> {}, due |-> {}, since |-> 0]

Fault == faults < spare.faults /\ faults' = faults + 1

-----------------------------------------------------------------------------
(* fund_from: balance_of, issue, spend. *)

StartFund(f) ==
    /\ fund[f].at = "idle"
    /\ \E n \in Amounts :
          fund' = [fund EXCEPT ![f] = [at |-> IF n > held THEN "mint" ELSE "spend",
                                       amount |-> n, short |-> Less(n, held), token |-> 0]]
    /\ UNCHANGED <<held, part, quote, claim, faults>>

\* One quote and the mint against it, no more than the mint's ceiling; asked
\* again until the shortfall is covered.
IssueSome(f) ==
    /\ fund[f].at = "mint"
    /\ LET ask == Least(fund[f].short, Ceiling)
       IN \/ /\ held' = held + ask
             /\ fund' = [fund EXCEPT ![f].short = @ - ask,
                                     ![f].at = IF fund[f].short = ask THEN "spend" ELSE "mint"]
             /\ UNCHANGED faults
          \/ /\ Fault
             /\ fund' = [fund EXCEPT ![f].at = "failed"]
             /\ UNCHANGED held
    /\ UNCHANGED <<part, quote, claim>>

\* Exactly the amount, or an error and an untouched balance.
Spend(f) ==
    /\ fund[f].at = "spend"
    /\ \/ \E fee \in 0..MaxFee :
             /\ fund[f].amount + fee <= held
             /\ held' = held - fund[f].amount - fee
             /\ fund' = [fund EXCEPT ![f].at = "funded", ![f].token = fund[f].amount]
       \/ /\ \E fee \in 0..MaxFee : fund[f].amount + fee > held
          /\ fund' = [fund EXCEPT ![f].at = "failed"]
          /\ UNCHANGED held
    /\ UNCHANGED <<part, quote, claim, faults>>

-----------------------------------------------------------------------------
(* deposit and split *)

\* What may be handed out of a payment that brought in n.
Brought(n) == n

\* Received at the issuing mint, less its fee.
StartSplit(k) ==
    /\ part[k].at = "idle"
    /\ \E n \in Amounts, fee \in 0..MaxFee :
          /\ fee < n
          /\ held' = held + n - fee
          /\ part' = [part EXCEPT ![k] = [at |-> "split", in |-> n - fee, left |-> Brought(n - fee), spent |-> 0, made |-> {}]]
    /\ UNCHANGED <<fund, quote, claim, faults>>

MakePart(k) ==
    /\ part[k].at = "split"
    /\ IF part[k].left = 0
       THEN part' = [part EXCEPT ![k].at = "done"] /\ UNCHANGED held
       ELSE \E t \in SendWithin(Least(part[k].left, Most), part[k].left, held) :
              IF t.ok
              THEN /\ held' = held - t.worth - t.fee
                   /\ part' = [part EXCEPT ![k].left = @ - t.worth - t.fee, ![k].made = @ \cup {t.worth},
                                            ![k].spent = @ + t.worth + t.fee]
              ELSE /\ part' = [part EXCEPT ![k].at = "done"]
                   /\ UNCHANGED held
    /\ UNCHANGED <<fund, quote, claim, faults>>

-----------------------------------------------------------------------------
(* Top-ups: cdk's mint_quote, mint and recover_incomplete_sagas. *)

NoQuote == [state |-> "none", amount |-> 0, reserved |-> FALSE, by |-> Nobody, credited |-> 0,
            task |-> "ended"]

TopUp(q) ==
    /\ quote[q].state = "none"
    /\ \E n \in Amounts :
          quote' = [quote EXCEPT ![q].state = "unpaid", ![q].amount = n, ![q].task = "waiting"]
    /\ UNCHANGED <<held, fund, part, claim, faults>>

\* The invoice is paid, perhaps short.
Pay(q) ==
    /\ quote[q].state = "unpaid"
    /\ \E n \in 1..quote[q].amount : quote' = [quote EXCEPT ![q].state = "paid", ![q].amount = n]
    /\ UNCHANGED <<held, fund, part, claim, faults>>

Credit(q) ==
    /\ held' = held + quote[q].amount

\* Mutant: whatever is listed as issued is credited again.
RecoveredTwice(quotes) ==
    [q \in Quotes |-> [quotes[q] EXCEPT !.reserved = FALSE, !.by = Nobody,
                              !.credited = IF quotes[q].state = "issued" THEN @ + 1 ELSE @]]

\* Recovering: what the mint issued is finished, the rest is let go; what a
\* task has in hand is left to it.
Recovered(quotes) ==
    [q \in Quotes |->
       IF ~quotes[q].reserved \/ quotes[q].by # Nobody THEN quotes[q]
       ELSE [quotes[q] EXCEPT !.reserved = FALSE, !.by = Nobody,
                              !.credited = IF quotes[q].state = "issued" THEN 1 ELSE @]]

Gained == LET due == {q \in Quotes : Recovered(quote)[q].credited > quote[q].credited}
          IN SumOver([q \in Quotes |-> quote[q].amount], due)

\* The mint answers `who'.  An unpaid quote is refused in a way that leaves it
\* reserved; a lost answer leaves it issued and reserved.
Minted(q, who, next) ==
    \/ /\ quote[q].state = "paid"
       /\ quote' = [next EXCEPT ![q].state = "issued", ![q].reserved = FALSE, ![q].by = Nobody, ![q].credited = @ + 1,
                             ![q].task = IF who = "task" THEN "done" ELSE @]
       /\ Credit(q)
       /\ UNCHANGED faults
    \/ /\ quote[q].state = "paid" /\ Fault
       /\ \E s \in {"paid", "issued"} : quote' = [next EXCEPT ![q].state = s, ![q].by = Nobody]
       /\ UNCHANGED held
    \/ /\ quote[q].state # "paid"
       /\ quote' = [next EXCEPT ![q].by = Nobody]
       /\ UNCHANGED <<held, faults>>

-----------------------------------------------------------------------------
(* collect, called by the top-up's task until it works or the deadline     *)
(* passes.                                                                 *)

Check(q) ==
    /\ quote[q].task = "waiting" /\ quote[q].state = "paid"
    /\ quote' = [quote EXCEPT ![q].task = "mint"]
    /\ UNCHANGED <<held, fund, part, claim, faults>>

\* Mutant: a reserved quote is an error like any other.
CollectOnce(q) ==
    /\ quote[q].task = "mint"
    /\ quote' = IF quote[q].reserved THEN [quote EXCEPT ![q].task = "waiting"]
                ELSE [quote EXCEPT ![q].reserved = TRUE, ![q].by = "task", ![q].task = "minting"]
    /\ UNCHANGED <<held, fund, part, claim, faults>>

CollectStart(q) ==
    /\ quote[q].task = "mint"
    /\ IF quote[q].reserved
       THEN \* QuoteAlreadyInUse: recover, and once more.
            /\ held' = held + Gained
            /\ quote' = [Recovered(quote) EXCEPT ![q].reserved = TRUE, ![q].by = "task", ![q].task = "minting"]
       ELSE /\ quote' = [quote EXCEPT ![q].reserved = TRUE, ![q].by = "task", ![q].task = "minting"]
            /\ UNCHANGED held
    /\ UNCHANGED <<fund, part, claim, faults>>

CollectEnd(q) ==
    /\ quote[q].task = "minting"
    /\ Minted(q, "task", [quote EXCEPT ![q].task = "waiting"])
    /\ UNCHANGED <<fund, part, claim>>

GiveUp(q) ==
    /\ quote[q].task = "waiting" /\ Fault
    /\ quote' = [quote EXCEPT ![q].task = "ended"]
    /\ UNCHANGED <<held, fund, part, claim>>

-----------------------------------------------------------------------------
(* claim_pending *)

StartClaim ==
    /\ ~claim.on
    /\ LET open == {q \in Quotes : quote[q].state \notin {"none", "issued"}}
       IN /\ claim' = [on |-> TRUE, todo |-> open, since |-> faults,
                       due |-> {q \in Quotes : quote[q].state = "paid" \/ (quote[q].state = "issued" /\ quote[q].credited = 0)}]
          /\ quote' = Recovered(quote)
          /\ held' = held + Gained
    /\ UNCHANGED <<fund, part, faults>>

\* Each in turn; one already in use, or not paid yet, is left for next time.
ClaimOne(q) ==
    /\ claim.on /\ q \in claim.todo
    /\ claim' = [claim EXCEPT !.todo = @ \ {q}]
    /\ IF quote[q].reserved THEN UNCHANGED <<held, quote, faults>>
       ELSE Minted(q, "claim", [quote EXCEPT ![q].reserved = TRUE])
    /\ UNCHANGED <<fund, part>>

EndClaim ==
    /\ claim.on /\ claim.todo = {}
    /\ claim' = NoClaim
    /\ UNCHANGED <<held, fund, part, quote, faults>>

\* merchantd is killed: its tasks go, what is in the database stays.
Crash ==
    /\ Fault
    /\ fund' = [f \in Funds |-> IF fund[f].at \in {"mint", "spend"} THEN [fund[f] EXCEPT !.at = "failed"] ELSE fund[f]]
    /\ part' = [k \in Splits |-> IF part[k].at = "split" THEN [part[k] EXCEPT !.at = "done"] ELSE part[k]]
    /\ \E lost \in SUBSET {q \in Quotes : quote[q].task = "minting" /\ quote[q].state = "paid"} :
          quote' = [q \in Quotes |-> [quote[q] EXCEPT !.by = Nobody, !.task = "ended",
                                        !.state = IF q \in lost THEN "issued" ELSE @]]
    /\ claim' = NoClaim
    /\ UNCHANGED held

-----------------------------------------------------------------------------
Init ==
    /\ held \in 0..1
    /\ fund = [f \in Funds |-> [at |-> "idle", amount |-> 0, short |-> 0, token |-> 0]]
    /\ part = [k \in Splits |-> [at |-> "idle", in |-> 0, left |-> 0, spent |-> 0, made |-> {}]]
    /\ quote = [q \in Quotes |-> NoQuote]
    /\ claim = NoClaim /\ faults = 0 /\ spare \in Allowances

Collect(q) == Check(q) \/ CollectStart(q) \/ CollectEnd(q)

Next ==
    /\ \/ \E f \in spare.funds : StartFund(f) \/ IssueSome(f) \/ Spend(f)
       \/ \E k \in spare.splits : StartSplit(k) \/ MakePart(k)
       \/ \E q \in spare.quotes : TopUp(q) \/ Pay(q) \/ Collect(q) \/ GiveUp(q) \/ ClaimOne(q)
       \/ StartClaim \/ EndClaim \/ Crash
    /\ UNCHANGED spare

\* The task of a top-up is polled until its deadline, and a claim runs to its
\* end.
Fairness ==
    \A q \in Quotes : WF_vars(Collect(q) /\ UNCHANGED spare) /\ WF_vars(ClaimOne(q) /\ UNCHANGED spare)

Spec == Init /\ [][Next]_vars /\ Fairness

-----------------------------------------------------------------------------
TypeOK ==
    /\ held \in Nat
    /\ \A q \in Quotes : quote[q].state \in {"none", "unpaid", "paid", "issued"}
    /\ claim.todo \subseteq Quotes

\* A top-up is credited once, whoever gets to it: the task that waits for it,
\* an operator's claim, or recovering what a killed run had begun (collect,
\* claim_pending, recover).
CreditedOnce ==
    \A q \in Quotes : /\ quote[q].credited <= 1
                      /\ quote[q].credited = 1 => quote[q].state = "issued"

\* A claim leaves nothing behind: what was paid for when it began, or minted
\* and not stored by a run that was killed, is in the wallet when it has gone
\* through its list, unless the top-up's own task has it in hand or a call
\* failed meanwhile (claim_pending).
ClaimGetsAll ==
    (claim.on /\ claim.todo = {}) =>
        \A q \in claim.due : quote[q].credited = 1 \/ quote[q].task = "minting" \/ faults # claim.since

\* Splitting a payment spends what the payment brought in and nothing else
\* held of that paper, its swap fees included, and no part is worth more than
\* the largest a seller takes (split, send_within).
SplitWithin ==
    \A k \in Splits : /\ part[k].spent <= part[k].in
                      /\ \A w \in part[k].made : 0 < w /\ w <= Most
=============================================================================
