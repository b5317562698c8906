-------------------------- MODULE MerchantdProofs ---------------------------
(***************************************************************************)
(* What is proved of merchantd's parts, for every set of requests, tokens, *)
(* top-ups and payments and every price, fee and ceiling: sales and what   *)
(* is handed back (Market), and the wallet's paper (Wallet).               *)
(***************************************************************************)
EXTENDS MCMerchantd, SumProofs, TLAPS

-----------------------------------------------------------------------------
(* Making a token.  The attempts are counted down by a recursive function, *)
(* and the induction over them is on the set of counts for which a fact    *)
(* holds.                                                                  *)

\* What may come of n attempts, after is what may come of one fewer.
Attempts(after, n, budget, purse, first) ==
    [want \in 0..first |->
        IF n = 0 \/ want = 0 THEN {NoToken}
        ELSE UNION {IF want + f > purse \/ want + f > budget
                    THEN after[Least(Less(budget, f), want - 1)]
                    ELSE {Sent(want, f)} : f \in 0..MaxFee}]

SendStep(h, n, budget, purse, first) == Attempts(h[n - 1], n, budget, purse, first)

AreAttempts(h, budget, purse, first) ==
    h = [n \in 0..Tries |-> SendStep(h, n, budget, purse, first)]

\* A token worth at most want, paid for out of what there is.
SentWithin(r, want, budget, purse) ==
    r.ok => /\ r.worth \in Nat /\ r.fee \in Nat /\ 0 < r.worth /\ r.worth <= want
            /\ r.worth + r.fee <= budget /\ r.worth + r.fee <= purse

(* A set of counts that holds 0, and the next of each, holds them all. *)
LEMMA AllCounts ==
    ASSUME NEW m \in Nat, NEW S \in SUBSET (0..m), 0 \in S,
           \A n \in S : n < m => n + 1 \in S
    PROVE  m \in S
<1> SUFFICES ASSUME m \notin S PROVE FALSE
  OBVIOUS
<1> DEFINE B == {0..n : n \in (0..m) \ S}
<1>1. IsFiniteSet(0..m)
  BY FS_Interval
<1>0. B \in SUBSET (SUBSET (0..m)) /\ B # {}
  <2>1. ASSUME NEW n \in 0..m PROVE 0..n \subseteq 0..m
    OBVIOUS
  <2>2. 0..m \in B
    BY DEF B
  <2> QED BY <2>1, <2>2
<1>2. PICK T \in B : \A U \in B : U \subseteq T => U = T
  <2> DEFINE I == 0..m
  <2>1. IsFiniteSet(I) /\ B \in SUBSET (SUBSET I) /\ B # {}
    BY <1>0, <1>1
  <2> HIDE DEF B, I
  <2> QED BY <2>1, MinimalSubset
<1>3. PICK n \in (0..m) \ S : T = 0..n
  BY <1>2
<1>4. n # 0 /\ n - 1 \in 0..m /\ n - 1 < m
  BY <1>3
<1>5. n - 1 \in S
  <2>1. SUFFICES ASSUME n - 1 \notin S PROVE FALSE
    OBVIOUS
  <2>2. 0..(n - 1) \in B
    BY <1>4, <2>1
  <2>3. 0..(n - 1) \subseteq T
    BY <1>3
  <2>4. 0..(n - 1) = 0..n
    BY <1>2, <1>3, <2>2, <2>3
  <2> QED BY <1>3, <2>4
<1>6. n - 1 + 1 \in S
  BY <1>4, <1>5
<1> QED BY <1>3, <1>6

(* The attempts are a function of how many may still be made. *)
LEMMA SendUnfold ==
    ASSUME NEW most, NEW budget, NEW purse
    PROVE  SendWithin(most, budget, purse)
             = (CHOOSE h : AreAttempts(h, budget, purse, Least(most, budget)))[Tries][Least(most, budget)]
BY DEF SendWithin, AreAttempts, SendStep, Attempts

(* There is such a function. *)
LEMMA AttemptsExist ==
    ASSUME SendAssumption, NEW budget, NEW purse, NEW first
    PROVE  \E h : AreAttempts(h, budget, purse, first)
<1> DEFINE S == {m \in 0..Tries : \E h : h = [n \in 0..m |-> SendStep(h, n, budget, purse, first)]}
<1>0. Tries \in Nat
  BY DEF SendAssumption
<1>1. 0 \in S
  <2> DEFINE g == [n \in 0..0 |-> [want \in 0..first |-> {NoToken}]]
  <2>1. g = [n \in 0..0 |-> SendStep(g, n, budget, purse, first)]
    BY DEF SendStep, Attempts
  <2> HIDE DEF g
  <2>2. \E h : h = [n \in 0..0 |-> SendStep(h, n, budget, purse, first)]
    BY <2>1
  <2> QED BY <1>0, <2>2
<1>2. ASSUME NEW m \in S, m < Tries
      PROVE  m + 1 \in S
  <2>1. PICK h : h = [n \in 0..m |-> SendStep(h, n, budget, purse, first)]
    BY <1>2
  <2> DEFINE g == [n \in 0..(m + 1) |-> IF n = m + 1 THEN SendStep(h, n, budget, purse, first) ELSE h[n]]
  <2>2. ASSUME NEW n \in 0..(m + 1)
        PROVE  SendStep(g, n, budget, purse, first) = SendStep(h, n, budget, purse, first)
    <3>1. n # 0 => g[n - 1] = h[n - 1]
      BY <1>0, <1>2
    <3> HIDE DEF g
    <3>2. CASE n = 0
      BY <3>2 DEF SendStep, Attempts
    <3>3. CASE n # 0
      BY <3>1, <3>3 DEF SendStep
    <3> QED BY <3>2, <3>3
  <2>3. \A n \in 0..m : h[n] = SendStep(h, n, budget, purse, first)
    BY <2>1
  <2>4. ASSUME NEW n \in 0..(m + 1)
        PROVE  g[n] = SendStep(g, n, budget, purse, first)
    <3>1. n # m + 1 => n \in 0..m
      BY <1>0, <1>2
    <3> QED BY <2>2, <2>3, <3>1
  <2>5. g = [n \in 0..(m + 1) |-> SendStep(g, n, budget, purse, first)]
    <3> DEFINE k == [n \in 0..(m + 1) |-> SendStep(g, n, budget, purse, first)]
    <3>1. g = [n \in DOMAIN g |-> g[n]] /\ DOMAIN g = 0..(m + 1)
      OBVIOUS
    <3> HIDE DEF g
    <3> QED BY <2>4, <3>1, Zenon
  <2> HIDE DEF g
  <2> QED BY <1>0, <1>2, <2>5
<1> HIDE DEF S
<1>3. Tries \in S
  <2>1. S \in SUBSET (0..Tries)
    BY DEF S
  <2> QED BY <1>0, <1>1, <1>2, <2>1, AllCounts
<1> QED BY <1>3 DEF S, AreAttempts

(* What an attempt comes to, if the ones that follow it come to as much. *)
LEMMA StepWithin ==
    ASSUME SendAssumption, NEW budget \in Nat, NEW purse \in Nat, NEW first \in Nat,
           NEW h, NEW n \in 0..Tries,
           n # 0 => \A want \in 0..first : \A r \in h[n - 1][want] :
                       SentWithin(r, want, budget, purse),
           NEW want \in 0..first, NEW r \in SendStep(h, n, budget, purse, first)[want]
    PROVE  SentWithin(r, want, budget, purse)
<1>1. CASE n = 0 \/ want = 0
  <2>1. SendStep(h, n, budget, purse, first)[want] = {NoToken}
    BY <1>1 DEF SendStep, Attempts
  <2> QED BY <2>1 DEF NoToken, SentWithin
<1>2. CASE ~(n = 0 \/ want = 0)
  <2>1. PICK f \in 0..MaxFee :
           r \in IF want + f > purse \/ want + f > budget
                 THEN h[n - 1][Least(Less(budget, f), want - 1)]
                 ELSE {Sent(want, f)}
    BY <1>2 DEF SendStep, Attempts
  <2>2. f \in Nat
    BY DEF SendAssumption
  <2>3. CASE want + f > purse \/ want + f > budget
    <3> DEFINE next == Least(Less(budget, f), want - 1)
    <3>1. next \in 0..first /\ next <= want
      BY <1>2, <2>2 DEF Least, Less
    <3> HIDE DEF next
    <3>2. r \in h[n - 1][next]
      BY <2>1, <2>3 DEF next
    <3>3. SentWithin(r, next, budget, purse)
      BY <1>2, <3>1, <3>2
    <3> QED BY <3>1, <3>3 DEF SentWithin
  <2>4. CASE ~(want + f > purse \/ want + f > budget)
    <3>1. r = Sent(want, f)
      BY <2>1, <2>4
    <3> QED BY <1>2, <2>2, <2>4, <3>1 DEF Sent, SentWithin
  <2> QED BY <2>3, <2>4
<1> QED BY <1>1, <1>2

(* Whatever becomes of the attempts, a token and the fee for making it come *)
(* to no more than the budget, nor than what is held (send_within).         *)
LEMMA SendSound ==
    ASSUME SendAssumption, NEW most \in Nat, NEW budget \in Nat, NEW purse \in Nat,
           NEW r \in SendWithin(most, budget, purse)
    PROVE  SentWithin(r, most, budget, purse)
<1> DEFINE first == Least(most, budget)
           from == CHOOSE h : AreAttempts(h, budget, purse, first)
           S == {n \in 0..Tries : \A want \in 0..first : \A t \in from[n][want] :
                                     SentWithin(t, want, budget, purse)}
<1>1. first \in Nat /\ first <= most /\ Tries \in Nat
  BY DEF Least, SendAssumption
<1>2. r \in from[Tries][first]
  BY SendUnfold
<1>3. AreAttempts(from, budget, purse, first)
  <2> HIDE DEF first
  <2> QED BY AttemptsExist, Zenon
<1>4. \A n \in 0..Tries : from[n] = SendStep(from, n, budget, purse, first)
  <2> HIDE DEF from, first
  <2> QED BY <1>3 DEF AreAttempts
<1> HIDE DEF from, first
<1>5. ASSUME NEW n \in 0..Tries,
             n # 0 => \A want \in 0..first : \A t \in from[n - 1][want] :
                         SentWithin(t, want, budget, purse)
      PROVE  n \in S
  BY <1>1, <1>4, <1>5, StepWithin
<1>6. 0 \in S
  BY <1>1, <1>5
<1>7. ASSUME NEW n \in S, n < Tries PROVE n + 1 \in S
  <2>1. n + 1 \in 0..Tries /\ (n + 1) - 1 = n /\ n \in 0..Tries
    BY <1>1, <1>7
  <2>2. \A want \in 0..first : \A t \in from[n][want] : SentWithin(t, want, budget, purse)
    BY <1>7
  <2> HIDE DEF S
  <2> QED BY <1>5, <2>1, <2>2
<1>8. Tries \in S
  <2>1. S \in SUBSET (0..Tries)
    OBVIOUS
  <2> HIDE DEF S
  <2> QED BY <1>1, <1>6, <1>7, <2>1, AllCounts
<1>9. SentWithin(r, first, budget, purse)
  BY <1>1, <1>2, <1>8
<1> QED BY <1>1, <1>9 DEF SentWithin


-----------------------------------------------------------------------------
(* Sales *)

SaleRecord ==
    [at : Selling!Ended \cup Selling!Taken \cup {"asked", "priced"},
     token : Tokens \cup {Selling!Idle.token}, wanted : Nat, rate : Nat,
     credit : Nat, signed : BOOLEAN, back : Nat, fee : Nat]

SalesType ==
    /\ sale \in [Sales -> SaleRecord]
    /\ price \in Prices /\ ceiling \in Ceilings
    /\ cache.max \in Ceilings \cup {0}
    /\ worth \in [Tokens -> Values]
    /\ spent \subseteq Tokens
    /\ balance \in Nat

\* From when it is priced, a request's payment is its price; from when it is
\* deposited, its token is spent.
PaidFor(r, says, taken) ==
    /\ r.at # "idle" => r.token \in Tokens
    /\ r.at \in Selling!Taken \cup {"priced"} =>
          /\ r.rate > 0 /\ r.wanted > 0
          /\ Selling!PriceOf(r.wanted, r.rate) = says[r.token]
    /\ r.at \in Selling!Taken => r.token \in taken

\* What is signed is sold, and a refund comes out of what cleared.
Answered(r) ==
    /\ r.signed => r.at = "sold"
    /\ r.at = "refunded" => r.back + r.fee <= r.credit

SaleInv ==
    /\ SalesType /\ Selling!OncePerToken
    /\ \A s \in Sales : PaidFor(sale[s], worth, spent) /\ Answered(sale[s])

(* A division of whole numbers, as it bounds what is divided. *)
LEMMA Division ==
    ASSUME NEW n \in Nat, NEW r \in Nat, r > 0, NEW q, q = n \div r
    PROVE  q \in Nat /\ q * r <= n /\ n < q * r + r
OBVIOUS

(* A price is the whole of what it buys, and not a unit more. *)
LEMMA PriceIsFull ==
    ASSUME NEW wanted \in Nat, NEW rate \in Nat, rate > 0, wanted > 0,
           NEW paid, paid = Selling!PriceOf(wanted, rate)
    PROVE  paid * rate >= wanted /\ (paid - 1) * rate < wanted
<1>1. wanted + rate - 1 \in Nat /\ paid = (wanted + rate - 1) \div rate
  BY DEF Selling!PriceOf
<1>2. paid \in Nat /\ paid * rate <= wanted + rate - 1 /\ wanted + rate - 1 < paid * rate + rate
  BY <1>1, Division
<1> DEFINE cost == paid * rate
<1>3. cost \in Nat /\ (paid - 1) * rate = cost - rate
  BY <1>2
<1> HIDE DEF cost
<1>4. cost <= wanted + rate - 1 /\ wanted + rate - 1 < cost + rate
  BY <1>2 DEF cost
<1>5. cost >= wanted /\ cost - rate < wanted
  BY <1>3, <1>4
<1> QED BY <1>3, <1>5 DEF cost

(* The assumptions, in the form the steps use. *)
LEMMA MarketConstants ==
    /\ OwnMax \in Nat /\ Values \subseteq Nat /\ Wants \subseteq Nat /\ Prices \subseteq Nat
    /\ Ceilings \subseteq Nat
BY PartsAssumption DEF Selling!MarketAssumption

(* What the market hands back is made as the wallet makes any token. *)
LEMMA SameSend ==
    ASSUME NEW most, NEW budget, NEW held_
    PROVE  Selling!SendWithin(most, budget, held_) = SendWithin(most, budget, held_)
BY DEF Selling!SendWithin, SendWithin, Selling!Least, Least, Selling!Less, Less, Selling!Sent, Sent,
       Selling!NoToken, NoToken

(* One request moves on: what must hold of it for the rest to hold of all. *)
LEMMA SaleMoves ==
    ASSUME SaleInv, NEW s \in Sales, NEW r \in SaleRecord,
           sale' = [sale EXCEPT ![s] = r],
           UNCHANGED worth, spent \subseteq spent', spent' \subseteq Tokens,
           price' \in Prices, ceiling' \in Ceilings, cache'.max \in Ceilings \cup {0}, balance' \in Nat,
           PaidFor(r, worth, spent'), Answered(r),
           sale[s].at \in Selling!Taken => r.token = sale[s].token,
           r.at \in Selling!Taken /\ sale[s].at \notin Selling!Taken => r.token \notin spent
    PROVE  SaleInv'
<1>1. sale' \in [Sales -> SaleRecord] /\ sale'[s] = r
      /\ \A t \in Sales : t # s => sale'[t] = sale[t]
  BY DEF SaleInv, SalesType
<1>2. SalesType'
  BY <1>1 DEF SaleInv, SalesType
<1>3. ASSUME NEW t \in Sales PROVE PaidFor(sale'[t], worth', spent') /\ Answered(sale'[t])
  <2>1. CASE t = s
    BY <1>1, <2>1
  <2>2. CASE t # s
    BY <1>1, <2>2 DEF SaleInv, PaidFor
  <2> QED BY <2>1, <2>2
<1>4. Selling!OncePerToken'
  <2>1. SUFFICES ASSUME NEW t \in Sales, NEW u \in Sales, t # u, sale'[t].token = sale'[u].token,
                        sale'[t].at \in Selling!Taken, sale'[u].at \in Selling!Taken
                 PROVE  FALSE
    BY DEF Selling!OncePerToken
  <2>2. ASSUME NEW x \in Sales, x # s, sale[x].at \in Selling!Taken,
               r.at \in Selling!Taken, r.token = sale[x].token
        PROVE  FALSE
    <3>1. sale[x].token \in spent
      BY <2>2 DEF SaleInv, PaidFor
    <3>2. CASE sale[s].at \in Selling!Taken
      BY <2>2, <3>2 DEF SaleInv, Selling!OncePerToken
    <3>3. CASE sale[s].at \notin Selling!Taken
      BY <2>2, <3>1, <3>3
    <3> QED BY <3>2, <3>3
  <2>3. CASE t = s \/ u = s
    BY <1>1, <2>1, <2>2, <2>3
  <2>4. CASE t # s /\ u # s
    BY <1>1, <2>1, <2>4 DEF SaleInv, Selling!OncePerToken
  <2> QED BY <2>3, <2>4
<1> QED BY <1>2, <1>3, <1>4, Zenon DEF SaleInv

(* Nothing happens to the requests themselves. *)
LEMMA SalesStay ==
    ASSUME SaleInv, UNCHANGED <<sale, worth, spent>>,
           price' \in Prices, ceiling' \in Ceilings, cache'.max \in Ceilings \cup {0}, balance' \in Nat
    PROVE  SaleInv'
BY DEF SaleInv, SalesType, Selling!OncePerToken, PaidFor, Answered

(* A request moves on and stays what it was, but for where it is. *)
LEMMA MoveKeeps ==
    ASSUME SaleInv, NEW s \in Sales, NEW to, Selling!Move(s, to),
           UNCHANGED <<price, ceiling, cache, worth, spent, balance>>,
           \/ to = "refused" /\ sale[s].at \in {"asked", "priced"}
           \/ to \in {"quoted", "failed", "owed"} /\ sale[s].at \in {"paid", "quoted", "failed"}
    PROVE  SaleInv'
<1> DEFINE r == [sale[s] EXCEPT !.at = to]
<1>1. sale' = [sale EXCEPT ![s] = r]
  BY DEF Selling!Move
<1>2. sale[s] \in SaleRecord /\ PaidFor(sale[s], worth, spent) /\ Answered(sale[s])
  BY DEF SaleInv, SalesType
<1>3. /\ r \in SaleRecord /\ r.at = to /\ r.token = sale[s].token /\ r.wanted = sale[s].wanted
      /\ r.rate = sale[s].rate /\ r.signed = sale[s].signed
  BY <1>2 DEF SaleRecord, Selling!Ended, Selling!Taken
<1> HIDE DEF r
<1>4. PaidFor(r, worth, spent) /\ Answered(r)
  BY <1>2, <1>3 DEF PaidFor, Answered, Selling!Taken
<1>5. /\ sale[s].at \in Selling!Taken => r.token = sale[s].token
      /\ ~ (r.at \in Selling!Taken /\ sale[s].at \notin Selling!Taken)
  BY <1>3 DEF Selling!Taken
<1> QED BY <1>1, <1>3, <1>4, <1>5, SaleMoves DEF SaleInv, SalesType

(* A request arrives. *)
LEMMA AskKeeps ==
    ASSUME SaleInv, NEW s \in Sales, Selling!Ask(s)
    PROVE  SaleInv'
<1>1. PICK t \in Tokens, w \in Wants :
         sale' = [sale EXCEPT ![s].at = "asked", ![s].token = t, ![s].wanted = w]
  BY DEF Selling!Ask
<1> DEFINE r == [sale[s] EXCEPT !.at = "asked", !.token = t, !.wanted = w]
<1>2. sale' = [sale EXCEPT ![s] = r]
  BY <1>1
<1>3. sale[s] \in SaleRecord /\ sale[s].at = "idle" /\ Answered(sale[s])
  BY DEF SaleInv, SalesType, Selling!Ask
<1>4. r \in SaleRecord /\ r.at = "asked" /\ r.token = t /\ r.signed = sale[s].signed
  BY <1>3, MarketConstants DEF SaleRecord
<1> HIDE DEF r
<1>5. PaidFor(r, worth, spent) /\ Answered(r)
  BY <1>3, <1>4 DEF PaidFor, Answered, Selling!Taken
<1>6. sale[s].at \notin Selling!Taken /\ r.at \notin Selling!Taken
  BY <1>3, <1>4 DEF Selling!Taken
<1> QED BY <1>2, <1>4, <1>5, <1>6, SaleMoves DEF SaleInv, SalesType, Selling!Ask

(* The mint's ceiling is looked up, or cannot be. *)
LEMMA LookupKeeps ==
    ASSUME SaleInv, NEW s \in Sales, Selling!Lookup(s)
    PROVE  SaleInv'
<1>1. cache'.max \in Ceilings \cup {0}
  BY DEF Selling!Lookup, Selling!Looked, SaleInv, SalesType
<1> QED BY <1>1, SalesStay DEF Selling!Lookup, SaleInv, SalesType

(* The price is checked. *)
LEMMA CheckPriceKeeps ==
    ASSUME SaleInv, NEW s \in Sales, Selling!CheckPrice(s)
    PROVE  SaleInv'
<1> DEFINE paid == worth[sale[s].token]
           right == Selling!PricedPurchase(paid, price, Selling!MaxSale(cache.max), sale[s].wanted)
<1>1. /\ sale[s].at = "asked" /\ UNCHANGED <<price, ceiling, cache, worth, spent, balance>>
      /\ IF right THEN sale' = [sale EXCEPT ![s].at = "priced", ![s].rate = price]
         ELSE Selling!Move(s, "refused")
  BY DEF Selling!CheckPrice
<1>2. CASE right
  <2> DEFINE r == [sale[s] EXCEPT !.at = "priced", !.rate = price]
  <2>1. sale' = [sale EXCEPT ![s] = r]
    BY <1>1, <1>2
  <2>2. sale[s] \in SaleRecord /\ PaidFor(sale[s], worth, spent) /\ Answered(sale[s])
    BY DEF SaleInv, SalesType
  <2>3. price \in Nat
    BY MarketConstants DEF SaleInv, SalesType
  <2>4. /\ r \in SaleRecord /\ r.at = "priced" /\ r.token = sale[s].token /\ r.signed = sale[s].signed
        /\ r.rate = price /\ r.wanted = sale[s].wanted
    BY <2>2, <2>3 DEF SaleRecord
  <2> HIDE DEF r
  <2>5. price > 0 /\ sale[s].wanted > 0 /\ Selling!PriceOf(sale[s].wanted, price) = worth[sale[s].token]
    BY <1>2, <2>2, <2>3 DEF Selling!PricedPurchase
  <2>6. PaidFor(r, worth, spent) /\ Answered(r)
    BY <1>1, <2>2, <2>4, <2>5 DEF PaidFor, Answered, Selling!Taken
  <2>7. sale[s].at \notin Selling!Taken /\ r.at \notin Selling!Taken
    BY <1>1, <2>4 DEF Selling!Taken
  <2> QED BY <1>1, <2>1, <2>4, <2>6, <2>7, SaleMoves DEF SaleInv, SalesType
<1>3. CASE ~right
  BY <1>1, <1>3, MoveKeeps
<1> QED BY <1>2, <1>3

(* The payment is deposited: it has not been before. *)
LEMMA DepositKeeps ==
    ASSUME SaleInv, NEW s \in Sales, Selling!Deposit(s)
    PROVE  SaleInv'
<1> DEFINE t == sale[s].token
<1>0. sale[s].at = "priced" /\ UNCHANGED <<price, ceiling, cache, worth>>
  BY DEF Selling!Deposit
<1>1. CASE Selling!Move(s, "refused") /\ UNCHANGED <<spent, balance>>
  BY <1>0, <1>1, MoveKeeps
<1>2. CASE /\ t \notin spent /\ spent' = spent \cup {t}
           /\ \E f \in 0..Selling!Least(MaxFee, worth[t]) :
                 /\ balance' = balance + worth[t] - f
                 /\ sale' = [sale EXCEPT ![s].at = "paid", ![s].credit = worth[t] - f]
  <2>1. PICK f \in 0..Selling!Least(MaxFee, worth[t]) :
           /\ balance' = balance + worth[t] - f
           /\ sale' = [sale EXCEPT ![s].at = "paid", ![s].credit = worth[t] - f]
    BY <1>2
  <2> DEFINE r == [sale[s] EXCEPT !.at = "paid", !.credit = worth[t] - f]
  <2>2. sale' = [sale EXCEPT ![s] = r]
    BY <2>1
  <2>3. sale[s] \in SaleRecord /\ PaidFor(sale[s], worth, spent) /\ Answered(sale[s])
    BY DEF SaleInv, SalesType
  <2>4. t \in Tokens /\ worth[t] \in Nat /\ balance \in Nat
    BY <1>0, <2>3, MarketConstants DEF PaidFor, SaleInv, SalesType
  <2>5. worth[t] - f \in Nat /\ balance' \in Nat
    BY <2>1, <2>4, SendAssumption DEF Selling!Least, SendAssumption
  <2>6. /\ r \in SaleRecord /\ r.at = "paid" /\ r.token = t /\ r.signed = sale[s].signed
        /\ r.rate = sale[s].rate /\ r.wanted = sale[s].wanted
    BY <2>3, <2>5 DEF SaleRecord, Selling!Taken
  <2> HIDE DEF r
  <2>7. PaidFor(r, worth, spent') /\ Answered(r)
    BY <1>0, <1>2, <2>3, <2>6 DEF PaidFor, Answered
  <2>8. sale[s].at \notin Selling!Taken /\ r.token \notin spent
    BY <1>0, <1>2, <2>6 DEF Selling!Taken
  <2>9. spent \subseteq spent' /\ spent' \subseteq Tokens
    BY <1>2, <2>4 DEF SaleInv, SalesType
  <2> HIDE DEF t
  <2> QED BY <1>0, <2>2, <2>5, <2>6, <2>7, <2>8, <2>9, SaleMoves DEF SaleInv, SalesType
<1> QED BY <1>1, <1>2 DEF Selling!Deposit

(* A quote is asked for. *)
LEMMA QuoteKeeps ==
    ASSUME SaleInv, NEW s \in Sales, Selling!Quote(s)
    PROVE  SaleInv'
<1>1. sale[s].at = "paid" /\ UNCHANGED <<price, ceiling, cache, worth, spent, balance>>
  BY DEF Selling!Quote
<1>2. Selling!Move(s, "quoted") \/ Selling!Move(s, "failed")
  BY DEF Selling!Quote
<1> QED BY <1>1, <1>2, MoveKeeps

(* Minted against the quote: when no answer is lost, what is signed is sold. *)
LEMMA MintAgainstKeeps ==
    ASSUME ~LostAnswers, SaleInv, NEW s \in Sales, Selling!MintAgainst(s)
    PROVE  SaleInv'
<1>1. sale[s].at = "quoted" /\ UNCHANGED <<price, ceiling, cache, worth, spent, balance>>
  BY DEF Selling!MintAgainst
<1>2. CASE Selling!Move(s, "failed")
  BY <1>1, <1>2, MoveKeeps
<1>3. CASE sale' = [sale EXCEPT ![s].at = "sold", ![s].signed = TRUE]
  <2> DEFINE r == [sale[s] EXCEPT !.at = "sold", !.signed = TRUE]
  <2>1. sale' = [sale EXCEPT ![s] = r]
    BY <1>3
  <2>2. sale[s] \in SaleRecord /\ PaidFor(sale[s], worth, spent)
    BY DEF SaleInv, SalesType
  <2>3. /\ r \in SaleRecord /\ r.at = "sold" /\ r.token = sale[s].token
        /\ r.rate = sale[s].rate /\ r.wanted = sale[s].wanted
    BY <2>2 DEF SaleRecord, Selling!Ended
  <2> HIDE DEF r
  <2>4. PaidFor(r, worth, spent) /\ Answered(r)
    BY <1>1, <2>2, <2>3 DEF PaidFor, Answered, Selling!Taken
  <2>5. sale[s].at \in Selling!Taken
    BY <1>1 DEF Selling!Taken
  <2> QED BY <1>1, <2>1, <2>3, <2>4, <2>5, SaleMoves DEF SaleInv, SalesType
<1> QED BY <1>2, <1>3 DEF Selling!MintAgainst

(* The payment is handed back, out of what cleared. *)
LEMMA HandBackKeeps ==
    ASSUME SaleInv, NEW s \in Sales, Selling!HandBack(s)
    PROVE  SaleInv'
<1>1. sale[s].at = "failed" /\ UNCHANGED <<price, ceiling, cache, worth, spent>>
  BY DEF Selling!HandBack
<1>2. sale[s] \in SaleRecord /\ PaidFor(sale[s], worth, spent) /\ Answered(sale[s]) /\ balance \in Nat
  BY DEF SaleInv, SalesType
<1>3. PICK k \in SendWithin(sale[s].credit, sale[s].credit, balance) :
         IF k.ok
         THEN /\ sale' = [sale EXCEPT ![s].at = "refunded", ![s].back = k.worth, ![s].fee = k.fee]
              /\ balance' = balance - k.worth - k.fee
         ELSE Selling!Move(s, "owed") /\ UNCHANGED balance
  BY SameSend DEF Selling!HandBack
<1>4. sale[s].credit \in Nat
  BY <1>2 DEF SaleRecord
<1>5. SentWithin(k, sale[s].credit, sale[s].credit, balance)
  BY <1>2, <1>3, <1>4, SendSound, SendAssumption
<1>6. CASE k.ok
  <2>1. /\ k.worth \in Nat /\ k.fee \in Nat /\ k.worth + k.fee <= sale[s].credit
        /\ k.worth + k.fee <= balance
    BY <1>5, <1>6 DEF SentWithin
  <2> DEFINE r == [sale[s] EXCEPT !.at = "refunded", !.back = k.worth, !.fee = k.fee]
  <2>2. sale' = [sale EXCEPT ![s] = r]
    BY <1>3, <1>6
  <2>3. /\ r \in SaleRecord /\ r.at = "refunded" /\ r.token = sale[s].token
        /\ r.rate = sale[s].rate /\ r.wanted = sale[s].wanted /\ r.signed = sale[s].signed
        /\ r.back = k.worth /\ r.fee = k.fee /\ r.credit = sale[s].credit
    BY <1>2, <2>1 DEF SaleRecord, Selling!Ended
  <2> HIDE DEF r
  <2>4. PaidFor(r, worth, spent)
    BY <1>1, <1>2, <2>3 DEF PaidFor, Selling!Taken
  <2>5. Answered(r)
    BY <1>1, <1>2, <2>1, <2>3 DEF Answered
  <2>6. sale[s].at \in Selling!Taken
    BY <1>1 DEF Selling!Taken
  <2>7. balance' \in Nat
    BY <1>2, <1>3, <1>6, <2>1
  <2> QED BY <1>1, <2>2, <2>3, <2>4, <2>5, <2>6, <2>7, SaleMoves DEF SaleInv, SalesType
<1>7. CASE ~k.ok
  BY <1>1, <1>3, <1>7, MoveKeeps
<1> QED BY <1>6, <1>7

(* Every step of the market keeps it. *)
LEMMA SaleStep ==
    ASSUME ~LostAnswers, SaleInv, [Selling!Next]_(Selling!vars)
    PROVE  SaleInv'
<1>1. ASSUME NEW s \in Sales, Selling!Ask(s) \/ Selling!Handle(s)
      PROVE  SaleInv'
  BY <1>1, AskKeeps, LookupKeeps, CheckPriceKeeps, DepositKeeps, QuoteKeeps, MintAgainstKeeps,
     HandBackKeeps DEF Selling!Handle
<1>2. CASE Selling!Reprice \/ Selling!MintRestarts \/ Selling!CacheExpires
  BY <1>2, SalesStay
     DEF Selling!Reprice, Selling!MintRestarts, Selling!CacheExpires, Selling!None, SaleInv, SalesType
<1>3. CASE Selling!SpendElsewhere
  <2>1. balance' \in Nat
    BY <1>3 DEF Selling!SpendElsewhere, SaleInv, SalesType
  <2> QED BY <1>3, <2>1, SalesStay DEF Selling!SpendElsewhere, SaleInv, SalesType
<1>4. CASE UNCHANGED Selling!vars
  BY <1>4, SalesStay DEF Selling!vars, SaleInv, SalesType
<1> QED BY <1>1, <1>2, <1>3, <1>4 DEF Selling!Next

(* So it is when merchantd starts. *)
LEMMA SaleInit == Selling!Init => SaleInv
<1> SUFFICES ASSUME Selling!Init PROVE SaleInv
  OBVIOUS
<1>1. \A s \in Sales : sale[s] = Selling!Idle
  BY DEF Selling!Init
<1>2. Selling!Idle \in SaleRecord /\ Selling!Idle.at = "idle" /\ ~Selling!Idle.signed
  BY DEF Selling!Idle, SaleRecord, Selling!Ended
<1>3. sale \in [Sales -> SaleRecord]
  BY <1>1, <1>2 DEF Selling!Init
<1>4. SalesType
  BY <1>3, MarketConstants DEF SalesType, Selling!Init, Selling!None
<1> QED BY <1>1, <1>2, <1>4 DEF SaleInv, PaidFor, Answered, Selling!OncePerToken, Selling!Taken

(* What a sale promises. *)
LEMMA SalePromises ==
    ASSUME SaleInv
    PROVE  /\ Selling!TypeOK /\ Selling!PaidInFull /\ Selling!OncePerToken
           /\ Selling!RefundWithin /\ Selling!NeverBoth
<1>1. Selling!TypeOK
  BY DEF SaleInv, SalesType, SaleRecord, Selling!TypeOK
<1>2. Selling!PaidInFull
  <2> SUFFICES ASSUME NEW s \in Sales, sale[s].signed
               PROVE  /\ worth[sale[s].token] * sale[s].rate >= sale[s].wanted
                      /\ (worth[sale[s].token] - 1) * sale[s].rate < sale[s].wanted
    BY DEF Selling!PaidInFull
  <2>1. sale[s] \in SaleRecord /\ PaidFor(sale[s], worth, spent) /\ sale[s].at = "sold"
    BY DEF SaleInv, SalesType, Answered
  <2>2. sale[s].wanted \in Nat /\ sale[s].rate \in Nat
    BY <2>1 DEF SaleRecord
  <2>3. /\ sale[s].rate > 0 /\ sale[s].wanted > 0
        /\ Selling!PriceOf(sale[s].wanted, sale[s].rate) = worth[sale[s].token]
    BY <2>1 DEF PaidFor, Selling!Taken
  <2> QED BY <2>2, <2>3, PriceIsFull
<1>3. Selling!RefundWithin /\ Selling!NeverBoth
  BY DEF SaleInv, Answered, Selling!RefundWithin, Selling!NeverBoth
<1> QED BY <1>1, <1>2, <1>3 DEF SaleInv

(* What is signed was paid for in full, once; a refund costs nobody else;  *)
(* and nothing signed is refunded, when no answer of the mint is lost      *)
(* (swap, priced_purchase, send_within).                                   *)
THEOREM SalesAreSound ==
    ASSUME ~LostAnswers
    PROVE  MCSpec => []SaleSound
<1>1. MCInit => (of = "market" => SaleInv)
  BY SaleInit DEF MCInit
<1>2. (of = "market" => SaleInv) /\ [MCNext]_<<of, vars, marketVars, merchantVars>>
        => (of = "market" => SaleInv)'
  <2> SUFFICES ASSUME of = "market" => SaleInv, [MCNext]_<<of, vars, marketVars, merchantVars>>,
                      of' = "market"
               PROVE  SaleInv'
    OBVIOUS
  <2>1. of = "market" /\ [Selling!Next]_(Selling!vars)
    BY DEF MCNext, WalletNext, MarketNext, MerchantNext, marketVars, Selling!vars
  <2> QED BY <2>1, SaleStep
<1>3. (of = "market" => SaleInv) => SaleSound
  BY SalePromises DEF SaleSound
<1> QED BY <1>1, <1>2, <1>3, PTL DEF MCSpec

-----------------------------------------------------------------------------
(* The wallet's paper *)

FundRecord ==
    [at : {"idle", "mint", "spend", "funded", "failed"}, amount : Nat, short : Nat, token : Nat]

PartRecord ==
    [at : {"idle", "split", "done"}, in : Nat, left : Nat, spent : Nat, made : SUBSET Nat]

QuoteRecord ==
    [state : {"none", "unpaid", "paid", "issued"}, amount : Nat, reserved : BOOLEAN,
     by : {Nobody, "task"}, credited : {0, 1},
     task : {"ended", "waiting", "mint", "minting", "done"}]

\* A payment is either spent or left, to the last unit.
PartSound(p) == p.spent + p.left = p.in /\ \A w \in p.made : 0 < w /\ w <= Most

\* What was issued and not credited is still reserved, and in nobody's hands;
\* and a quote is in hand exactly while its task mints it.
QuoteSound(r) ==
    /\ r.credited = 1 => r.state = "issued"
    /\ r.state = "issued" /\ r.credited = 0 => r.reserved /\ r.by = Nobody
    /\ r.task = "minting" => r.reserved /\ r.by = "task"
    /\ r.by # Nobody => r.task = "minting"
    /\ r.task \in {"mint", "minting"} => r.state \in {"paid", "issued"}

MoneySound ==
    /\ held \in Nat /\ faults \in Nat /\ spare \in Allowances
    /\ fund \in [Funds -> FundRecord]
    /\ part \in [Splits -> PartRecord] /\ \A k \in Splits : PartSound(part[k])

QuotesSound ==
    /\ quote \in [Quotes -> QuoteRecord]
    /\ \A q \in Quotes : QuoteSound(quote[q])

\* What a claim has to get is in, in its task's hands, or still listed, paid
\* for and free to be claimed.
StillDue(r, listed) ==
    /\ r.state \in {"paid", "issued"}
    /\ \/ r.credited = 1 \/ r.task = "minting"
       \/ listed /\ r.state = "paid" /\ ~r.reserved

ClaimSound ==
    /\ claim \in [on : BOOLEAN, todo : SUBSET Quotes, due : SUBSET Quotes, since : Nat]
    /\ claim.since <= faults
    /\ claim.on /\ faults = claim.since => \A q \in claim.due : StillDue(quote[q], q \in claim.todo)

PaperInv == MoneySound /\ QuotesSound /\ ClaimSound

(* The assumption, in the form the steps use. *)
LEMMA WalletConstants ==
    /\ IsFiniteSet(Quotes) /\ Nobody # "task"
    /\ Ceiling \in Nat /\ Most \in Nat /\ Amounts \subseteq Nat /\ MaxFee \in Nat
    /\ \A a \in Allowances : a.funds \subseteq Funds /\ a.splits \subseteq Splits /\ a.quotes \subseteq Quotes
<1>1. Allowances \subseteq Allowance
  BY WalletAssumption
<1>2. \A a \in Allowances : a.funds \subseteq Funds /\ a.splits \subseteq Splits /\ a.quotes \subseteq Quotes
  BY <1>1 DEF Allowance
<1> QED BY <1>2, WalletAssumption, SendAssumption DEF SendAssumption

(* The quotes stay, and so does the claim; a call may have failed. *)
LEMMA ClaimStays ==
    ASSUME PaperInv, UNCHANGED claim, faults' \in {faults, faults + 1},
           faults' = faults => \A q \in Quotes : \A listed \in BOOLEAN :
                                  StillDue(quote[q], listed) => StillDue(quote'[q], listed)
    PROVE  ClaimSound'
<1>1. faults \in Nat /\ claim.since \in Nat /\ claim.since <= faults
  BY DEF PaperInv, MoneySound, ClaimSound
<1>2. claim'.since <= faults'
  BY <1>1
<1>3. faults' = claim'.since => faults' = faults
  BY <1>1
<1>4. ASSUME claim'.on, faults' = claim'.since, NEW q \in claim'.due
      PROVE  StillDue(quote'[q], q \in claim'.todo)
  <2>1. q \in Quotes /\ StillDue(quote[q], q \in claim.todo)
    BY <1>3, <1>4 DEF PaperInv, ClaimSound
  <2> DEFINE listed == q \in claim.todo
  <2>2. listed \in BOOLEAN
    OBVIOUS
  <2>3. StillDue(quote'[q], listed)
    <3> HIDE DEF listed
    <3>1. StillDue(quote[q], listed)
      BY <2>1 DEF listed
    <3> QED BY <1>3, <1>4, <2>1, <2>2, <3>1
  <2> QED BY <2>3
<1> QED BY <1>2, <1>4 DEF PaperInv, ClaimSound

(* Nothing happens to the quotes. *)
LEMMA QuotesStay ==
    ASSUME PaperInv, UNCHANGED <<quote, claim>>, faults' \in {faults, faults + 1}
    PROVE  QuotesSound' /\ ClaimSound'
<1>1. ClaimSound'
  BY ClaimStays
<1> QED BY <1>1 DEF PaperInv, QuotesSound

(* A channel is funded, the shortfall minted first. *)
LEMMA FundKeeps ==
    ASSUME PaperInv, UNCHANGED spare, NEW f \in Funds,
           StartFund(f) \/ IssueSome(f) \/ Spend(f)
    PROVE  PaperInv'
<1>1. UNCHANGED <<part, quote, claim>> /\ faults' \in {faults, faults + 1}
  BY DEF StartFund, IssueSome, Spend, Fault
<1>2. fund[f] \in FundRecord /\ held \in Nat /\ fund \in [Funds -> FundRecord]
  BY DEF PaperInv, MoneySound
<1>3. CASE StartFund(f)
  <2>1. PICK n \in Amounts :
           fund' = [fund EXCEPT ![f] = [at |-> IF n > held THEN "mint" ELSE "spend",
                                        amount |-> n, short |-> Less(n, held), token |-> 0]]
    BY <1>3 DEF StartFund
  <2>2. n \in Nat /\ Less(n, held) \in Nat
    BY <1>2, WalletConstants DEF Less
  <2>3. fund' \in [Funds -> FundRecord] /\ held' = held
    BY <1>2, <1>3, <2>1, <2>2 DEF FundRecord, StartFund
  <2> QED BY <1>1, <1>2, <2>3, QuotesStay DEF PaperInv, MoneySound
<1>4. CASE IssueSome(f)
  <2> DEFINE ask == Least(fund[f].short, Ceiling)
  <2>1. ask \in Nat /\ fund[f].short - ask \in Nat
    BY <1>2, WalletConstants DEF Least, FundRecord
  <2>2. \/ /\ held' = held + ask
           /\ fund' = [fund EXCEPT ![f].short = @ - ask,
                                   ![f].at = IF fund[f].short = ask THEN "spend" ELSE "mint"]
        \/ /\ held' = held
           /\ fund' = [fund EXCEPT ![f].at = "failed"]
    BY <1>4 DEF IssueSome
  <2> HIDE DEF ask
  <2>3. fund' \in [Funds -> FundRecord] /\ held' \in Nat
    BY <1>2, <2>1, <2>2 DEF FundRecord
  <2> QED BY <1>1, <2>3, QuotesStay DEF PaperInv, MoneySound
<1>5. CASE Spend(f)
  <2>1. \/ \E fee \in 0..MaxFee :
              /\ fund[f].amount + fee <= held
              /\ held' = held - fund[f].amount - fee
              /\ fund' = [fund EXCEPT ![f].at = "funded", ![f].token = fund[f].amount]
        \/ held' = held /\ fund' = [fund EXCEPT ![f].at = "failed"]
    BY <1>5 DEF Spend
  <2>2. fund[f].amount \in Nat
    BY <1>2 DEF FundRecord
  <2>3. held' \in Nat
    BY <1>2, <2>1, <2>2, WalletConstants
  <2>4. fund' \in [Funds -> FundRecord]
    BY <1>2, <2>1, <2>2 DEF FundRecord
  <2> QED BY <1>1, <2>3, <2>4, QuotesStay DEF PaperInv, MoneySound
<1> QED BY <1>3, <1>4, <1>5

(* A payment comes in to be split. *)
LEMMA StartSplitKeeps ==
    ASSUME PaperInv, UNCHANGED spare, NEW k \in Splits, StartSplit(k)
    PROVE  PaperInv'
<1>1. UNCHANGED <<fund, quote, claim, faults>>
  BY DEF StartSplit
<1>2. part \in [Splits -> PartRecord] /\ held \in Nat
  BY DEF PaperInv, MoneySound
<1>3. PICK n \in Amounts, fee \in 0..MaxFee :
         /\ fee < n
         /\ held' = held + n - fee
         /\ part' = [part EXCEPT ![k] = [at |-> "split", in |-> n - fee, left |-> Brought(n - fee),
                                         spent |-> 0, made |-> {}]]
  BY DEF StartSplit
<1> DEFINE p == [at |-> "split", in |-> n - fee, left |-> Brought(n - fee), spent |-> 0, made |-> {}]
<1>4. n - fee \in Nat /\ held' \in Nat
  BY <1>2, <1>3, WalletConstants
<1>5. p \in PartRecord /\ PartSound(p)
  BY <1>4 DEF PartRecord, PartSound, Brought
<1>6. part' = [part EXCEPT ![k] = p]
  BY <1>3
<1> HIDE DEF p
<1>7. part' \in [Splits -> PartRecord] /\ \A j \in Splits : PartSound(part'[j])
  BY <1>2, <1>5, <1>6 DEF PaperInv, MoneySound
<1> QED BY <1>1, <1>4, <1>7, QuotesStay DEF PaperInv, MoneySound

(* A part is split off, out of what is left. *)
LEMMA MakePartKeeps ==
    ASSUME PaperInv, UNCHANGED spare, NEW k \in Splits, MakePart(k)
    PROVE  PaperInv'
<1>1. UNCHANGED <<fund, quote, claim, faults>>
  BY DEF MakePart
<1>2. /\ part \in [Splits -> PartRecord] /\ held \in Nat
      /\ part[k] \in PartRecord /\ PartSound(part[k])
  BY DEF PaperInv, MoneySound
<1>3. CASE part' = [part EXCEPT ![k].at = "done"] /\ held' = held
  <2> DEFINE p == [part[k] EXCEPT !.at = "done"]
  <2>1. p \in PartRecord /\ PartSound(p) /\ part' = [part EXCEPT ![k] = p]
    BY <1>2, <1>3 DEF PartRecord, PartSound
  <2> HIDE DEF p
  <2>2. part' \in [Splits -> PartRecord] /\ \A j \in Splits : PartSound(part'[j])
    BY <1>2, <2>1 DEF PaperInv, MoneySound
  <2> QED BY <1>1, <1>2, <1>3, <2>2, QuotesStay DEF PaperInv, MoneySound
<1>4. CASE ~ (part' = [part EXCEPT ![k].at = "done"] /\ held' = held)
  <2>1. PICK t \in SendWithin(Least(part[k].left, Most), part[k].left, held) :
           /\ t.ok
           /\ held' = held - t.worth - t.fee
           /\ part' = [part EXCEPT ![k].left = @ - t.worth - t.fee, ![k].made = @ \cup {t.worth},
                                   ![k].spent = @ + t.worth + t.fee]
    BY <1>4 DEF MakePart
  <2>2. /\ part[k].left \in Nat /\ part[k].spent \in Nat /\ part[k].made \in SUBSET Nat
        /\ Least(part[k].left, Most) \in Nat /\ Least(part[k].left, Most) <= Most
    BY <1>2, WalletConstants DEF PartRecord, Least
  <2>3. SentWithin(t, Least(part[k].left, Most), part[k].left, held)
    BY <1>2, <2>1, <2>2, SendSound, SendAssumption
  <2>4. /\ t.worth \in Nat /\ t.fee \in Nat /\ 0 < t.worth /\ t.worth <= Most
        /\ t.worth + t.fee <= part[k].left /\ t.worth + t.fee <= held
    BY <2>1, <2>2, <2>3, WalletConstants DEF SentWithin
  <2> DEFINE p == [part[k] EXCEPT !.left = part[k].left - t.worth - t.fee,
                                  !.made = part[k].made \cup {t.worth},
                                  !.spent = part[k].spent + t.worth + t.fee]
  <2>5. part' = [part EXCEPT ![k] = p]
    BY <1>2, <2>1
  <2>6. /\ p.left = part[k].left - t.worth - t.fee /\ p.spent = part[k].spent + t.worth + t.fee
        /\ p.made = part[k].made \cup {t.worth} /\ p.in = part[k].in
    BY <1>2 DEF PartRecord
  <2>7. p \in PartRecord
    <3> DEFINE left == part[k].left - t.worth - t.fee
               made == part[k].made \cup {t.worth}
               all == part[k].spent + t.worth + t.fee
    <3>1. left \in Nat /\ all \in Nat
      BY <2>2, <2>4
    <3>2. made \in SUBSET Nat
      BY <2>2, <2>4
    <3>3. p = [part[k] EXCEPT !.left = left, !.made = made, !.spent = all]
      OBVIOUS
    <3> HIDE DEF p, left, made, all
    <3> QED BY <1>2, <3>1, <3>2, <3>3 DEF PartRecord
  <2> HIDE DEF p
  <2>8. p.spent + p.left = p.in
    BY <1>2, <2>2, <2>4, <2>6 DEF PartSound, PartRecord
  <2>9. PartSound(p)
    BY <1>2, <2>4, <2>6, <2>8 DEF PartSound
  <2>10. part' \in [Splits -> PartRecord] /\ \A j \in Splits : PartSound(part'[j])
    BY <1>2, <2>5, <2>7, <2>9 DEF PaperInv, MoneySound
  <2>11. held' \in Nat
    BY <1>2, <2>1, <2>4
  <2> QED BY <1>1, <2>10, <2>11, QuotesStay DEF PaperInv, MoneySound
<1> QED BY <1>3, <1>4

(* Only quotes change; what one of them is now is r. *)
LEMMA QuoteMoves ==
    ASSUME PaperInv, NEW q \in Quotes, NEW r \in QuoteRecord, QuoteSound(r),
           quote' = [quote EXCEPT ![q] = r],
           UNCHANGED <<fund, part, claim, spare>>, held' \in Nat, faults' \in {faults, faults + 1},
           faults' = faults => \A listed \in BOOLEAN :
                                  StillDue(quote[q], listed) => StillDue(r, listed)
    PROVE  PaperInv'
<1>1. quote' \in [Quotes -> QuoteRecord] /\ \A p \in Quotes : quote'[p] = IF p = q THEN r ELSE quote[p]
  BY DEF PaperInv, QuotesSound
<1>2. QuotesSound'
  BY <1>1 DEF PaperInv, QuotesSound
<1>3. faults' = faults => \A p \in Quotes : \A listed \in BOOLEAN :
                             StillDue(quote[p], listed) => StillDue(quote'[p], listed)
  BY <1>1
<1>4. ClaimSound'
  BY <1>3, ClaimStays
<1>5. MoneySound'
  BY DEF PaperInv, MoneySound
<1> QED BY <1>2, <1>4, <1>5 DEF PaperInv

(* A top-up is asked for, paid, looked at, or given up. *)
LEMMA TopUpKeeps ==
    ASSUME PaperInv, UNCHANGED spare, NEW q \in Quotes,
           TopUp(q) \/ Pay(q) \/ Check(q) \/ GiveUp(q)
    PROVE  PaperInv'
<1>1. quote[q] \in QuoteRecord /\ QuoteSound(quote[q]) /\ held \in Nat
  BY DEF PaperInv, QuotesSound, MoneySound
<1>2. UNCHANGED <<held, fund, part, claim>> /\ faults' \in {faults, faults + 1}
  BY DEF TopUp, Pay, Check, GiveUp, Fault
<1>3. CASE TopUp(q)
  <2>1. PICK n \in Amounts :
           quote' = [quote EXCEPT ![q].state = "unpaid", ![q].amount = n, ![q].task = "waiting"]
    BY <1>3 DEF TopUp
  <2> DEFINE r == [quote[q] EXCEPT !.state = "unpaid", !.amount = n, !.task = "waiting"]
  <2>2. quote' = [quote EXCEPT ![q] = r]
    BY <2>1
  <2>3. quote[q].state = "none"
    BY <1>3 DEF TopUp
  <2>4. /\ r \in QuoteRecord /\ r.state = "unpaid" /\ r.task = "waiting"
        /\ r.credited = quote[q].credited /\ r.reserved = quote[q].reserved /\ r.by = quote[q].by
    BY <1>1, WalletConstants DEF QuoteRecord
  <2> HIDE DEF r
  <2>5. QuoteSound(r) /\ \A listed \in BOOLEAN : StillDue(quote[q], listed) => StillDue(r, listed)
    BY <1>1, <2>3, <2>4 DEF QuoteSound, StillDue
  <2> QED BY <1>1, <1>2, <2>2, <2>4, <2>5, QuoteMoves
<1>4. CASE Pay(q)
  <2>1. PICK n \in 1..quote[q].amount :
           quote' = [quote EXCEPT ![q].state = "paid", ![q].amount = n]
    BY <1>4 DEF Pay
  <2> DEFINE r == [quote[q] EXCEPT !.state = "paid", !.amount = n]
  <2>2. quote' = [quote EXCEPT ![q] = r] /\ quote[q].state = "unpaid"
    BY <1>4, <2>1 DEF Pay
  <2>3. n \in Nat
    BY <1>1 DEF QuoteRecord
  <2>4. /\ r \in QuoteRecord /\ r.state = "paid" /\ r.task = quote[q].task
        /\ r.credited = quote[q].credited /\ r.reserved = quote[q].reserved /\ r.by = quote[q].by
    BY <1>1, <2>3 DEF QuoteRecord
  <2> HIDE DEF r
  <2>5. QuoteSound(r) /\ \A listed \in BOOLEAN : StillDue(quote[q], listed) => StillDue(r, listed)
    BY <1>1, <2>2, <2>4 DEF QuoteSound, StillDue
  <2> QED BY <1>1, <1>2, <2>2, <2>4, <2>5, QuoteMoves
<1>5. CASE Check(q) \/ GiveUp(q)
  <2>1. PICK to \in {"mint", "ended"} :
           /\ quote' = [quote EXCEPT ![q].task = to] /\ quote[q].task = "waiting"
           /\ to = "mint" => quote[q].state = "paid"
    BY <1>5 DEF Check, GiveUp
  <2> DEFINE r == [quote[q] EXCEPT !.task = to]
  <2>2. quote' = [quote EXCEPT ![q] = r]
    BY <2>1
  <2>3. /\ r \in QuoteRecord /\ r.state = quote[q].state /\ r.task = to
        /\ r.credited = quote[q].credited /\ r.reserved = quote[q].reserved /\ r.by = quote[q].by
    BY <1>1 DEF QuoteRecord
  <2> HIDE DEF r
  <2>4. QuoteSound(r) /\ \A listed \in BOOLEAN : StillDue(quote[q], listed) => StillDue(r, listed)
    BY <1>1, <2>1, <2>3 DEF QuoteSound, StillDue
  <2> QED BY <1>1, <1>2, <2>2, <2>3, <2>4, QuoteMoves
<1> QED BY <1>3, <1>4, <1>5

(* Recovering: what was issued is credited, the rest is let go, and what a  *)
(* task has in hand stays with it.                                          *)
LEMMA RecoveredSound ==
    ASSUME QuotesSound, NEW r, r = Recovered(quote)
    PROVE  /\ r \in [Quotes -> QuoteRecord]
           /\ \A q \in Quotes :
                 /\ QuoteSound(r[q]) /\ (r[q].reserved => r[q].by # Nobody)
                 /\ r[q].state = quote[q].state /\ r[q].task = quote[q].task
                 /\ quote[q].credited = 1 => r[q].credited = 1
                 /\ r[q].reserved => quote[q].reserved
<1>1. ASSUME NEW q \in Quotes
      PROVE  /\ r[q] \in QuoteRecord
             /\ QuoteSound(r[q]) /\ (r[q].reserved => r[q].by # Nobody)
             /\ r[q].state = quote[q].state /\ r[q].task = quote[q].task
             /\ quote[q].credited = 1 => r[q].credited = 1
             /\ r[q].reserved => quote[q].reserved
  <2>1. quote[q] \in QuoteRecord /\ QuoteSound(quote[q])
    BY DEF QuotesSound
  <2>2. CASE ~quote[q].reserved \/ quote[q].by # Nobody
    <3>1. r[q] = quote[q]
      BY <2>2 DEF Recovered
    <3> QED BY <2>1, <2>2, <3>1
  <2>3. CASE quote[q].reserved /\ quote[q].by = Nobody
    <3> DEFINE c == IF quote[q].state = "issued" THEN 1 ELSE quote[q].credited
    <3>1. r[q] = [quote[q] EXCEPT !.reserved = FALSE, !.by = Nobody, !.credited = c]
      BY <2>1, <2>3 DEF Recovered
    <3>2. c \in {0, 1} /\ (quote[q].credited = 1 => c = 1) /\ (c = 1 <=> quote[q].state = "issued")
      <4>1. quote[q].credited \in {0, 1} /\ (quote[q].credited = 1 => quote[q].state = "issued")
        BY <2>1 DEF QuoteRecord, QuoteSound
      <4> QED BY <4>1
    <3> HIDE DEF c
    <3>3. /\ r[q] \in QuoteRecord /\ r[q].state = quote[q].state /\ r[q].task = quote[q].task
          /\ r[q].credited = c /\ r[q].reserved = FALSE /\ r[q].by = Nobody
      BY <2>1, <3>1, <3>2 DEF QuoteRecord
    <3> QED BY <2>1, <2>3, <3>2, <3>3, WalletConstants DEF QuoteSound
  <2> QED BY <2>2, <2>3 DEF QuoteRecord
<1>2. r = [q \in Quotes |-> r[q]]
  BY DEF Recovered
<1> QED BY <1>1, <1>2

(* What recovering brings in is an amount. *)
LEMMA GainedType ==
    ASSUME QuotesSound
    PROVE  Gained \in Nat
<1> DEFINE amounts == [q \in Quotes |-> quote[q].amount]
           due == {q \in Quotes : Recovered(quote)[q].credited > quote[q].credited}
<1>1. amounts \in [Quotes -> Nat]
  BY DEF QuotesSound, QuoteRecord
<1>2. due \in SUBSET Quotes /\ IsFiniteSet(due)
  <2>1. due \in SUBSET Quotes
    OBVIOUS
  <2> HIDE DEF due
  <2> QED BY <2>1, WalletConstants, FS_Subset
<1>3. Gained = SumOver(amounts, due)
  BY DEF Gained
<1> HIDE DEF amounts, due
<1> QED BY <1>1, <1>2, <1>3, SumType

(* A task starts to mint its quote. *)
LEMMA CollectStartKeeps ==
    ASSUME PaperInv, UNCHANGED spare, NEW q \in Quotes, CollectStart(q)
    PROVE  PaperInv'
<1>1. UNCHANGED <<fund, part, claim, faults>> /\ quote[q].task = "mint"
  BY DEF CollectStart
<1>2. PICK all : /\ \/ all = quote /\ ~quote[q].reserved
                    \/ all = Recovered(quote)
                 /\ quote' = [all EXCEPT ![q].reserved = TRUE, ![q].by = "task", ![q].task = "minting"]
                 /\ held' = held \/ held' = held + Gained
  BY DEF CollectStart
<1>3. QuotesSound /\ held \in Nat
  BY DEF PaperInv, MoneySound
<1>4. held' \in Nat
  BY <1>2, <1>3, GainedType
<1>5. /\ all \in [Quotes -> QuoteRecord]
      /\ \A p \in Quotes :
            /\ QuoteSound(all[p])
            /\ all[p].state = quote[p].state /\ all[p].task = quote[p].task
            /\ quote[p].credited = 1 => all[p].credited = 1
            /\ all[p].reserved => quote[p].reserved
      /\ all[q].reserved => all[q].by # Nobody
  <2>1. CASE all = quote /\ ~quote[q].reserved
    BY <1>3, <2>1 DEF QuotesSound
  <2>2. CASE all = Recovered(quote)
    BY <1>3, <2>2, RecoveredSound
  <2> QED BY <1>2, <2>1, <2>2
<1> DEFINE r == [all[q] EXCEPT !.reserved = TRUE, !.by = "task", !.task = "minting"]
<1>6. quote' = [all EXCEPT ![q] = r]
  BY <1>2
<1>7. /\ r \in QuoteRecord /\ r.state = all[q].state /\ r.task = "minting"
      /\ r.credited = all[q].credited /\ r.reserved = TRUE /\ r.by = "task"
  BY <1>5 DEF QuoteRecord
<1> HIDE DEF r
<1>8. QuoteSound(r)
  <2>1. all[q].task = "mint" /\ all[q] \in QuoteRecord
    BY <1>1, <1>5
  <2>2. all[q].by = Nobody /\ ~all[q].reserved /\ all[q].state \in {"paid", "issued"}
    BY <1>5, <2>1 DEF QuoteSound, QuoteRecord
  <2> QED BY <1>5, <1>7, <2>1, <2>2, WalletConstants DEF QuoteSound, QuoteRecord
<1>9. /\ quote' \in [Quotes -> QuoteRecord]
      /\ \A p \in Quotes : quote'[p] = IF p = q THEN r ELSE all[p]
  BY <1>5, <1>6, <1>7
<1>10. QuotesSound'
  BY <1>5, <1>8, <1>9 DEF QuotesSound
<1>11. ASSUME NEW p \in Quotes, NEW listed \in BOOLEAN, StillDue(quote[p], listed)
       PROVE  StillDue(quote'[p], listed)
  <2>1. all[p].reserved => quote[p].reserved
    BY <1>5
  <2>2. CASE p = q
    BY <1>5, <1>7, <1>9, <1>11, <2>2 DEF StillDue
  <2>3. CASE p # q
    BY <1>5, <1>9, <1>11, <2>1, <2>3 DEF StillDue
  <2> QED BY <2>2, <2>3
<1>12. ClaimSound'
  BY <1>1, <1>11, ClaimStays
<1>13. MoneySound'
  BY <1>1, <1>4 DEF PaperInv, MoneySound
<1> QED BY <1>10, <1>12, <1>13 DEF PaperInv

(* The mint answers: the quote is credited, or a call failed, or there was  *)
(* nothing to mint and it stays as it is.                                   *)
LEMMA MintedSound ==
    ASSUME PaperInv, NEW q \in Quotes, NEW who \in {"task", "claim"}, NEW b \in QuoteRecord,
           b.state = quote[q].state, b.credited = quote[q].credited, b.reserved,
           b.task \in {"ended", "waiting", "mint", "done"},
           b.task = "mint" => b.state \in {"paid", "issued"},
           b.state = "issued" => b.credited = 1,
           Minted(q, who, [quote EXCEPT ![q] = b])
    PROVE  \E r \in QuoteRecord :
              /\ QuoteSound(r) /\ quote' = [quote EXCEPT ![q] = r]
              /\ held' \in Nat /\ faults' \in {faults, faults + 1}
              /\ faults' = faults => /\ b.state = "paid" => r.credited = 1
                                     /\ b.credited = 1 => r.credited = 1
              /\ b.state \in {"paid", "issued"} => r.state \in {"paid", "issued"}
<1>1. quote[q] \in QuoteRecord /\ QuoteSound(quote[q]) /\ held \in Nat /\ faults \in Nat
      /\ quote \in [Quotes -> QuoteRecord]
  BY DEF PaperInv, QuotesSound, MoneySound
<1>2. b.credited = 1 => b.state = "issued"
  BY <1>1 DEF QuoteSound
<1>3. b.credited \in {0, 1}
  BY DEF QuoteRecord
<1>4. CASE /\ quote[q].state = "paid"
           /\ quote' = [[quote EXCEPT ![q] = b] EXCEPT ![q].state = "issued", ![q].reserved = FALSE,
                           ![q].by = Nobody, ![q].credited = @ + 1,
                           ![q].task = IF who = "task" THEN "done" ELSE @]
           /\ Credit(q) /\ UNCHANGED faults
  <2> DEFINE to == IF who = "task" THEN "done" ELSE b.task
             r == [b EXCEPT !.state = "issued", !.reserved = FALSE, !.by = Nobody, !.credited = 1,
                            !.task = to]
  <2>1. b.credited = 0 /\ b.credited + 1 = 1
    BY <1>2, <1>3, <1>4
  <2>2. quote' = [quote EXCEPT ![q] = r]
    BY <1>1, <1>4, <2>1
  <2>3. to \in {"ended", "waiting", "mint", "done"}
    OBVIOUS
  <2> HIDE DEF to
  <2>4. /\ r \in QuoteRecord /\ r.state = "issued" /\ r.task = to /\ r.credited = 1 /\ r.by = Nobody
    BY <2>3 DEF QuoteRecord
  <2> HIDE DEF r
  <2>5. QuoteSound(r)
    BY <2>3, <2>4 DEF QuoteSound
  <2>6. held' \in Nat
    BY <1>1, <1>4 DEF Credit, QuoteRecord
  <2> QED BY <1>4, <2>2, <2>4, <2>5, <2>6
<1>5. CASE /\ quote[q].state = "paid" /\ Fault
           /\ \E s \in {"paid", "issued"} :
                 quote' = [[quote EXCEPT ![q] = b] EXCEPT ![q].state = s, ![q].by = Nobody]
           /\ UNCHANGED held
  <2>1. PICK s \in {"paid", "issued"} :
           quote' = [[quote EXCEPT ![q] = b] EXCEPT ![q].state = s, ![q].by = Nobody]
    BY <1>5
  <2> DEFINE r == [b EXCEPT !.state = s, !.by = Nobody]
  <2>2. quote' = [quote EXCEPT ![q] = r]
    BY <1>1, <2>1
  <2>3. /\ r \in QuoteRecord /\ r.state = s /\ r.task = b.task /\ r.credited = b.credited
        /\ r.by = Nobody /\ r.reserved = b.reserved
    BY DEF QuoteRecord
  <2> HIDE DEF r
  <2>4. b.credited # 1
    BY <1>2, <1>5
  <2>5. QuoteSound(r)
    BY <1>3, <1>5, <2>3, <2>4 DEF QuoteSound
  <2>6. faults' = faults + 1 /\ faults' # faults
    BY <1>1, <1>5 DEF Fault
  <2> QED BY <1>1, <1>5, <2>2, <2>3, <2>5, <2>6
<1>6. CASE /\ quote[q].state # "paid"
           /\ quote' = [[quote EXCEPT ![q] = b] EXCEPT ![q].by = Nobody]
           /\ UNCHANGED <<held, faults>>
  <2> DEFINE r == [b EXCEPT !.by = Nobody]
  <2>1. quote' = [quote EXCEPT ![q] = r]
    BY <1>1, <1>6
  <2>2. /\ r \in QuoteRecord /\ r.state = b.state /\ r.task = b.task /\ r.credited = b.credited
        /\ r.by = Nobody /\ r.reserved = b.reserved
    BY DEF QuoteRecord
  <2> HIDE DEF r
  <2>3. QuoteSound(r)
    BY <1>2, <2>2 DEF QuoteSound
  <2> QED BY <1>1, <1>6, <2>1, <2>2, <2>3
<1> QED BY <1>4, <1>5, <1>6 DEF Minted

(* A task has minted its quote, or has not. *)
LEMMA CollectEndKeeps ==
    ASSUME PaperInv, UNCHANGED spare, NEW q \in Quotes, CollectEnd(q)
    PROVE  PaperInv'
<1>1. UNCHANGED <<fund, part, claim>> /\ quote[q].task = "minting"
  BY DEF CollectEnd
<1>2. quote[q] \in QuoteRecord /\ QuoteSound(quote[q])
  BY DEF PaperInv, QuotesSound
<1> DEFINE b == [quote[q] EXCEPT !.task = "waiting"]
<1>3. Minted(q, "task", [quote EXCEPT ![q] = b])
  <2>1. [quote EXCEPT ![q].task = "waiting"] = [quote EXCEPT ![q] = b]
    OBVIOUS
  <2> QED BY <2>1, Zenon DEF CollectEnd
<1>4. /\ b \in QuoteRecord /\ b.state = quote[q].state /\ b.credited = quote[q].credited
      /\ b.reserved = quote[q].reserved /\ b.task = "waiting"
  BY <1>2 DEF QuoteRecord
<1> HIDE DEF b
<1>5. b.reserved /\ b.state \in {"paid", "issued"} /\ (b.state = "issued" => b.credited = 1)
  BY <1>1, <1>2, <1>4, WalletConstants DEF QuoteSound, QuoteRecord
<1>6. PICK r \in QuoteRecord :
         /\ QuoteSound(r) /\ quote' = [quote EXCEPT ![q] = r]
         /\ held' \in Nat /\ faults' \in {faults, faults + 1}
         /\ faults' = faults => /\ b.state = "paid" => r.credited = 1
                                /\ b.credited = 1 => r.credited = 1
         /\ b.state \in {"paid", "issued"} => r.state \in {"paid", "issued"}
  <2>1. b.task \in {"ended", "waiting", "mint", "done"} /\ b.task # "mint" /\ "task" \in {"task", "claim"}
    BY <1>4
  <2> QED BY <1>3, <1>4, <1>5, <2>1, MintedSound, Zenon
<1>7. faults' = faults => r.credited = 1 /\ r.state \in {"paid", "issued"}
  BY <1>5, <1>6
<1> QED BY <1>1, <1>6, <1>7, QuoteMoves DEF StillDue

(* A claim takes the next quote on its list. *)
LEMMA ClaimOneKeeps ==
    ASSUME PaperInv, UNCHANGED spare, NEW q \in Quotes, ClaimOne(q)
    PROVE  PaperInv'
<1>1. /\ UNCHANGED <<fund, part>> /\ claim.on /\ q \in claim.todo
      /\ claim' = [claim EXCEPT !.todo = claim.todo \ {q}]
  BY DEF ClaimOne
<1>2. /\ quote[q] \in QuoteRecord /\ QuoteSound(quote[q]) /\ held \in Nat /\ faults \in Nat
      /\ quote \in [Quotes -> QuoteRecord]
      /\ claim \in [on : BOOLEAN, todo : SUBSET Quotes, due : SUBSET Quotes, since : Nat]
      /\ claim.since <= faults
  BY DEF PaperInv, QuotesSound, MoneySound, ClaimSound
<1>3. PICK r \in QuoteRecord :
         /\ QuoteSound(r) /\ quote' = [quote EXCEPT ![q] = r]
         /\ held' \in Nat /\ faults' \in {faults, faults + 1}
         /\ faults' = faults => (StillDue(quote[q], TRUE) => StillDue(r, FALSE))
  <2>1. CASE quote[q].reserved
    <3>1. UNCHANGED <<held, quote, faults>> /\ quote' = [quote EXCEPT ![q] = quote[q]]
      BY <1>2, <2>1 DEF ClaimOne
    <3>2. StillDue(quote[q], TRUE) => StillDue(quote[q], FALSE)
      BY <2>1 DEF StillDue
    <3> QED BY <1>2, <3>1, <3>2
  <2>2. CASE ~quote[q].reserved
    <3> DEFINE b == [quote[q] EXCEPT !.reserved = TRUE]
    <3>1. Minted(q, "claim", [quote EXCEPT ![q] = b])
      <4>1. [quote EXCEPT ![q].reserved = TRUE] = [quote EXCEPT ![q] = b]
        OBVIOUS
      <4> QED BY <2>2, <4>1, Zenon DEF ClaimOne
    <3>2. /\ b \in QuoteRecord /\ b.state = quote[q].state /\ b.credited = quote[q].credited
          /\ b.reserved = TRUE /\ b.task = quote[q].task
      BY <1>2 DEF QuoteRecord
    <3> HIDE DEF b
    <3>3. /\ b.task \in {"ended", "waiting", "mint", "done"} /\ (b.task = "mint" => b.state \in {"paid", "issued"})
          /\ b.state = "issued" => b.credited = 1
      BY <1>2, <2>2, <3>2 DEF QuoteSound, QuoteRecord
    <3>4. PICK r \in QuoteRecord :
             /\ QuoteSound(r) /\ quote' = [quote EXCEPT ![q] = r]
             /\ held' \in Nat /\ faults' \in {faults, faults + 1}
             /\ faults' = faults => /\ b.state = "paid" => r.credited = 1
                                    /\ b.credited = 1 => r.credited = 1
             /\ b.state \in {"paid", "issued"} => r.state \in {"paid", "issued"}
      <4>1. "claim" \in {"task", "claim"} /\ b.reserved
        BY <3>2
      <4> QED BY <3>1, <3>2, <3>3, <4>1, MintedSound, Zenon
    <3>5. faults' = faults => (StillDue(quote[q], TRUE) => StillDue(r, FALSE))
      BY <1>2, <2>2, <3>2, <3>4 DEF StillDue, QuoteSound
    <3> QED BY <3>4, <3>5
  <2> QED BY <2>1, <2>2
<1>4. /\ quote' \in [Quotes -> QuoteRecord]
      /\ \A p \in Quotes : quote'[p] = IF p = q THEN r ELSE quote[p]
  BY <1>2, <1>3
<1>5. QuotesSound'
  BY <1>3, <1>4 DEF PaperInv, QuotesSound
<1>6. MoneySound'
  BY <1>1, <1>2, <1>3 DEF PaperInv, MoneySound
<1>7. /\ claim' \in [on : BOOLEAN, todo : SUBSET Quotes, due : SUBSET Quotes, since : Nat]
      /\ claim'.on = claim.on /\ claim'.due = claim.due /\ claim'.since = claim.since
      /\ claim'.todo = claim.todo \ {q}
  BY <1>1, <1>2
<1>8. claim'.since <= faults' /\ (faults' = claim'.since => faults' = faults)
  BY <1>2, <1>3, <1>7
<1>9. ASSUME claim'.on, faults' = claim'.since, NEW p \in claim'.due
      PROVE  StillDue(quote'[p], p \in claim'.todo)
  <2>1. p \in Quotes /\ StillDue(quote[p], p \in claim.todo)
    BY <1>1, <1>2, <1>7, <1>8, <1>9 DEF PaperInv, ClaimSound
  <2>2. CASE p = q
    <3>1. StillDue(r, FALSE)
      BY <1>1, <1>3, <1>8, <1>9, <2>1, <2>2 DEF StillDue
    <3> QED BY <1>4, <2>2, <3>1 DEF StillDue
  <2>3. CASE p # q
    <3>1. quote'[p] = quote[p] /\ (p \in claim'.todo <=> p \in claim.todo)
      BY <1>4, <1>7, <2>1, <2>3
    <3> QED BY <2>1, <3>1 DEF StillDue
  <2> QED BY <2>2, <2>3
<1> QED BY <1>5, <1>6, <1>7, <1>8, <1>9 DEF PaperInv, ClaimSound

(* A claim begins: what is due is listed, or in its task's hands, or in. *)
LEMMA StartClaimKeeps ==
    ASSUME PaperInv, UNCHANGED spare, StartClaim
    PROVE  PaperInv'
<1> DEFINE open == {q \in Quotes : quote[q].state \notin {"none", "issued"}}
           due == {q \in Quotes : quote[q].state = "paid" \/ (quote[q].state = "issued" /\ quote[q].credited = 0)}
<1>1. /\ UNCHANGED <<fund, part, faults>> /\ quote' = Recovered(quote) /\ held' = held + Gained
      /\ claim' = [on |-> TRUE, todo |-> open, since |-> faults, due |-> due]
  BY DEF StartClaim
<1>2. QuotesSound /\ held \in Nat /\ faults \in Nat
  BY DEF PaperInv, MoneySound
<1>3. /\ quote' \in [Quotes -> QuoteRecord]
      /\ \A q \in Quotes :
            /\ QuoteSound(quote'[q]) /\ (quote'[q].reserved => quote'[q].by # Nobody)
            /\ quote'[q].state = quote[q].state /\ quote'[q].task = quote[q].task
  BY <1>1, <1>2, RecoveredSound
<1>4. QuotesSound'
  BY <1>3 DEF QuotesSound
<1>5. MoneySound'
  BY <1>1, <1>2, GainedType DEF PaperInv, MoneySound
<1>6. /\ claim'.todo = open /\ claim'.due = due /\ claim'.since = faults'
      /\ claim' \in [on : BOOLEAN, todo : SUBSET Quotes, due : SUBSET Quotes, since : Nat]
  <2>1. open \in SUBSET Quotes /\ due \in SUBSET Quotes
    OBVIOUS
  <2> HIDE DEF open, due
  <2> QED BY <1>1, <1>2, <2>1
<1>7. ASSUME NEW q \in due
      PROVE  StillDue(quote'[q], q \in open)
  <2>1. q \in Quotes /\ quote'[q].state \in {"paid", "issued"} /\ quote'[q] \in QuoteRecord
    BY <1>3, <1>7
  <2>2. CASE quote'[q].reserved
    BY <1>3, <2>1, <2>2 DEF QuoteSound, StillDue
  <2>3. CASE ~quote'[q].reserved
    <3>1. CASE quote'[q].state = "paid"
      BY <1>3, <2>1, <2>3, <3>1 DEF StillDue
    <3>2. CASE quote'[q].state = "issued"
      BY <1>3, <2>1, <2>3, <3>2 DEF StillDue, QuoteSound, QuoteRecord
    <3> QED BY <2>1, <3>1, <3>2
  <2> QED BY <2>2, <2>3
<1>8. ClaimSound'
  <2> HIDE DEF open, due
  <2>1. claim'.since <= faults'
    BY <1>1, <1>2, <1>6
  <2> QED BY <1>6, <1>7, <2>1 DEF ClaimSound
<1> QED BY <1>4, <1>5, <1>8 DEF PaperInv

(* No claim is under way. *)
LEMMA NoClaimSound ==
    ASSUME claim = NoClaim, faults \in Nat
    PROVE  ClaimSound
BY DEF NoClaim, ClaimSound

(* A claim ends. *)
LEMMA EndClaimKeeps ==
    ASSUME PaperInv, UNCHANGED spare, EndClaim
    PROVE  PaperInv'
<1>1. UNCHANGED <<held, fund, part, quote, faults>> /\ claim' = NoClaim
  BY DEF EndClaim
<1>2. MoneySound' /\ QuotesSound'
  BY <1>1 DEF PaperInv, MoneySound, QuotesSound
<1>3. ClaimSound'
  BY <1>1, <1>2 DEF NoClaim, ClaimSound, MoneySound
<1> QED BY <1>2, <1>3 DEF PaperInv

(* merchantd is killed. *)
LEMMA CrashKeeps ==
    ASSUME PaperInv, UNCHANGED spare, Crash
    PROVE  PaperInv'
<1>1. /\ claim' = NoClaim /\ held' = held /\ faults' = faults + 1
      /\ fund' = [f \in Funds |-> IF fund[f].at \in {"mint", "spend"} THEN [fund[f] EXCEPT !.at = "failed"]
                                  ELSE fund[f]]
      /\ part' = [k \in Splits |-> IF part[k].at = "split" THEN [part[k] EXCEPT !.at = "done"]
                                   ELSE part[k]]
  BY DEF Crash, Fault
<1>2. PICK lost \in SUBSET {q \in Quotes : quote[q].task = "minting" /\ quote[q].state = "paid"} :
         quote' = [q \in Quotes |-> [quote[q] EXCEPT !.by = Nobody, !.task = "ended",
                                       !.state = IF q \in lost THEN "issued" ELSE @]]
  BY DEF Crash
<1>3. fund' \in [Funds -> FundRecord]
  <2>1. \A f \in Funds : fund'[f] \in FundRecord
    BY <1>1 DEF PaperInv, MoneySound, FundRecord
  <2> QED BY <1>1, <2>1
<1>4. part' \in [Splits -> PartRecord] /\ \A k \in Splits : PartSound(part'[k])
  <2>1. ASSUME NEW k \in Splits PROVE part'[k] \in PartRecord /\ PartSound(part'[k])
    <3>1. part[k] \in PartRecord /\ PartSound(part[k])
      BY DEF PaperInv, MoneySound
    <3> DEFINE p == [part[k] EXCEPT !.at = "done"]
    <3>2. p \in PartRecord /\ PartSound(p)
      BY <3>1 DEF PartRecord, PartSound
    <3>3. part'[k] = IF part[k].at = "split" THEN p ELSE part[k]
      BY <1>1
    <3> QED BY <3>1, <3>2, <3>3
  <2> QED BY <1>1, <2>1
<1>5. MoneySound'
  BY <1>1, <1>3, <1>4 DEF PaperInv, MoneySound
<1>6. QuotesSound'
  <2>1. ASSUME NEW q \in Quotes PROVE quote'[q] \in QuoteRecord /\ QuoteSound(quote'[q])
    <3>1. quote[q] \in QuoteRecord /\ QuoteSound(quote[q])
      BY DEF PaperInv, QuotesSound
    <3> DEFINE to == IF q \in lost THEN "issued" ELSE quote[q].state
               r == [quote[q] EXCEPT !.by = Nobody, !.task = "ended", !.state = to]
    <3>2. quote'[q] = r
      BY <1>2
    <3>3. to \in {"none", "unpaid", "paid", "issued"}
      BY <3>1 DEF QuoteRecord
    <3>4. q \in lost => quote[q].task = "minting" /\ quote[q].state = "paid"
      BY <1>2
    <3>5. (q \in lost => to = "issued") /\ (q \notin lost => to = quote[q].state)
      OBVIOUS
    <3> HIDE DEF to
    <3>6. /\ r \in QuoteRecord /\ r.state = to /\ r.task = "ended" /\ r.by = Nobody
          /\ r.credited = quote[q].credited /\ r.reserved = quote[q].reserved
      BY <3>1, <3>3 DEF QuoteRecord
    <3> HIDE DEF r
    <3>7. QuoteSound(r)
      BY <3>1, <3>4, <3>5, <3>6 DEF QuoteSound, QuoteRecord
    <3> QED BY <3>2, <3>6, <3>7
  <2> QED BY <1>2, <2>1 DEF QuotesSound
<1>7. ClaimSound'
  BY <1>1, <1>5 DEF NoClaim, ClaimSound, MoneySound
<1> QED BY <1>5, <1>6, <1>7 DEF PaperInv

(* Every step of the wallet keeps it. *)
LEMMA PaperStep ==
    ASSUME PaperInv, [Next]_vars
    PROVE  PaperInv'
<1>1. /\ spare.funds \subseteq Funds /\ spare.splits \subseteq Splits
      /\ spare.quotes \subseteq Quotes
  BY WalletConstants DEF PaperInv, MoneySound
<1>2. CASE UNCHANGED vars
  BY <1>2 DEF vars, PaperInv, MoneySound, QuotesSound, ClaimSound
<1>3. CASE Next
  <2>1. UNCHANGED spare
    BY <1>3 DEF Next
  <2>2. ASSUME NEW f \in spare.funds, StartFund(f) \/ IssueSome(f) \/ Spend(f)
        PROVE  PaperInv'
    BY <1>1, <2>1, <2>2, FundKeeps
  <2>3. ASSUME NEW k \in spare.splits, StartSplit(k) \/ MakePart(k)
        PROVE  PaperInv'
    BY <1>1, <2>1, <2>3, StartSplitKeeps, MakePartKeeps
  <2>4. ASSUME NEW q \in spare.quotes, TopUp(q) \/ Pay(q) \/ Collect(q) \/ GiveUp(q) \/ ClaimOne(q)
        PROVE  PaperInv'
    BY <1>1, <2>1, <2>4, TopUpKeeps, CollectStartKeeps, CollectEndKeeps, ClaimOneKeeps DEF Collect
  <2>5. CASE StartClaim \/ EndClaim \/ Crash
    BY <2>1, <2>5, StartClaimKeeps, EndClaimKeeps, CrashKeeps
  <2> QED BY <1>3, <2>2, <2>3, <2>4, <2>5 DEF Next
<1> QED BY <1>2, <1>3

(* So it is when merchantd starts. *)
LEMMA PaperInit == Init => PaperInv
<1> SUFFICES ASSUME Init PROVE PaperInv
  OBVIOUS
<1>1. MoneySound
  BY DEF Init, MoneySound, FundRecord, PartRecord, PartSound
<1>2. QuotesSound
  <2>1. NoQuote \in QuoteRecord /\ QuoteSound(NoQuote)
    BY DEF NoQuote, QuoteRecord, QuoteSound
  <2> QED BY <2>1 DEF Init, QuotesSound
<1>3. ClaimSound
  BY NoClaimSound DEF Init
<1> QED BY <1>1, <1>2, <1>3 DEF PaperInv

(* A top-up is credited once, and by a claim at the latest, whoever gets to *)
(* it and whatever was killed on the way; a payment is split out of what it *)
(* brought in (collect, claim_pending, recover, split).                     *)
THEOREM PaperIsSound == MCSpec => []PaperSound
<1>1. MCInit => (of = "wallet" => PaperInv)
  BY PaperInit DEF MCInit
<1>2. (of = "wallet" => PaperInv) /\ [MCNext]_<<of, vars, marketVars, merchantVars>>
        => (of = "wallet" => PaperInv)'
  <2> SUFFICES ASSUME of = "wallet" => PaperInv, [MCNext]_<<of, vars, marketVars, merchantVars>>,
                      of' = "wallet"
               PROVE  PaperInv'
    OBVIOUS
  <2>1. of = "wallet" /\ [Next]_vars
    BY DEF MCNext, WalletNext, MarketNext, MerchantNext
  <2> QED BY <2>1, PaperStep
<1>3. (of = "wallet" => PaperInv) => PaperSound
  <2> SUFFICES ASSUME PaperInv PROVE TypeOK /\ CreditedOnce /\ ClaimGetsAll /\ SplitWithin
    BY DEF PaperSound
  <2>1. TypeOK
    BY DEF PaperInv, MoneySound, QuotesSound, ClaimSound, QuoteRecord, TypeOK
  <2>2. CreditedOnce
    <3>1. \A q \in Quotes : quote[q].credited \in {0, 1} /\ (quote[q].credited = 1 => quote[q].state = "issued")
      BY DEF PaperInv, QuotesSound, QuoteRecord, QuoteSound
    <3> QED BY <3>1 DEF CreditedOnce
  <2>3. ClaimGetsAll
    BY DEF PaperInv, ClaimSound, StillDue, ClaimGetsAll
  <2>4. SplitWithin
    <3>1. \A k \in Splits : part[k] \in PartRecord /\ PartSound(part[k])
      BY DEF PaperInv, MoneySound
    <3>2. ASSUME NEW k \in Splits PROVE part[k].spent <= part[k].in
      BY <3>1 DEF PartRecord, PartSound
    <3> QED BY <3>1, <3>2 DEF PartSound, SplitWithin
  <2> QED BY <2>1, <2>2, <2>3, <2>4
<1> QED BY <1>1, <1>2, <1>3, PTL DEF MCSpec
=============================================================================
