-------------------------------- MODULE Send --------------------------------
(***************************************************************************)
(* Making a token out of a wallet (wallet.rs, send_within): what it and    *)
(* the fee for making it come to is bounded by a budget, whatever else the *)
(* wallet holds.  The fee is what cdk quotes for the proofs it picks.      *)
(***************************************************************************)
EXTENDS Naturals

CONSTANTS MaxFee,  \* the most a mint charges for one swap
          Tries    \* attempts

ASSUME SendAssumption == MaxFee \in Nat /\ Tries \in Nat \ {0}

Least(a, b) == IF a < b THEN a ELSE b

Less(a, b) == IF a > b THEN a - b ELSE 0

Sent(w, f) == [ok |-> TRUE, worth |-> w, fee |-> f]

NoToken == [ok |-> FALSE, worth |-> 0, fee |-> 0]

\* The tokens that may come of asking for one worth up to `most', out of
\* `budget', when `balance' is held.  An attempt that costs too much, or for
\* which too little is held, is made again for less.
SendWithin(most, budget, balance) ==
    LET first == Least(most, budget)
        from[n \in 0..Tries] == [want \in 0..first |->
          IF n = 0 \/ want = 0 THEN {NoToken}
          ELSE LET again(f) == from[n - 1][Least(Less(budget, f), want - 1)]
               IN UNION {IF want + f > balance \/ want + f > budget THEN again(f)
                         ELSE {Sent(want, f)} : f \in 0..MaxFee}]
    IN from[Tries][first]
=============================================================================
