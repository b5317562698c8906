------------------------------ MODULE MCForward ------------------------------
(***************************************************************************)
(* The kernel's forwarding path (Ip): two payers that change places, one   *)
(* with more addresses than are followed, and one whose gate cannot be set *)
(* for its IPv4 or for its IPv6.                                           *)
(***************************************************************************)
EXTENDS Ip, TLC

\* Two payers that change places; one at one address with more IPv6 addresses
\* than are followed, whose gate works, or fails for its IPv4 or for its IPv6.
OneAddress == [addrs |-> {CHOOSE a \in Addrs : TRUE}, v6 |-> V6]

MCAllowances ==
    {[peers |-> Peers, addrs |-> Addrs, v6 |-> {1}, broken |-> {}, faults |-> 0]}
    \cup {[peers |-> {p}, broken |-> {call}, faults |-> 2] @@ OneAddress
            : p \in Peers, call \in {"gate", "gate6"}}
    \cup {[peers |-> {p}, broken |-> {}, faults |-> 0] @@ OneAddress : p \in Peers}

Symmetric == Permutations(Peers) \cup Permutations(Macs)

-----------------------------------------------------------------------------
\* What core decided for a payer is what is done for it, a failed command set
\* right by the next one for the same element (gate).
DecisionInForce == TypeOK /\ Gated

\* What is carried for a payer is charged to it once and to nobody else, as it
\* moves between ways of counting (refresh).
ChargedToOne == CountedOnce

\* A payer is shaped to its own rate, whoever had its address before, and
\* leaves nothing behind but what a failed command did (register,
\* set_shaping_rate and remove).
ShapedAndCleared == Shaped /\ NothingLeft
=============================================================================
