----------------------------- MODULE MCProvider -----------------------------
(* One payer, two channels: the life of a budget through purchases that span *)
(* two channels, parking, returns, settlement, expiry, shutdown and crash.   *)
EXTENDS Provider, TLC

CONSTANTS p1, c1, c2

MCOwner     == c1 :> p1 @@ c2 :> p1
MCCapacity  == c1 :> 2 @@ c2 :> 2
MCExpiresAt == c1 :> 3 @@ c2 :> None

U(c, n) == [channel |-> c, cumulative |-> n]
MCPurchases ==
    {<<U(c1, 1)>>, <<U(c1, 2), U(c2, 1)>>, <<U(c1, 1), U(c1, 2)>>, <<U(c2, 3)>>}
=============================================================================
