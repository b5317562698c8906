------------------------------ MODULE MCSpilman ------------------------------
(***************************************************************************)
(* Spilman with the payee's own mint, one whose vouchers it keeps, one     *)
(* whose vouchers it burns though the mint has no burn, and one it does not*)
(* accept.  The own mint is advertised with a slash and configured without.*)
(***************************************************************************)
EXTENDS Spilman, TLC

CONSTANTS c1, c2

Own      == <<"own", FALSE>>
OwnSlash == <<"own", TRUE>>
Kept     == <<"kept", FALSE>>
Courtesy == <<"courtesy", FALSE>>
Stranger == <<"stranger", FALSE>>

AllUrls  == {OwnSlash, Kept, Courtesy, Stranger}
Taken    == {OwnSlash, Kept, Courtesy}
Burnable == {Own, Kept}
BurntToo == {<<"courtesy", TRUE>>}

\* One channel, in each kind of mint: with anything lost, and with only what
\* the backend makes up for; and two channels opened at once.
MCAllowances ==
    {[channels |-> {c1}, urls |-> AllUrls, losable |-> {"swap", "burn", "deposit"},
      now |-> 3, faults |-> 2, restarts |-> 1],
     [channels |-> {c1}, urls |-> AllUrls, losable |-> {"swap", "burn"},
      now |-> 3, faults |-> 2, restarts |-> 0],
     [channels |-> {c1, c2}, urls |-> {Kept}, losable |-> {},
      now |-> 0, faults |-> 0, restarts |-> 0]}
=============================================================================
