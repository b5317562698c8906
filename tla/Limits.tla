------------------------------- MODULE Limits -------------------------------
(***************************************************************************)
(* Rate arithmetic (tollgate-core/src/grant/limits.rs and time.rs): how a  *)
(* rate turns into units and back, saturating at the width of a u64, and   *)
(* the "second" over which the draw rule                                   *)
(*                                                                         *)
(*     drawn each second = max(moved, reserved_rate * 1 s)                 *)
(*                                                                         *)
(* is settled.  A width of 64 bits and a second of 1000 ms are parameters, *)
(* so that saturation and second boundaries are reached by small models.   *)
(***************************************************************************)
EXTENDS Naturals

CONSTANTS
    U64_MAX,    \* u64::MAX
    SECOND_MS   \* milliseconds in a second

ASSUME WidthAssumption  == U64_MAX \in Nat \ {0}
ASSUME SecondAssumption == SECOND_MS \in Nat \ {0}

\* Values an unsigned 64-bit field can hold.
U64 == 0 .. U64_MAX

Least(a, b)    == IF a <= b THEN a ELSE b
Greatest(a, b) == IF a >= b THEN a ELSE b

\* saturating_add and saturating_sub; Millis' own + and saturating_since are
\* the same two.
SatAdd(a, b) == Least(a + b, U64_MAX)
SatSub(a, b) == IF a >= b THEN a - b ELSE 0

\* Units per second that `units` over `ms` comes to.
rate_from(units, ms) ==
    IF ms = 0 THEN U64_MAX ELSE Least((units * SECOND_MS) \div ms, U64_MAX)

\* Units drawn at `rate` over `ms`.
units_in(rate, ms) == Least((rate * ms) \div SECOND_MS, U64_MAX)

\* The largest power of two at most c, and 0 for 0: 1 << (63 - leading_zeros).
PowerOfTwoBelow(c) ==
    IF c = 0 THEN 0
    ELSE LET k == CHOOSE k \in 0 .. c : 2^k \in 1 .. c /\ c < 2^(k + 1) IN 2^k

\* Every number within the width has a leading bit.
ASSUME LeadingBitAssumption ==
    \A c \in 1 .. U64_MAX : \E k \in 0 .. c : 2^k \in 1 .. c /\ c < 2^(k + 1)

\* The fastest a payer with `remaining` units can be carried for one tick.
per_tick_ceiling(remaining, tick) ==
    PowerOfTwoBelow(rate_from(remaining, Greatest(tick, 1)))

-----------------------------------------------------------------------------
(* The second being drawn, while a payer is carried. *)

Second == [start : U64, at : U64, moved : U64]

SecondStarting(now) == [start |-> now, at |-> now, moved |-> 0]

\* Seconds a reading at `now` completes.
WholeSeconds(sec, now) ==
    SatSub(Greatest(sec.at, now), sec.start) \div SECOND_MS

\* The second after a reading at `now` of `moved` units.
SecondAfterRead(sec, moved, now) ==
    LET whole == WholeSeconds(sec, now)
        at    == Greatest(sec.at, now)
    IN  IF whole = 0
        THEN [sec EXCEPT !.at = at, !.moved = SatAdd(@, moved)]
        ELSE [start |-> SatAdd(sec.start, Least(whole * SECOND_MS, U64_MAX)),
              at |-> at, moved |-> 0]

\* What that reading owes: what moved, and the floor of each second it
\* completes beyond what moved in them.
OwedByRead(sec, moved, now, rate) ==
    LET whole == WholeSeconds(sec, now)
        floor == units_in(rate, Least(whole * SECOND_MS, U64_MAX))
    IN  IF whole = 0 THEN moved
        ELSE SatAdd(moved, SatSub(floor, SatAdd(sec.moved, moved)))

\* What ending the second at `until` owes.
OwedByClose(sec, until, rate) ==
    SatSub(units_in(rate, SatSub(until, sec.start)), sec.moved)
=============================================================================
