---------------------------- MODULE MCRangeStrategy ----------------------------
(* Small values of the constants of RangeStrategy for TLC.                     *)
EXTENDS RangeStrategy

\* Both signs, on and off the multiples of both spacings.
MCTicks == -14 .. 14

\* Narrower than the buffer, as wide, and wider.
MCHalves == {1, 3, 4, 6}
=============================================================================
