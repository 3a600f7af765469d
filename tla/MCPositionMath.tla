---------------------------- MODULE MCPositionMath ----------------------------
(* Small values of the constants of PositionMath for TLC.                    *)
EXTENDS PositionMath

\* Unevenly spaced, as square roots of prices are.
MCSqrtPrice == [t \in Ticks |-> <<3, 4, 6, 9>>[t + 1]]

\* Ranges below, around and above every tick but the first.
MCBounds == 1 .. 3

\* Nothing, too little for one unit of liquidity in some ranges, and enough.
MCDeposits == {0, 2, 7}
=============================================================================
