--------------------------- MODULE MCHedgedPosition ---------------------------
(* Small values of the constants of HedgedPosition for TLC.                 *)
EXTENDS HedgedPosition

\* Prices on both sides of the entry and ranges of several widths.  The targets
\* are 4, 3, 0, -5 and, capped, -6: that at the lowest price is worth too
\* little, and -5 is small enough to be removed.
MCPrices == 2 .. 6
MCDeltas == -6 .. 6
MCSpots == {p * p : p \in MCPrices}

\* A mid price on either side of every spot price, up to a quarter of it away.
MCMids == {5, 8, 12, 13, 21, 29}
=============================================================================
