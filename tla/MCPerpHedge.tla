------------------------------ MODULE MCPerpHedge ------------------------------
(* Small values of the constants of PerpHedge for TLC, in hundredths.          *)
EXTENDS PerpHedge

\* Both signs; 3 is below the minimal notional, 3 and 4 are small enough to be
\* removed; from 9 to 10 the error is exactly a tenth of the target.
MCDeltas == {-10, -4, -3, 4, 9, 10}

\* One price, at the venue too: what these runs show needs no other.
MCPrices == {1}
=============================================================================
