----------------------------- MODULE MCMarketData -----------------------------
(* Small values of the constants of MarketData for TLC.                     *)
EXTENDS MarketData

\* Zero disables the drawdown check; 9 against 10 is exactly the limit of 10%,
\* 8 is beyond it.
MCValues == {0, 8, 9, 10}

\* token0 is an address and has no id, as in the README's example.
MCPythIds == {"ETH"}
=============================================================================
