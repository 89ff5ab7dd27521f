--------------------------- MODULE MCFinanceGraph ---------------------------
(***************************************************************************)
(* Small chains for TLC, in half-cents: strikes of $5 to $20 for puts and  *)
(* of $25 to $40 for calls, the latter not $5 apart, around a stock at the *)
(* highest put strike.                                                     *)
(***************************************************************************)
EXTENDS FinanceGraphProperties

MCPutStrikes  == {1000, 2000, 3000, 4000}
MCCallStrikes == {5000, 6500, 8000}
MCPrices      == {4000}

\* Illiquid, two small credits of which one is half a cent off, a large one.
MCMids == {0, 100, 201, 1101}

\* A payoff is linear between two strikes: it is bounded by its value at them,
\* at 0 and beyond the last.
MCSettlements == MCPutStrikes \union MCCallStrikes \union {0, 10000}
=============================================================================
