----------------------- MODULE FinanceGraphProperties -----------------------
(***************************************************************************)
(* What a finished analysis promises to whoever trades it, and what the    *)
(* recalculation loop does to the risk.                                    *)
(***************************************************************************)
EXTENDS FinanceGraph

CONSTANT Settlements   \* prices of the stock at expiry to consider

ASSUME SettlementsAssumption == Settlements \subseteq Nat

TypeOK ==
    /\ node \in {"fetch", "analyze", "assess", "gate", "end"}
    /\ market \in Markets \union {NoMarket}
    /\ analysis.strategy \in {"none", "Bull Put Spread", "Bear Call Spread", "Iron Condor"}
    /\ \A leg \in {analysis.put, analysis.call} :
          leg.short \in Nat /\ leg.long \in Nat /\ leg.credit \in Nat
    /\ analysis.profit \in Nat /\ analysis.loss \in Int
    /\ score \in Int
    /\ attempts \in 0 .. MaxAttempts

Positive(x) == IF x > 0 THEN x ELSE 0

\* What the holder of the analysed position has at expiry: the credits less what
\* the short options cost and plus what the long ones bring.  NoLeg pays nothing.
PutPayoff(leg, s)  == leg.credit - Positive(leg.short - s) + Positive(leg.long - s)
CallPayoff(leg, s) == leg.credit - Positive(s - leg.short) + Positive(s - leg.long)
Payoff(a, s)       == PutPayoff(a.put, s) + CallPayoff(a.call, s)

\* Each of the two credits of a condor is rounded by half a cent at most.
RoundingError(a) == IF a.strategy = "Iron Condor" THEN 2 ELSE 0

\* Wherever the stock ends, a trade never loses more than the max_loss reported
\* for it, and never earns more than its max_profit, a condor up to the cent a
\* share by which the rounding of its two credits may fall short: whichever
\* strikes were liquid, however wide the legs are, and although a condor's loss is computed
\* from each of its sides alone.
PayoffBounded ==
    \A s \in Settlements :
        /\ -analysis.loss <= Payoff(analysis, s)
        /\ Payoff(analysis, s) <= analysis.profit + RoundingError(analysis)

\* An analysis that is finalised before the last attempt is a trade, and its own
\* loss is at most 70.05 % of the total, the most that rounds to the limit.
AcceptedRisk ==
    node = "end" /\ attempts < MaxAttempts =>
        /\ analysis.strategy # "none"
        /\ 2000 * analysis.loss <= 1401 * Total(analysis)

\* Prices without arbitrage: convex in the strike.
Convex(chain) ==
    \A i, j, k \in Liquid(chain) :
        i < j /\ j < k =>
            (k - i) * chain[j] <= (k - j) * chain[i] + (j - i) * chain[k]

ArbitrageFree(m) == Convex(m.puts) /\ Convex(m.calls)

Spreads == {"Bull Put Spread", "Bear Call Spread"}

\* The code widens a spread "for a safer risk profile".  At prices without
\* arbitrage the opposite holds: a recalculation that finds the same spread
\* again, wider, never lowers the share of the total that it risks.
WideningNeverSafer ==
    [][/\ node = "analyze" /\ market # NoMarket /\ attempts > 0
       /\ ArbitrageFree(market)
       /\ analysis.strategy \in Spreads /\ analysis'.strategy = analysis.strategy
       => analysis.loss * Total(analysis') <= analysis'.loss * Total(analysis)]_vars

\* The analysis comes to an end, whatever the market data: the task that runs it
\* has no time limit.
RunEnds == <>(node = "end")
=============================================================================
