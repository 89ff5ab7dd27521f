---------------------------- MODULE FinanceGraph ----------------------------
(***************************************************************************)
(* The quant analysis graph of src/orchestration/finance_graph.py: fetch   *)
(* market data, build a credit spread, score its risk and recalculate with *)
(* a wider spread while the risk is too high.                              *)
(*                                                                         *)
(* Money is in half-cents per share: quotes are whole cents, so their      *)
(* mid-points are whole half-cents.  The 100 shares of a contract scale    *)
(* every amount alike and are left out.  A chain maps each strike to its   *)
(* mid-point, or to 0 where the strike is not quoted or not liquid.        *)
(***************************************************************************)
EXTENDS Integers

CONSTANTS
    PutStrikes, CallStrikes,  \* strikes of the two chains
    Mids,                     \* mid-points of quotes, 0 if illiquid
    Prices,                   \* prices of the stock
    BaseWidth,                \* BASE_SPREAD_WIDTH, also the widening per attempt
    MaxAttempts,              \* MAX_RECALCULATE_ATTEMPTS
    NoMarket                  \* stands for market data that could not be fetched

ASSUME ChainsAssumption ==
    PutStrikes \subseteq Nat /\ CallStrikes \subseteq Nat /\ Mids \subseteq Nat
ASSUME PricesAssumption   == Prices \subseteq Nat
ASSUME WidthAssumption    == BaseWidth \in Nat \ {0}
ASSUME AttemptsAssumption == MaxAttempts \in Nat \ {0}

VARIABLES
    node,      \* the node to run next, "gate" for the conditional edge, or "end"
    market,    \* state["market_data"]
    analysis,  \* state["options_analysis"]
    score,     \* state["risk_score"], in thousandths
    attempts   \* state["recalculate_attempts"]

vars == <<node, market, analysis, score, attempts>>

Markets == [trend : {"bullish", "bearish", "neutral"},
            price : Prices,
            puts  : [PutStrikes -> Mids],
            calls : [CallStrikes -> Mids]]

ASSUME NoMarketAssumption == NoMarket \notin Markets

----------------------------------------------------------------------------
(* Strategy builders.  Each gives the set of results it may have: none, or *)
(* one, or several that differ in how a half-cent is rounded.              *)

Liquid(chain) == {k \in DOMAIN chain : chain[k] > 0}

\* The strike nearest to the money, and the one nearest to the target width.
ShortPut(m, s)     == s < m.price /\ \A k \in Liquid(m.puts) : k < m.price => k <= s
LongPut(m, s, l, w) == l <= s - w /\ \A k \in Liquid(m.puts) : k <= s - w => k <= l

ShortCall(m, s)     == s > m.price /\ \A k \in Liquid(m.calls) : k > m.price => k >= s
LongCall(m, s, l, w) == l >= s + w /\ \A k \in Liquid(m.calls) : k >= s + w => k >= l

Leg(chain, p) == [short |-> p[1], long |-> p[2], credit |-> chain[p[1]] - chain[p[2]]]
NoLeg         == [short |-> 0, long |-> 0, credit |-> 0]

PutLegs(m, w) ==
    {Leg(m.puts, p) : p \in {q \in Liquid(m.puts) \X Liquid(m.puts) :
        ShortPut(m, q[1]) /\ LongPut(m, q[1], q[2], w) /\ m.puts[q[1]] > m.puts[q[2]]}}

CallLegs(m, w) ==
    {Leg(m.calls, p) : p \in {q \in Liquid(m.calls) \X Liquid(m.calls) :
        ShortCall(m, q[1]) /\ LongCall(m, q[1], q[2], w) /\ m.calls[q[1]] > m.calls[q[2]]}}

PutLoss(leg)  == (leg.short - leg.long) - leg.credit
CallLoss_Target(leg) == BaseWidth - leg.credit   \* fault: the width aimed at
CallLoss(leg) == (leg.long - leg.short) - leg.credit

Analysis(strategy, put, call, profit, loss) ==
    [strategy |-> strategy, put |-> put, call |-> call, profit |-> profit, loss |-> loss]

NoTrade == Analysis("none", NoLeg, NoLeg, 0, 0)

BullPutSpreads(m, w) ==
    {Analysis("Bull Put Spread", p, NoLeg, p.credit, PutLoss(p)) : p \in PutLegs(m, w)}

BearCallSpreads(m, w) ==
    {Analysis("Bear Call Spread", NoLeg, c, c.credit, CallLoss(c)) : c \in CallLegs(m, w)}

\* round(x, 2): whole cents.  Floating point decides where a half-cent goes.
Rounded(x) == {y \in x - 1 .. x + 1 : y % 2 = 0}

Greater(x, y) == IF x > y THEN x ELSE y

RoundedSums(x, y) ==
    {n \in x + y - 2 .. x + y + 2 : \E i \in Rounded(x), j \in Rounded(y) : n = i + j}

CondorsOf(put, call) ==
    {Analysis("Iron Condor", put, call, credit, Greater(PutLoss(put), CallLoss(call))) :
        credit \in RoundedSums(put.credit, call.credit)}

IronCondors(m, w) ==
    UNION {CondorsOf(p, c) : p \in PutLegs(m, w), c \in CallLegs(m, w)}

FirstOf(A, B) == IF A # {} THEN A ELSE B

\* The strategy that fits the trend, or else one for which there are contracts.
Analyses(m, w) ==
    FirstOf([bullish |-> BullPutSpreads(m, w),
             bearish |-> BearCallSpreads(m, w),
             neutral |-> IronCondors(m, w)][m.trend],
            FirstOf(BullPutSpreads(m, w), FirstOf(BearCallSpreads(m, w), {NoTrade})))

TargetWidth_Narrowing(n) == BaseWidth * (MaxAttempts - n)   \* fault: the wrong sign
TargetWidth(n) == BaseWidth + n * BaseWidth

----------------------------------------------------------------------------
(* The nodes and the conditional edge.                                     *)

Fetch ==
    /\ node = "fetch"
    /\ market' \in Markets
    /\ node' = "analyze"
    /\ UNCHANGED <<analysis, score, attempts>>

\* Every exception is caught.
FetchFails ==
    /\ node = "fetch"
    /\ market' = NoMarket
    /\ node' = "analyze"
    /\ UNCHANGED <<analysis, score, attempts>>

Skip_Uncounted ==   \* fault: an attempt without data does not count
    /\ node = "analyze"
    /\ market = NoMarket
    /\ analysis' = NoTrade
    /\ node' = "assess"
    /\ UNCHANGED <<market, score, attempts>>

Skip ==
    /\ node = "analyze"
    /\ market = NoMarket
    /\ analysis' = NoTrade
    /\ attempts' = attempts + 1
    /\ node' = "assess"
    /\ UNCHANGED <<market, score>>

Analyze ==
    /\ node = "analyze"
    /\ market # NoMarket
    /\ analysis' \in Analyses(market, TargetWidth(attempts))
    /\ attempts' = attempts + 1
    /\ node' = "assess"
    /\ UNCHANGED <<market, score>>

Total(a) == a.profit + a.loss

Thousandths_Swapped(a) ==   \* fault: the share of the profit
    LET down == (1000 * a.profit) \div Total(a) IN {down, down + 1}

\* round(max_loss / total, 3): the nearest thousandth, a tie going either way.
\* With spreads of dollars the total is never zero, but the code allows for it.
Thousandths(a) ==
    LET down == (1000 * a.loss) \div Total(a)
    IN  {n \in {down, down + 1} :
            /\ 2 * (n * Total(a) - 1000 * a.loss) <= Total(a)
            /\ 2 * (1000 * a.loss - n * Total(a)) <= Total(a)}

Scores(a) == IF a.strategy = "none" \/ Total(a) <= 0 THEN {1000} ELSE Thousandths(a)

Assess ==
    /\ node = "assess"
    /\ score' \in Scores(analysis)
    /\ node' = "gate"
    /\ UNCHANGED <<market, analysis, attempts>>

TooRisky_OneMore == score > 700 /\ attempts <= MaxAttempts   \* fault: off by one
TooRisky == score > 700 /\ attempts < MaxAttempts

Recalculate ==
    /\ node = "gate"
    /\ TooRisky
    /\ node' = "analyze"
    /\ UNCHANGED <<market, analysis, score, attempts>>

Finalize ==
    /\ node = "gate"
    /\ ~TooRisky
    /\ node' = "end"
    /\ UNCHANGED <<market, analysis, score, attempts>>

----------------------------------------------------------------------------
Init ==
    /\ node = "fetch"
    /\ market = NoMarket
    /\ analysis = NoTrade
    /\ score = 0
    /\ attempts = 0

Next == Fetch \/ FetchFails \/ Skip \/ Analyze \/ Assess \/ Recalculate \/ Finalize

Spec == Init /\ [][Next]_vars

\* A worker that is not stopped runs the graph to its end.
FairSpec == Spec /\ WF_vars(Next)
=============================================================================
