------------------------ MODULE FinanceGraph_proofs ------------------------
(***************************************************************************)
(* Proofs about FinanceGraph: types, the payoff of a reported trade, and   *)
(* the risk of a wider spread, for any chains, prices, widths and number   *)
(* of attempts.                                                            *)
(***************************************************************************)
EXTENDS FinanceGraphProperties, TLAPS

(***************************************************************************)
(* The legs.                                                               *)
(***************************************************************************)

\* The long put of a leg lies below the short one by the target width at least,
\* both below the price, and the leg brings a credit (_find_bull_put_spread).
LEMMA PutLegFacts ==
    ASSUME NEW m \in Markets, NEW w \in Nat \ {0}, NEW p \in PutLegs(m, w)
    PROVE  \E s, l \in Liquid(m.puts) :
              /\ s \in Nat /\ l \in Nat /\ m.puts[s] \in Nat /\ m.puts[l] \in Nat
              /\ p = [short |-> s, long |-> l, credit |-> m.puts[s] - m.puts[l]]
              /\ ShortPut(m, s) /\ LongPut(m, s, l, w)
              /\ m.puts[s] > m.puts[l]
<1>1. PICK q \in Liquid(m.puts) \X Liquid(m.puts) :
         /\ ShortPut(m, q[1]) /\ LongPut(m, q[1], q[2], w)
         /\ m.puts[q[1]] > m.puts[q[2]]
         /\ p = Leg(m.puts, q)
  BY DEF PutLegs
<1>2. m.puts \in [PutStrikes -> Mids]
  BY DEF Markets
<1>3. \A k \in Liquid(m.puts) : k \in Nat /\ m.puts[k] \in Nat
  BY <1>2, ChainsAssumption DEF Liquid
<1>4. q[1] \in Liquid(m.puts) /\ q[2] \in Liquid(m.puts)
  OBVIOUS
<1>5. QED
  BY <1>1, <1>3, <1>4 DEF Leg

\* The same of a leg of calls, above the price (_find_bear_call_spread).
LEMMA CallLegFacts ==
    ASSUME NEW m \in Markets, NEW w \in Nat \ {0}, NEW p \in CallLegs(m, w)
    PROVE  \E s, l \in Liquid(m.calls) :
              /\ s \in Nat /\ l \in Nat /\ m.calls[s] \in Nat /\ m.calls[l] \in Nat
              /\ p = [short |-> s, long |-> l, credit |-> m.calls[s] - m.calls[l]]
              /\ ShortCall(m, s) /\ LongCall(m, s, l, w)
              /\ m.calls[s] > m.calls[l]
<1>1. PICK q \in Liquid(m.calls) \X Liquid(m.calls) :
         /\ ShortCall(m, q[1]) /\ LongCall(m, q[1], q[2], w)
         /\ m.calls[q[1]] > m.calls[q[2]]
         /\ p = Leg(m.calls, q)
  BY DEF CallLegs
<1>2. m.calls \in [CallStrikes -> Mids]
  BY DEF Markets
<1>3. \A k \in Liquid(m.calls) : k \in Nat /\ m.calls[k] \in Nat
  BY <1>2, ChainsAssumption DEF Liquid
<1>4. q[1] \in Liquid(m.calls) /\ q[2] \in Liquid(m.calls)
  OBVIOUS
<1>5. QED
  BY <1>1, <1>3, <1>4 DEF Leg

(***************************************************************************)
(* The analyses.                                                           *)
(***************************************************************************)

IsLeg(p) == p.short \in Nat /\ p.long \in Nat /\ p.credit \in Nat

IsPutLeg(m, p)  == IsLeg(p) /\ p.credit > 0 /\ p.long < p.short /\ p.short < m.price
IsCallLeg(m, p) == IsLeg(p) /\ p.credit > 0 /\ p.short < p.long /\ m.price < p.short

\* What an analysis made of the market m can be (analyze_options_strategy_node).
Sound(m, a) ==
    \/ a = NoTrade
    \/ /\ a.strategy = "Bull Put Spread"
       /\ IsPutLeg(m, a.put) /\ a.call = NoLeg
       /\ a.profit = a.put.credit /\ a.loss = PutLoss(a.put)
    \/ /\ a.strategy = "Bear Call Spread"
       /\ IsCallLeg(m, a.call) /\ a.put = NoLeg
       /\ a.profit = a.call.credit /\ a.loss = CallLoss(a.call)
    \/ /\ a.strategy = "Iron Condor"
       /\ IsPutLeg(m, a.put) /\ IsCallLeg(m, a.call)
       /\ a.loss = Greater(PutLoss(a.put), CallLoss(a.call))
       /\ a.profit \in Nat
       /\ a.put.credit + a.call.credit <= a.profit + 2

\* A leg of puts is one (_spread_result).
LEMMA PutLegSound ==
    ASSUME NEW m \in Markets, NEW w \in Nat \ {0}, NEW p \in PutLegs(m, w)
    PROVE  IsPutLeg(m, p)
<1>1. PICK s, l \in Liquid(m.puts) :
              /\ s \in Nat /\ l \in Nat /\ m.puts[s] \in Nat /\ m.puts[l] \in Nat
              /\ p = [short |-> s, long |-> l, credit |-> m.puts[s] - m.puts[l]]
              /\ ShortPut(m, s) /\ LongPut(m, s, l, w)
              /\ m.puts[s] > m.puts[l]
  BY PutLegFacts
<1>2. m.price \in Nat
  BY PricesAssumption DEF Markets
<1>3. l <= s - w /\ s < m.price
  BY <1>1 DEF ShortPut, LongPut
<1>4. QED
  BY <1>1, <1>2, <1>3 DEF IsPutLeg, IsLeg

\* A leg of calls is one (_spread_result).
LEMMA CallLegSound ==
    ASSUME NEW m \in Markets, NEW w \in Nat \ {0}, NEW p \in CallLegs(m, w)
    PROVE  IsCallLeg(m, p)
<1>1. PICK s, l \in Liquid(m.calls) :
              /\ s \in Nat /\ l \in Nat /\ m.calls[s] \in Nat /\ m.calls[l] \in Nat
              /\ p = [short |-> s, long |-> l, credit |-> m.calls[s] - m.calls[l]]
              /\ ShortCall(m, s) /\ LongCall(m, s, l, w)
              /\ m.calls[s] > m.calls[l]
  BY CallLegFacts
<1>2. m.price \in Nat
  BY PricesAssumption DEF Markets
<1>3. l >= s + w /\ s > m.price
  BY <1>1 DEF ShortCall, LongCall
<1>4. QED
  BY <1>1, <1>2, <1>3 DEF IsCallLeg, IsLeg

\* Rounding to cents moves a positive number of half-cents by one at most, and
\* not below zero.
LEMMA RoundedNear ==
    ASSUME NEW x \in Nat, x > 0, NEW y \in Rounded(x)
    PROVE  y \in Nat /\ x <= y + 1
BY DEF Rounded

\* The results are those of the three builders, or no trade.
LEMMA AnalysesAre ==
    ASSUME NEW m \in Markets, NEW w \in Nat \ {0}, NEW a \in Analyses(m, w)
    PROVE  \/ a = NoTrade
           \/ a \in BullPutSpreads(m, w)
           \/ a \in BearCallSpreads(m, w)
           \/ a \in IronCondors(m, w)
<1>1. m.trend \in {"bullish", "bearish", "neutral"}
  BY DEF Markets
<1>2. QED
  BY <1>1 DEF Analyses, FirstOf

\* Every result is sound.
LEMMA AnalysesSound ==
    ASSUME NEW m \in Markets, NEW w \in Nat \ {0}, NEW a \in Analyses(m, w)
    PROVE  Sound(m, a)
<1>1. CASE a = NoTrade
  BY <1>1 DEF Sound
<1>2. CASE a \in BullPutSpreads(m, w)
  <2>1. PICK p \in PutLegs(m, w) :
           a = Analysis("Bull Put Spread", p, NoLeg, p.credit, PutLoss(p))
    BY <1>2 DEF BullPutSpreads
  <2>2. QED
    BY <2>1, PutLegSound DEF Analysis, Sound
<1>3. CASE a \in BearCallSpreads(m, w)
  <2>1. PICK c \in CallLegs(m, w) :
           a = Analysis("Bear Call Spread", NoLeg, c, c.credit, CallLoss(c))
    BY <1>3 DEF BearCallSpreads
  <2>2. QED
    BY <2>1, CallLegSound DEF Analysis, Sound
<1>4. CASE a \in IronCondors(m, w)
  <2>1. PICK p \in PutLegs(m, w), c \in CallLegs(m, w) : a \in CondorsOf(p, c)
    BY <1>4 DEF IronCondors
  <2>2. PICK credit \in RoundedSums(p.credit, c.credit) :
           a = Analysis("Iron Condor", p, c, credit, Greater(PutLoss(p), CallLoss(c)))
    BY <2>1 DEF CondorsOf
  <2>3. IsPutLeg(m, p) /\ IsCallLeg(m, c)
    BY PutLegSound, CallLegSound
  <2>4. p.credit \in Nat /\ c.credit \in Nat /\ p.credit > 0 /\ c.credit > 0
    BY <2>3 DEF IsPutLeg, IsCallLeg, IsLeg
  <2>5. PICK x \in Rounded(p.credit), y \in Rounded(c.credit) : credit = x + y
    BY DEF RoundedSums
  <2>6. x \in Nat /\ y \in Nat /\ p.credit <= x + 1 /\ c.credit <= y + 1
    BY <2>4, RoundedNear
  <2>7. credit \in Nat /\ p.credit + c.credit <= credit + 2
    BY <2>4, <2>5, <2>6
  <2>8. QED
    BY <2>2, <2>3, <2>7 DEF Analysis, Sound
<1>5. QED
  BY <1>1, <1>2, <1>3, <1>4, AnalysesAre

(***************************************************************************)
(* The payoff of a sound analysis.                                         *)
(***************************************************************************)

\* A leg of puts pays between its loss and its credit, and the whole credit
\* from the short strike upwards.
LEMMA PutPays ==
    ASSUME NEW m, NEW p, IsPutLeg(m, p), NEW s \in Nat
    PROVE  /\ PutPayoff(p, s) \in Int
           /\ -PutLoss(p) <= PutPayoff(p, s) /\ PutPayoff(p, s) <= p.credit
           /\ p.short <= s => PutPayoff(p, s) = p.credit
BY DEF IsPutLeg, IsLeg, PutPayoff, PutLoss, Positive

\* A leg of calls pays the whole credit up to the short strike.
LEMMA CallPays ==
    ASSUME NEW m, NEW p, IsCallLeg(m, p), NEW s \in Nat
    PROVE  /\ CallPayoff(p, s) \in Int
           /\ -CallLoss(p) <= CallPayoff(p, s) /\ CallPayoff(p, s) <= p.credit
           /\ s <= p.short => CallPayoff(p, s) = p.credit
BY DEF IsCallLeg, IsLeg, CallPayoff, CallLoss, Positive

\* A leg that is not there pays nothing.
LEMMA NoLegPays ==
    ASSUME NEW s \in Nat
    PROVE  PutPayoff(NoLeg, s) = 0 /\ CallPayoff(NoLeg, s) = 0
BY DEF NoLeg, PutPayoff, CallPayoff, Positive

\* No trade is no strategy.
LEMMA NoTradeIs ==
    NoTrade.strategy = "none" /\ NoTrade.profit = 0 /\ NoTrade.loss = 0
    /\ NoTrade.put = NoLeg /\ NoTrade.call = NoLeg
BY DEF NoTrade, Analysis

\* A sound analysis bounds its payoff.  Only one side of a condor can lose: the
\* other one then pays its whole credit.
LEMMA SoundPays ==
    ASSUME NEW m \in Markets, NEW a, Sound(m, a), NEW s \in Nat
    PROVE  -a.loss <= Payoff(a, s) /\ Payoff(a, s) <= a.profit + RoundingError(a)
<1>1. CASE a = NoTrade
  BY <1>1, NoLegPays DEF NoTrade, Analysis, Payoff, RoundingError
<1>2. CASE a.strategy = "Bull Put Spread" /\ Sound(m, a)
  <2>1. /\ IsPutLeg(m, a.put) /\ a.call = NoLeg
        /\ a.profit = a.put.credit /\ a.loss = PutLoss(a.put)
    BY <1>2, NoTradeIs DEF Sound
  <2>2. Payoff(a, s) = PutPayoff(a.put, s) + 0
    BY <2>1, NoLegPays DEF Payoff
  <2>3. a.profit \in Int /\ a.loss \in Int
    BY <2>1 DEF IsPutLeg, IsLeg, PutLoss
  <2>4. /\ PutPayoff(a.put, s) \in Int
        /\ -PutLoss(a.put) <= PutPayoff(a.put, s)
        /\ PutPayoff(a.put, s) <= a.put.credit
    BY <2>1, PutPays
  <2>5. RoundingError(a) = 0
    BY <1>2 DEF RoundingError
  <2>6. QED
    BY <2>1, <2>2, <2>3, <2>4, <2>5
<1>3. CASE a.strategy = "Bear Call Spread" /\ Sound(m, a)
  <2>1. /\ IsCallLeg(m, a.call) /\ a.put = NoLeg
        /\ a.profit = a.call.credit /\ a.loss = CallLoss(a.call)
    BY <1>3, NoTradeIs DEF Sound
  <2>2. Payoff(a, s) = 0 + CallPayoff(a.call, s)
    BY <2>1, NoLegPays DEF Payoff
  <2>3. a.profit \in Int /\ a.loss \in Int
    BY <2>1 DEF IsCallLeg, IsLeg, CallLoss
  <2>4. /\ CallPayoff(a.call, s) \in Int
        /\ -CallLoss(a.call) <= CallPayoff(a.call, s)
        /\ CallPayoff(a.call, s) <= a.call.credit
    BY <2>1, CallPays
  <2>5. RoundingError(a) = 0
    BY <1>3 DEF RoundingError
  <2>6. QED
    BY <2>1, <2>2, <2>3, <2>4, <2>5
<1>4. CASE a.strategy = "Iron Condor" /\ Sound(m, a)
  <2>1. /\ IsPutLeg(m, a.put) /\ IsCallLeg(m, a.call)
        /\ a.loss = Greater(PutLoss(a.put), CallLoss(a.call))
        /\ a.profit \in Nat
        /\ a.put.credit + a.call.credit <= a.profit + 2
    BY <1>4, NoTradeIs DEF Sound
  <2>2. /\ a.put.credit \in Nat /\ a.put.credit > 0 /\ PutLoss(a.put) \in Int
        /\ a.call.credit \in Nat /\ a.call.credit > 0 /\ CallLoss(a.call) \in Int
    BY <2>1 DEF IsPutLeg, IsCallLeg, IsLeg, PutLoss, CallLoss
  <2>3. /\ a.loss \in Int
        /\ a.loss >= PutLoss(a.put) /\ a.loss >= CallLoss(a.call)
    BY <2>1, <2>2 DEF Greater
  <2>4. /\ PutPayoff(a.put, s) \in Int
        /\ -PutLoss(a.put) <= PutPayoff(a.put, s)
        /\ PutPayoff(a.put, s) <= a.put.credit
        /\ a.put.short <= s => PutPayoff(a.put, s) = a.put.credit
    BY <2>1, PutPays
  <2>5. /\ CallPayoff(a.call, s) \in Int
        /\ -CallLoss(a.call) <= CallPayoff(a.call, s)
        /\ CallPayoff(a.call, s) <= a.call.credit
        /\ s <= a.call.short => CallPayoff(a.call, s) = a.call.credit
    BY <2>1, CallPays
  <2>6. a.put.short <= s \/ s <= a.call.short
    <3>1. m.price \in Nat
      BY PricesAssumption DEF Markets
    <3>2. QED
      BY <2>1, <3>1 DEF IsPutLeg, IsCallLeg, IsLeg
  <2>7. RoundingError(a) = 2
    BY <1>4 DEF RoundingError
  <2>8. -a.loss <= PutPayoff(a.put, s) + CallPayoff(a.call, s)
    BY <2>2, <2>3, <2>4, <2>5, <2>6
  <2>9. PutPayoff(a.put, s) + CallPayoff(a.call, s) <= a.profit + 2
    BY <2>1, <2>2, <2>4, <2>5
  <2>10. QED
    BY <2>7, <2>8, <2>9 DEF Payoff
<1>5. QED
  BY <1>1, <1>2, <1>3, <1>4 DEF Sound

\* What the type invariant says of an analysis.
LEMMA SoundType ==
    ASSUME NEW m \in Markets, NEW a, Sound(m, a)
    PROVE  /\ a.strategy \in {"none", "Bull Put Spread", "Bear Call Spread", "Iron Condor"}
           /\ \A leg \in {a.put, a.call} :
                 leg.short \in Nat /\ leg.long \in Nat /\ leg.credit \in Nat
           /\ a.profit \in Nat /\ a.loss \in Int
<1>1. CASE a = NoTrade
  BY <1>1 DEF NoTrade, Analysis, NoLeg
<1>2. CASE a.strategy = "Bull Put Spread" /\ a # NoTrade
  <2>1. /\ IsPutLeg(m, a.put) /\ a.call = NoLeg
        /\ a.profit = a.put.credit /\ a.loss = PutLoss(a.put)
    BY <1>2 DEF Sound
  <2>2. /\ IsLeg(a.put) /\ a.put.long < a.put.short /\ IsLeg(a.call)
    BY <2>1 DEF IsPutLeg, IsLeg, NoLeg
  <2>3. a.loss \in Int /\ a.profit \in Nat
    BY <2>1, <2>2 DEF IsLeg, PutLoss
  <2>4. \A leg \in {a.put, a.call} :
           leg.short \in Nat /\ leg.long \in Nat /\ leg.credit \in Nat
    BY <2>2 DEF IsLeg
  <2>5. QED
    BY <1>2, <2>3, <2>4
<1>3. CASE a.strategy = "Bear Call Spread" /\ a # NoTrade
  <2>1. /\ IsCallLeg(m, a.call) /\ a.put = NoLeg
        /\ a.profit = a.call.credit /\ a.loss = CallLoss(a.call)
    BY <1>3 DEF Sound
  <2>2. /\ IsLeg(a.call) /\ a.call.short < a.call.long /\ IsLeg(a.put)
    BY <2>1 DEF IsCallLeg, IsLeg, NoLeg
  <2>3. a.loss \in Int /\ a.profit \in Nat
    BY <2>1, <2>2 DEF IsLeg, CallLoss
  <2>4. \A leg \in {a.put, a.call} :
           leg.short \in Nat /\ leg.long \in Nat /\ leg.credit \in Nat
    BY <2>2 DEF IsLeg
  <2>5. QED
    BY <1>3, <2>3, <2>4
<1>4. CASE a.strategy = "Iron Condor" /\ a # NoTrade
  <2>1. /\ IsPutLeg(m, a.put) /\ IsCallLeg(m, a.call)
        /\ a.loss = Greater(PutLoss(a.put), CallLoss(a.call))
        /\ a.profit \in Nat
        /\ a.put.credit + a.call.credit <= a.profit + 2
    BY <1>4 DEF Sound
  <2>2. /\ IsLeg(a.put) /\ a.put.long < a.put.short
        /\ IsLeg(a.call) /\ a.call.short < a.call.long
        /\ a.put.credit > 0 /\ a.call.credit > 0
    BY <2>1 DEF IsPutLeg, IsCallLeg
  <2>3. a.loss \in Int
    BY <2>1, <2>2 DEF IsLeg, PutLoss, CallLoss, Greater
  <2>4. \A leg \in {a.put, a.call} :
           leg.short \in Nat /\ leg.long \in Nat /\ leg.credit \in Nat
    BY <2>2 DEF IsLeg
  <2>5. QED
    BY <1>4, <2>1, <2>3, <2>4
<1>5. QED
  BY <1>1, <1>2, <1>3, <1>4 DEF Sound

(***************************************************************************)
(* The inductive invariant.  What the analysis is at any node follows from *)
(* the market and the attempts, and the score from the analysis.           *)
(***************************************************************************)

GraphInv ==
    /\ node \in {"fetch", "analyze", "assess", "gate", "end"}
    /\ market \in Markets \union {NoMarket}
    /\ attempts \in 0 .. MaxAttempts
    /\ node \in {"fetch", "analyze"} => attempts < MaxAttempts
    /\ node = "fetch" => attempts = 0
    /\ node \in {"assess", "gate", "end"} => attempts > 0
    /\ IF attempts = 0 \/ market = NoMarket
         THEN analysis = NoTrade
         ELSE analysis \in Analyses(market, TargetWidth(attempts - 1))
    /\ score \in Int
    /\ node \in {"gate", "end"} => score \in Scores(analysis)
    /\ node = "end" /\ attempts < MaxAttempts => score <= 700

\* A target width is positive (spread_width).
LEMMA WidthPositive ==
    ASSUME NEW n \in Nat
    PROVE  TargetWidth(n) \in Nat \ {0}
<1>1. n * BaseWidth \in Nat
  BY WidthAssumption
<1>2. QED
  BY <1>1, WidthAssumption DEF TargetWidth

\* The analysis is sound for some market, if only for want of any.
LEMMA AnalysisSound ==
    ASSUME GraphInv
    PROVE  analysis = NoTrade \/ (market \in Markets /\ Sound(market, analysis))
<1>1. CASE attempts = 0 \/ market = NoMarket
  BY <1>1 DEF GraphInv
<1>2. CASE ~(attempts = 0 \/ market = NoMarket)
  <2>1. market \in Markets /\ attempts - 1 \in Nat
    BY <1>2 DEF GraphInv
  <2>2. TargetWidth(attempts - 1) \in Nat \ {0}
    BY <2>1, WidthPositive
  <2>3. analysis \in Analyses(market, TargetWidth(attempts - 1))
    BY <1>2 DEF GraphInv
  <2>4. QED
    BY <2>1, <2>2, <2>3, AnalysesSound
<1>3. QED
  BY <1>1, <1>2

\* Profit and loss are integers.
LEMMA AnalysisType ==
    ASSUME GraphInv
    PROVE  /\ analysis.strategy
                \in {"none", "Bull Put Spread", "Bear Call Spread", "Iron Condor"}
           /\ \A leg \in {analysis.put, analysis.call} :
                 leg.short \in Nat /\ leg.long \in Nat /\ leg.credit \in Nat
           /\ analysis.profit \in Nat /\ analysis.loss \in Int
<1>1. CASE analysis = NoTrade
  BY <1>1 DEF NoTrade, Analysis, NoLeg
<1>2. CASE market \in Markets /\ Sound(market, analysis)
  BY <1>2, SoundType
<1>3. QED
  BY <1>1, <1>2, AnalysisSound

\* A score is a whole number of thousandths (assess_risk_node).
LEMMA ScoreType ==
    ASSUME NEW a, a.profit \in Nat, a.loss \in Int, NEW n \in Scores(a)
    PROVE  n \in Int
<1>1. CASE n = 1000
  BY <1>1
<1>2. CASE Total(a) > 0 /\ n \in Thousandths(a)
  <2>1. Total(a) \in Int /\ 1000 * a.loss \in Int
    BY DEF Total
  <2>2. (1000 * a.loss) \div Total(a) \in Int
    BY <1>2, <2>1
  <2>3. n \in {(1000 * a.loss) \div Total(a), (1000 * a.loss) \div Total(a) + 1}
    BY <1>2 DEF Thousandths
  <2>4. QED
    BY <2>2, <2>3
<1>3. Total(a) \in Int
  BY DEF Total
<1>4. QED
  BY <1>1, <1>2, <1>3 DEF Scores

\* The graph starts in it.
LEMMA InitGraphInv ==
    Init => GraphInv
BY AttemptsAssumption DEF Init, GraphInv

\* Every node and the conditional edge preserve it.
LEMMA NextGraphInv ==
    GraphInv /\ [Next]_vars => GraphInv'
<1> SUFFICES ASSUME GraphInv, [Next]_vars PROVE GraphInv'
  OBVIOUS
<1> USE DEF GraphInv
<1>1. CASE Fetch
  BY <1>1, NoMarketAssumption DEF Fetch
<1>2. CASE FetchFails
  BY <1>2 DEF FetchFails
<1>3. CASE Skip
  BY <1>3, AttemptsAssumption DEF Skip
<1>4. CASE Analyze
  <2>1. attempts' = attempts + 1 /\ attempts' \in 0 .. MaxAttempts /\ attempts' > 0
    BY <1>4, AttemptsAssumption DEF Analyze
  <2>2. attempts' - 1 = attempts
    BY <2>1
  <2>3. analysis' \in Analyses(market', TargetWidth(attempts' - 1))
    BY <1>4, <2>2 DEF Analyze
  <2>4. QED
    BY <1>4, <2>1, <2>3 DEF Analyze
<1>5. CASE Assess
  <2>1. score' \in Int
    BY <1>5, AnalysisType, ScoreType DEF Assess
  <2>2. score' \in Scores(analysis')
    BY <1>5 DEF Assess
  <2>3. QED
    BY <1>5, <2>1, <2>2 DEF Assess
<1>6. CASE Recalculate
  BY <1>6 DEF Recalculate, TooRisky
<1>7. CASE Finalize
  BY <1>7, AttemptsAssumption DEF Finalize, TooRisky
<1>8. CASE UNCHANGED vars
  BY <1>8 DEF vars
<1>9. QED
  BY <1>1, <1>2, <1>3, <1>4, <1>5, <1>6, <1>7, <1>8 DEF Next

\* The invariant holds in every state of every run of the graph.
THEOREM GraphInvariant == Spec => []GraphInv
BY InitGraphInv, NextGraphInv, PTL DEF Spec

(***************************************************************************)
(* The theorems.                                                           *)
(***************************************************************************)

\* The state of the graph keeps its types: in particular no run attempts more
\* than MaxAttempts analyses (risk_gatekeeper).
THEOREM TypeCorrect == Spec => []TypeOK
<1>1. GraphInv => TypeOK
  BY AnalysisType DEF GraphInv, TypeOK
<1>2. QED
  BY <1>1, GraphInvariant, PTL

\* A reported trade pays within its reported loss and profit at whatever price
\* the stock settles (_spread_result, _find_iron_condor).
THEOREM PayoffCorrect == Spec => []PayoffBounded
<1>1. GraphInv => PayoffBounded
  <2> SUFFICES ASSUME GraphInv, NEW s \in Settlements
               PROVE  /\ -analysis.loss <= Payoff(analysis, s)
                      /\ Payoff(analysis, s) <= analysis.profit + RoundingError(analysis)
    BY DEF PayoffBounded
  <2>1. s \in Nat
    BY SettlementsAssumption
  <2>2. CASE analysis = NoTrade
    BY <2>1, <2>2, NoLegPays, NoTradeIs DEF Payoff, RoundingError
  <2>3. CASE market \in Markets /\ Sound(market, analysis)
    BY <2>1, <2>3, SoundPays
  <2>4. QED
    BY <2>2, <2>3, AnalysisSound
<1>2. QED
  BY <1>1, GraphInvariant, PTL

\* A multiple of a positive number grows with the factor.
LEMMA TimesMonotone ==
    ASSUME NEW n \in Int, NEW t \in Int, t > 0, n <= 700
    PROVE  n * t <= 700 * t
<1>1. (700 - n) * t >= 0
  OBVIOUS
<1>2. (700 - n) * t = 700 * t - n * t
  OBVIOUS
<1>3. QED
  BY <1>1, <1>2

\* A score within the limit, before the last attempt, is that of a real trade
\* and truly within half a thousandth of the limit (assess_risk_node,
\* risk_gatekeeper).
THEOREM RiskAccepted == Spec => []AcceptedRisk
<1>1. GraphInv => AcceptedRisk
  <2> SUFFICES ASSUME GraphInv, node = "end", attempts < MaxAttempts
               PROVE  /\ analysis.strategy # "none"
                      /\ 2000 * analysis.loss <= 1401 * Total(analysis)
    BY DEF AcceptedRisk
  <2>1. score \in Scores(analysis) /\ score <= 700 /\ score \in Int
    BY DEF GraphInv
  <2>2. analysis.profit \in Nat /\ analysis.loss \in Int
    BY AnalysisType
  <2>3. Total(analysis) \in Int
    BY <2>2 DEF Total
  <2>4. /\ analysis.strategy # "none" /\ Total(analysis) > 0
        /\ score \in Thousandths(analysis)
    BY <2>1, <2>3 DEF Scores
  <2>5. 2 * (1000 * analysis.loss - score * Total(analysis)) <= Total(analysis)
    BY <2>4 DEF Thousandths
  <2>6. score * Total(analysis) <= 700 * Total(analysis)
    BY <2>1, <2>3, <2>4, TimesMonotone
  <2>7. score * Total(analysis) \in Int
    BY <2>1, <2>3
  <2>8. 2000 * analysis.loss <= 1401 * Total(analysis)
    BY <2>2, <2>3, <2>5, <2>6, <2>7
  <2>9. QED
    BY <2>4, <2>8
<1>2. QED
  BY <1>1, GraphInvariant, PTL

(***************************************************************************)
(* Wider spreads.                                                          *)
(***************************************************************************)

\* Three convex prices: the farther long option, of width v, gives no more
\* credit per width than the nearer one, of width w.  x is the price of the
\* short option, y and z are those of the long ones.
LEMMA ConvexShares ==
    ASSUME NEW v \in Int, NEW w \in Int, NEW x \in Int, NEW y \in Int, NEW z \in Int,
           v * y <= w * z + (v - w) * x
    PROVE  (w - (x - y)) * v <= (v - (x - z)) * w
<1>1. (v - w) * x = v * x - w * x
  OBVIOUS
<1>2. (w - (x - y)) * v = w * v - v * x + v * y
  OBVIOUS
<1>3. (v - (x - z)) * w = v * w - w * x + w * z
  OBVIOUS
<1>4. w * v = v * w
  OBVIOUS
<1>5. QED
  BY <1>1, <1>2, <1>3, <1>4

\* Of two put legs from the same convex chain, the one with the wider target
\* risks no smaller share (_find_bull_put_spread).
LEMMA WiderPut ==
    ASSUME NEW m \in Markets, Convex(m.puts),
           NEW w \in Nat \ {0}, NEW v \in Nat \ {0}, w <= v,
           NEW p \in PutLegs(m, w), NEW q \in PutLegs(m, v)
    PROVE  PutLoss(p) * (q.credit + PutLoss(q)) <= PutLoss(q) * (p.credit + PutLoss(p))
<1>1. PICK s, l \in Liquid(m.puts) :
              /\ s \in Nat /\ l \in Nat /\ m.puts[s] \in Nat /\ m.puts[l] \in Nat
              /\ p = [short |-> s, long |-> l, credit |-> m.puts[s] - m.puts[l]]
              /\ ShortPut(m, s) /\ LongPut(m, s, l, w)
              /\ m.puts[s] > m.puts[l]
  BY PutLegFacts
<1>2. PICK t, k \in Liquid(m.puts) :
              /\ t \in Nat /\ k \in Nat /\ m.puts[t] \in Nat /\ m.puts[k] \in Nat
              /\ q = [short |-> t, long |-> k, credit |-> m.puts[t] - m.puts[k]]
              /\ ShortPut(m, t) /\ LongPut(m, t, k, v)
              /\ m.puts[t] > m.puts[k]
  BY PutLegFacts
<1>3. s = t
  BY <1>1, <1>2 DEF ShortPut
<1>4. k <= s - v /\ l <= s - w /\ (k <= s - w => k <= l)
  BY <1>1, <1>2, <1>3 DEF LongPut
<1>5. k <= l /\ l < s
  BY <1>1, <1>2, <1>4
<1>6. /\ PutLoss(p) = (s - l) - (m.puts[s] - m.puts[l])
      /\ PutLoss(q) = (s - k) - (m.puts[s] - m.puts[k])
      /\ p.credit + PutLoss(p) = s - l
      /\ q.credit + PutLoss(q) = s - k
  BY <1>1, <1>2, <1>3 DEF PutLoss
<1>7. (s - k) * m.puts[l] <= (s - l) * m.puts[k] + ((s - k) - (s - l)) * m.puts[s]
  <2>1. CASE k = l
    <3>1. (s - k) - (s - l) = 0
      BY <2>1, <1>1
    <3>2. QED
      BY <2>1, <3>1, <1>1, <1>2
  <2>2. CASE k < l
    <3>1. (s - k) * m.puts[l] <= (s - l) * m.puts[k] + (l - k) * m.puts[s]
      BY <2>2, <1>5 DEF Convex
    <3>2. (s - k) - (s - l) = l - k
      BY <1>1, <1>2
    <3>3. QED
      BY <3>1, <3>2
  <2>3. QED
    BY <1>1, <1>2, <1>5, <2>1, <2>2
<1>8. ((s - l) - (m.puts[s] - m.puts[l])) * (s - k)
        <= ((s - k) - (m.puts[s] - m.puts[k])) * (s - l)
  <2>1. s - l \in Int /\ s - k \in Int
    BY <1>1, <1>2
  <2>2. QED
    BY <1>1, <1>2, <1>7, <2>1, ConvexShares
<1>9. QED
  BY <1>6, <1>8

\* The same of two call legs (_find_bear_call_spread).
LEMMA WiderCall ==
    ASSUME NEW m \in Markets, Convex(m.calls),
           NEW w \in Nat \ {0}, NEW v \in Nat \ {0}, w <= v,
           NEW p \in CallLegs(m, w), NEW q \in CallLegs(m, v)
    PROVE  CallLoss(p) * (q.credit + CallLoss(q)) <= CallLoss(q) * (p.credit + CallLoss(p))
<1>1. PICK s, l \in Liquid(m.calls) :
              /\ s \in Nat /\ l \in Nat /\ m.calls[s] \in Nat /\ m.calls[l] \in Nat
              /\ p = [short |-> s, long |-> l, credit |-> m.calls[s] - m.calls[l]]
              /\ ShortCall(m, s) /\ LongCall(m, s, l, w)
              /\ m.calls[s] > m.calls[l]
  BY CallLegFacts
<1>2. PICK t, k \in Liquid(m.calls) :
              /\ t \in Nat /\ k \in Nat /\ m.calls[t] \in Nat /\ m.calls[k] \in Nat
              /\ q = [short |-> t, long |-> k, credit |-> m.calls[t] - m.calls[k]]
              /\ ShortCall(m, t) /\ LongCall(m, t, k, v)
              /\ m.calls[t] > m.calls[k]
  BY CallLegFacts
<1>3. s = t
  BY <1>1, <1>2 DEF ShortCall
<1>4. k >= s + v /\ l >= s + w /\ (k >= s + w => k >= l)
  BY <1>1, <1>2, <1>3 DEF LongCall
<1>5. l <= k /\ s < l
  BY <1>1, <1>2, <1>4
<1>6. /\ CallLoss(p) = (l - s) - (m.calls[s] - m.calls[l])
      /\ CallLoss(q) = (k - s) - (m.calls[s] - m.calls[k])
      /\ p.credit + CallLoss(p) = l - s
      /\ q.credit + CallLoss(q) = k - s
  BY <1>1, <1>2, <1>3 DEF CallLoss
<1>7. (k - s) * m.calls[l] <= (l - s) * m.calls[k] + ((k - s) - (l - s)) * m.calls[s]
  <2>1. CASE k = l
    <3>1. (k - s) - (l - s) = 0
      BY <2>1, <1>1
    <3>2. QED
      BY <2>1, <3>1, <1>1, <1>2
  <2>2. CASE l < k
    <3>1. (k - s) * m.calls[l] <= (k - l) * m.calls[s] + (l - s) * m.calls[k]
      BY <2>2, <1>5 DEF Convex
    <3>2. (k - s) - (l - s) = k - l
      BY <1>1, <1>2
    <3>3. (k - l) * m.calls[s] \in Int /\ (l - s) * m.calls[k] \in Int
      BY <1>1, <1>2
    <3>4. QED
      BY <3>1, <3>2, <3>3
  <2>3. QED
    BY <1>1, <1>2, <1>5, <2>1, <2>2
<1>8. ((l - s) - (m.calls[s] - m.calls[l])) * (k - s)
        <= ((k - s) - (m.calls[s] - m.calls[k])) * (l - s)
  <2>1. l - s \in Int /\ k - s \in Int
    BY <1>1, <1>2
  <2>2. QED
    BY <1>1, <1>2, <1>7, <2>1, ConvexShares
<1>9. QED
  BY <1>6, <1>8

\* Each builder names its strategy.
LEMMA StrategyNames ==
    ASSUME NEW m \in Markets, NEW w \in Nat \ {0}
    PROVE  /\ \A c \in BullPutSpreads(m, w) : c.strategy = "Bull Put Spread"
           /\ \A c \in BearCallSpreads(m, w) : c.strategy = "Bear Call Spread"
           /\ \A c \in IronCondors(m, w) : c.strategy = "Iron Condor"
<1>1. ASSUME NEW c \in BullPutSpreads(m, w) PROVE c.strategy = "Bull Put Spread"
  <2>1. PICK p \in PutLegs(m, w) :
           c = Analysis("Bull Put Spread", p, NoLeg, p.credit, PutLoss(p))
    BY DEF BullPutSpreads
  <2>2. QED
    BY <2>1 DEF Analysis
<1>2. ASSUME NEW c \in BearCallSpreads(m, w) PROVE c.strategy = "Bear Call Spread"
  <2>1. PICK p \in CallLegs(m, w) :
           c = Analysis("Bear Call Spread", NoLeg, p, p.credit, CallLoss(p))
    BY DEF BearCallSpreads
  <2>2. QED
    BY <2>1 DEF Analysis
<1>3. ASSUME NEW c \in IronCondors(m, w) PROVE c.strategy = "Iron Condor"
  <2>1. PICK p \in PutLegs(m, w), q \in CallLegs(m, w) : c \in CondorsOf(p, q)
    BY DEF IronCondors
  <2>2. PICK n \in RoundedSums(p.credit, q.credit) :
           c = Analysis("Iron Condor", p, q, n, Greater(PutLoss(p), CallLoss(q)))
    BY <2>1 DEF CondorsOf
  <2>3. QED
    BY <2>2 DEF Analysis
<1>4. QED
  BY <1>1, <1>2, <1>3

\* Two analyses of the same kind of spread, of the same market without arbitrage:
\* the one with the wider target risks no smaller share.
LEMMA WiderSpread ==
    ASSUME NEW m \in Markets, ArbitrageFree(m),
           NEW w \in Nat \ {0}, NEW v \in Nat \ {0}, w <= v,
           NEW a \in Analyses(m, w), NEW b \in Analyses(m, v),
           a.strategy \in Spreads, b.strategy = a.strategy
    PROVE  a.loss * Total(b) <= b.loss * Total(a)
<1>1. /\ \A c \in BullPutSpreads(m, w) : c.strategy = "Bull Put Spread"
      /\ \A c \in BullPutSpreads(m, v) : c.strategy = "Bull Put Spread"
  BY StrategyNames
<1>2. /\ \A c \in BearCallSpreads(m, w) : c.strategy = "Bear Call Spread"
      /\ \A c \in BearCallSpreads(m, v) : c.strategy = "Bear Call Spread"
  BY StrategyNames
<1>3. /\ \A c \in IronCondors(m, w) : c.strategy = "Iron Condor"
      /\ \A c \in IronCondors(m, v) : c.strategy = "Iron Condor"
  BY StrategyNames
<1>4. \/ a = NoTrade \/ a \in BullPutSpreads(m, w)
      \/ a \in BearCallSpreads(m, w) \/ a \in IronCondors(m, w)
  BY AnalysesAre
<1>5. \/ b = NoTrade \/ b \in BullPutSpreads(m, v)
      \/ b \in BearCallSpreads(m, v) \/ b \in IronCondors(m, v)
  BY AnalysesAre
<1>6. CASE a.strategy = "Bull Put Spread"
  <2>1. a \in BullPutSpreads(m, w) /\ b \in BullPutSpreads(m, v)
    BY <1>1, <1>2, <1>3, <1>4, <1>5, <1>6, NoTradeIs
  <2>2. PICK p \in PutLegs(m, w) :
           a = Analysis("Bull Put Spread", p, NoLeg, p.credit, PutLoss(p))
    BY <2>1 DEF BullPutSpreads
  <2>3. PICK q \in PutLegs(m, v) :
           b = Analysis("Bull Put Spread", q, NoLeg, q.credit, PutLoss(q))
    BY <2>1 DEF BullPutSpreads
  <2>4. PutLoss(p) * (q.credit + PutLoss(q)) <= PutLoss(q) * (p.credit + PutLoss(p))
    BY WiderPut DEF ArbitrageFree
  <2>5. /\ a.loss = PutLoss(p) /\ Total(a) = p.credit + PutLoss(p)
        /\ b.loss = PutLoss(q) /\ Total(b) = q.credit + PutLoss(q)
    BY <2>2, <2>3 DEF Analysis, Total
  <2>6. QED
    BY <2>4, <2>5
<1>7. CASE a.strategy = "Bear Call Spread"
  <2>1. a \in BearCallSpreads(m, w) /\ b \in BearCallSpreads(m, v)
    BY <1>1, <1>2, <1>3, <1>4, <1>5, <1>7, NoTradeIs
  <2>2. PICK p \in CallLegs(m, w) :
           a = Analysis("Bear Call Spread", NoLeg, p, p.credit, CallLoss(p))
    BY <2>1 DEF BearCallSpreads
  <2>3. PICK q \in CallLegs(m, v) :
           b = Analysis("Bear Call Spread", NoLeg, q, q.credit, CallLoss(q))
    BY <2>1 DEF BearCallSpreads
  <2>4. CallLoss(p) * (q.credit + CallLoss(q)) <= CallLoss(q) * (p.credit + CallLoss(p))
    BY WiderCall DEF ArbitrageFree
  <2>5. /\ a.loss = CallLoss(p) /\ Total(a) = p.credit + CallLoss(p)
        /\ b.loss = CallLoss(q) /\ Total(b) = q.credit + CallLoss(q)
    BY <2>2, <2>3 DEF Analysis, Total
  <2>6. QED
    BY <2>4, <2>5
<1>8. QED
  BY <1>6, <1>7 DEF Spreads

\* Each attempt aims at a greater width than the one before (spread_width).
LEMMA WidthGrows ==
    ASSUME NEW n \in Nat
    PROVE  TargetWidth(n) <= TargetWidth(n + 1)
<1>1. (n + 1) * BaseWidth = n * BaseWidth + BaseWidth /\ n * BaseWidth \in Nat
  BY WidthAssumption
<1>2. QED
  BY <1>1, WidthAssumption DEF TargetWidth

\* Against analyze_options_strategy_node's docstring: at prices without
\* arbitrage no recalculation makes a spread safer, whatever the chain.
THEOREM WideningFutile == Spec => WideningNeverSafer
<1>1. GraphInv /\ Next =>
        (/\ node = "analyze" /\ market # NoMarket /\ attempts > 0
         /\ ArbitrageFree(market)
         /\ analysis.strategy \in Spreads /\ analysis'.strategy = analysis.strategy
         => analysis.loss * Total(analysis') <= analysis'.loss * Total(analysis))
  <2> SUFFICES ASSUME GraphInv, Next,
                      node = "analyze", market # NoMarket, attempts > 0,
                      ArbitrageFree(market),
                      analysis.strategy \in Spreads,
                      analysis'.strategy = analysis.strategy
               PROVE  analysis.loss * Total(analysis') <= analysis'.loss * Total(analysis)
    OBVIOUS
  <2>1. Analyze
    BY DEF Next, Fetch, FetchFails, Skip, Assess, Recalculate, Finalize
  <2>2. market \in Markets /\ attempts \in Nat /\ attempts - 1 \in Nat
    BY DEF GraphInv
  <2>3. analysis \in Analyses(market, TargetWidth(attempts - 1))
    BY DEF GraphInv
  <2>4. analysis' \in Analyses(market, TargetWidth(attempts))
    BY <2>1 DEF Analyze
  <2>5. /\ TargetWidth(attempts - 1) \in Nat \ {0} /\ TargetWidth(attempts) \in Nat \ {0}
        /\ TargetWidth(attempts - 1) <= TargetWidth(attempts)
    <3>1. (attempts - 1) + 1 = attempts
      BY <2>2
    <3>2. QED
      BY <2>2, <3>1, WidthPositive, WidthGrows
  <2>6. \A a \in Analyses(market, TargetWidth(attempts - 1)) :
        \A b \in Analyses(market, TargetWidth(attempts)) :
           a.strategy \in Spreads /\ b.strategy = a.strategy
             => a.loss * Total(b) <= b.loss * Total(a)
    BY <2>2, <2>5, WiderSpread
  <2>7. Total(analysis') = Total(analysis)'
    BY DEF Total
  <2>8. QED
    BY <2>3, <2>4, <2>6
<1>2. QED
  BY <1>1, GraphInvariant, PTL DEF Spec, WideningNeverSafer

(***************************************************************************)
(* The safety half of RunEnds: every node has a result, and what is left   *)
(* of a run only gets less.                                                *)
(***************************************************************************)

\* The steps that a run has before it at most: three for each attempt that is left.
StepsLeft ==
    [fetch   |-> 3 * (MaxAttempts - attempts) + 1,
     analyze |-> 3 * (MaxAttempts - attempts),
     assess  |-> 3 * (MaxAttempts - attempts) + 2,
     gate    |-> 3 * (MaxAttempts - attempts) + 1,
     end     |-> 0][node]

\* Every step of the graph leaves less to do (risk_gatekeeper).
RunAdvances == [][StepsLeft' < StepsLeft]_vars

\* The nodes that compute something return: whatever the market, a strategy is
\* found or none, and its risk has a score.
NodesReturn ==
    /\ node = "analyze" /\ market # NoMarket => Analyses(market, TargetWidth(attempts)) # {}
    /\ node = "assess" => Scores(analysis) # {}

\* Division rounds down.
LEMMA Division ==
    ASSUME NEW y \in Int, NEW t \in Int, t > 0
    PROVE  /\ y \div t \in Int /\ (y \div t) * t \in Int /\ ((y \div t) + 1) * t \in Int
           /\ (y \div t) * t <= y /\ y < (y \div t) * t + t
           /\ ((y \div t) + 1) * t = (y \div t) * t + t
OBVIOUS

\* One of the two thousandths next to a share is the nearest.
LEMMA ThousandthsExist ==
    ASSUME NEW a, a.loss \in Int, Total(a) \in Int, Total(a) > 0
    PROVE  Thousandths(a) # {}
<1> DEFINE d == (1000 * a.loss) \div Total(a)
           Near(n) == /\ 2 * (n * Total(a) - 1000 * a.loss) <= Total(a)
                      /\ 2 * (1000 * a.loss - n * Total(a)) <= Total(a)
<1>1. 1000 * a.loss \in Int
  OBVIOUS
<1>2. /\ d * Total(a) \in Int /\ (d + 1) * Total(a) = d * Total(a) + Total(a)
      /\ d * Total(a) <= 1000 * a.loss /\ 1000 * a.loss < d * Total(a) + Total(a)
  BY <1>1, Division
<1>3. Near(d) \/ Near(d + 1)
  <2>1. \A p, y, t \in Int : p <= y /\ y < p + t /\ t > 0 =>
           \/ 2 * (p - y) <= t /\ 2 * (y - p) <= t
           \/ 2 * ((p + t) - y) <= t /\ 2 * (y - (p + t)) <= t
    OBVIOUS
  <2> HIDE DEF d
  <2>2. QED
    BY <1>1, <1>2, <2>1
<1>4. Thousandths(a) = {n \in {d, d + 1} : Near(n)}
  BY Zenon DEF Thousandths
<1>5. QED
  <2> HIDE DEF d, Near
  <2>1. QED
    BY <1>3, <1>4

\* The invariant excludes a node without a result.
LEMMA ResultsExist ==
    GraphInv => NodesReturn
<1> SUFFICES ASSUME GraphInv PROVE NodesReturn
  OBVIOUS
<1>1. ASSUME NEW m, NEW w PROVE Analyses(m, w) # {}
  <2>1. \A A, B : B # {} => FirstOf(A, B) # {}
    BY DEF FirstOf
  <2>2. FirstOf(BullPutSpreads(m, w), FirstOf(BearCallSpreads(m, w), {NoTrade})) # {}
    BY <2>1
  <2>3. \E A : Analyses(m, w)
                 = FirstOf(A, FirstOf(BullPutSpreads(m, w), FirstOf(BearCallSpreads(m, w), {NoTrade})))
    BY Zenon DEF Analyses
  <2>4. QED
    BY <2>1, <2>2, <2>3
<1>2. Scores(analysis) # {}
  <2>0. analysis.profit \in Nat /\ analysis.loss \in Int
    BY AnalysisType, Zenon
  <2>1. analysis.loss \in Int /\ Total(analysis) \in Int
    BY <2>0 DEF Total
  <2>2. CASE Total(analysis) > 0
    BY <2>1, <2>2, ThousandthsExist DEF Scores
  <2>3. CASE ~(Total(analysis) > 0)
    BY <2>1, <2>3 DEF Scores
  <2>4. QED
    BY <2>2, <2>3
<1>3. QED
  BY <1>1, <1>2 DEF NodesReturn

\* What is left is a number that every step makes smaller.
LEMMA LessLeft ==
    /\ GraphInv => StepsLeft \in 0 .. 3 * MaxAttempts + 1
    /\ GraphInv /\ Next => StepsLeft' < StepsLeft
<1>1. GraphInv => StepsLeft \in 0 .. 3 * MaxAttempts + 1
  BY AttemptsAssumption DEF GraphInv, StepsLeft
<1>2. ASSUME GraphInv, Next PROVE StepsLeft' < StepsLeft
  <2>1. /\ node \in {"fetch", "analyze", "assess", "gate", "end"}
        /\ attempts \in 0 .. MaxAttempts /\ MaxAttempts \in Nat
        /\ node \in {"fetch", "analyze"} => attempts < MaxAttempts
    BY <1>2, AttemptsAssumption DEF GraphInv
  <2>2. CASE Fetch \/ FetchFails
    BY <2>1, <2>2 DEF Fetch, FetchFails, StepsLeft
  <2>3. CASE Skip \/ Analyze
    BY <2>1, <2>3 DEF Skip, Analyze, StepsLeft
  <2>4. CASE Assess
    BY <2>1, <2>4 DEF Assess, StepsLeft
  <2>5. CASE Recalculate \/ Finalize
    BY <2>1, <2>5 DEF Recalculate, Finalize, StepsLeft
  <2>6. QED
    BY <1>2, <2>2, <2>3, <2>4, <2>5 DEF Next
<1>3. QED
  BY <1>1, <1>2

\* A run of the graph takes at most 3 * MaxAttempts + 1 steps, and never stops
\* before its end for want of a result, whatever the market data.
THEOREM RunBounded ==
    Spec => /\ [](StepsLeft \in 0 .. 3 * MaxAttempts + 1)
            /\ RunAdvances
            /\ []NodesReturn
<1>1. GraphInv /\ [Next]_vars => [StepsLeft' < StepsLeft]_vars
  BY LessLeft
<1>2. GraphInv => StepsLeft \in 0 .. 3 * MaxAttempts + 1
  BY LessLeft
<1>3. QED
  BY <1>1, <1>2, ResultsExist, GraphInvariant, PTL DEF Spec, RunAdvances
=============================================================================
