------------------------------- MODULE Routing -------------------------------
(***************************************************************************)
(* How a chat query is routed: the loop of classify_intent over the routes *)
(* (src/agents/semantic_router.py), and the ticker of a financial_quant    *)
(* query (src/main.py).                                                    *)
(*                                                                         *)
(* A query is what these two see of it: its similarity with each anchor    *)
(* phrase, which the embedding model gives, and its words.  Similarities   *)
(* are integers on a scale finer than the confidence that is reported.     *)
(***************************************************************************)
EXTENDS Integers, SequencesExt

CONSTANTS
    Order,          \* the routes in the order of the dict
    Anchors,        \* Anchors[i]: the anchor phrases of route i
    Fallback,       \* "casual_chat"
    FinancialQuant, \* "financial_quant"
    Scores,         \* similarities
    Threshold,      \* threshold (0.5)
    Grain,          \* 0.001 on the scale of Scores, which holds no halves of it
    Tickers,        \* words of one to five capital letters that are no stop words
    Stop,           \* _stop
    Prose,          \* any other word
    Default,        \* "SPY"
    MaxWords        \* bound: words in a query

Routes == {Order[n] : n \in DOMAIN Order}
Phrases == UNION {Anchors[i] : i \in Routes}

ASSUME OrderAssumption ==
    /\ Order \in Seq(STRING)
    /\ \A m, n \in DOMAIN Order : Order[m] = Order[n] => m = n
    /\ {Fallback, FinancialQuant} \subseteq Routes
ASSUME AnchorsAssumption ==
    \A i \in Routes : IsFiniteSet(Anchors[i]) /\ Anchors[i] # {}
ASSUME ScoresAssumption == Scores \subseteq Int /\ Threshold \in Nat \ {0} /\ Grain \in Nat \ {0}
ASSUME WordsAssumption  == Tickers \intersect Stop = {} /\ Prose \notin Tickers \union Stop
                           /\ MaxWords \in Nat

VARIABLES
    similarity, \* similarity[a]: of the query with anchor phrase a
    words,      \* the words of the query, each with or without a "$"
    next,       \* the place in Order that the loop has come to
    best,       \* best_intent
    highest,    \* highest_score
    intent,     \* what classify_intent returns,
    confidence, \*   and with which confidence
    ticker,     \* what _extract_ticker returns
    phase       \* "classify", "extract", "done"

query == <<similarity, words>>
routingVars == <<similarity, words, next, best, highest, intent, confidence, ticker, phase>>

Word == [dollar : BOOLEAN, text : Tickers \union Stop \union {Prose}]

----------------------------------------------------------------------------
\* max_sim
MaxSim(i) == Max({similarity[a] : a \in Anchors[i]})

Better_OrEqual(score) == score >= highest   \* fault: >= for >

\* The first of equally similar routes stays.
Better(score) == score > highest

Compare ==
    /\ phase = "classify" /\ next <= Len(Order)
    /\ LET score == MaxSim(Order[next])
       IN  /\ highest' = IF Better(score) THEN score ELSE highest
           /\ best'    = IF Better(score) THEN Order[next] ELSE best
    /\ next' = next + 1
    /\ UNCHANGED <<query, intent, confidence, ticker, phase>>

\* round(highest_score, 3)
Rounded(score) == ((2 * score + Grain) \div (2 * Grain)) * Grain

\* route_traffic asks for a ticker when the intent is financial_quant.
Decide ==
    /\ phase = "classify" /\ next > Len(Order)
    /\ intent'     = IF highest >= Threshold THEN best ELSE Fallback
    /\ confidence' = Rounded(highest)
    /\ phase'      = IF intent' = FinancialQuant THEN "extract" ELSE "done"
    /\ UNCHANGED <<query, next, best, highest, ticker>>

Capitals(w) == w.text \in Tickers \union Stop

\* The places of the word that re.search finds, and of the first of candidates; 0
\* if there is none.
DollarMatch == SelectInSeq(words, LAMBDA w : w.dollar /\ Capitals(w))

Candidate == SelectInSeq(words, LAMBDA w : Capitals(w) /\ w.text \notin Stop)

Chosen_WordsFirst ==   \* fault: the "$" is looked at last
    IF Candidate # 0 THEN words[Candidate].text
    ELSE IF DollarMatch # 0 THEN words[DollarMatch].text ELSE Default

\* A word with a "$" is taken even if it is a stop word.
Chosen ==
    IF DollarMatch # 0 THEN words[DollarMatch].text
    ELSE IF Candidate # 0 THEN words[Candidate].text ELSE Default

ExtractTicker ==
    /\ phase = "extract"
    /\ ticker' = Chosen
    /\ phase'  = "done"
    /\ UNCHANGED <<query, next, best, highest, intent, confidence>>

----------------------------------------------------------------------------
RoutingInit ==
    /\ similarity \in [Phrases -> Scores]
    /\ words      \in UNION {[1 .. n -> Word] : n \in 0 .. MaxWords}
    /\ next       = 1
    /\ best       = Fallback
    /\ highest    = 0
    /\ intent     = Fallback
    /\ confidence = 0
    /\ ticker     = Default
    /\ phase      = "classify"

RoutingNext == Compare \/ Decide \/ ExtractTicker

RoutingSpec == RoutingInit /\ [][RoutingNext]_routingVars

----------------------------------------------------------------------------
(* What the routing promises.                                              *)

\* The loop finds the route with the most similar anchor, if that similarity reaches
\* the threshold or exceeds it, the first of several such routes; casual_chat
\* otherwise.  The confidence is the best similarity, never below 0, rounded: it is
\* within half of the last digit, also where the fallback is returned, which need not
\* be the route of that anchor.
ClassifiesBest ==
    phase # "classify" =>
        /\ IF \A i \in Routes : MaxSim(i) < Threshold THEN intent = Fallback
           ELSE \E m \in DOMAIN Order :
                   /\ intent = Order[m]
                   /\ MaxSim(intent) >= Threshold
                   /\ \A n \in DOMAIN Order :
                         /\ MaxSim(Order[n]) <= MaxSim(intent)
                         /\ n < m => MaxSim(Order[n]) < MaxSim(intent)
        /\ \E top \in {0} \union {MaxSim(i) : i \in Routes} :
              /\ top >= 0 /\ \A i \in Routes : MaxSim(i) <= top
              /\ 2 * confidence - 2 * top \in (-Grain) .. Grain

\* A word that may be the ticker, and which of two is preferred.
Eligible(m) == Capitals(words[m]) /\ (words[m].dollar \/ words[m].text \notin Stop)

Preferred(m, n) ==
    IF words[m].dollar = words[n].dollar THEN m <= n ELSE words[m].dollar

\* The ticker of a query is the first word written with a "$", else the first word in
\* capitals that is no stop word, and "SPY" only when there is none of either.
TickerPreferred ==
    phase = "done" /\ intent = FinancialQuant =>
        LET some == {m \in DOMAIN words : Eligible(m)}
        IN  IF some = {} THEN ticker = Default
            ELSE \E m \in some : ticker = words[m].text /\ \A n \in some : Preferred(m, n)
=============================================================================
