\* All queries of up to three words over two tickers, a stop word and prose, with
\* similarities that tie, are negative, or lie just below, at and above the threshold.
CONSTANTS
    Order <- MCOrder
    Anchors <- MCAnchors
    Fallback = "casual_chat"
    FinancialQuant = "financial_quant"
    Scores <- MCScores
    Threshold = 3
    Grain = 3
    Tickers = {NVDA, AAPL}
    Stop = {AI}
    Prose = prose
    Default = SPY
    MaxWords = 3
SPECIFICATION RoutingSpec
CHECK_DEADLOCK FALSE
INVARIANTS
    ClassifiesBest
    TickerPreferred
