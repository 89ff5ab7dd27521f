----------------------------- MODULE MCRouting -----------------------------
(***************************************************************************)
(* A small instance of Routing for TLC: the three routes in their order,   *)
(* one of them with two anchors.                                           *)
(***************************************************************************)
EXTENDS Routing

MCOrder   == <<"casual_chat", "financial_quant", "code_assistant">>
MCAnchors == [casual_chat     |-> {"hello"},
              financial_quant |-> {"earnings", "volatility"},
              code_assistant  |-> {"script"}]
MCScores  == {-1, 2, 3, 4}   \* opposed; rounded up to the threshold; at it; above it
=============================================================================
