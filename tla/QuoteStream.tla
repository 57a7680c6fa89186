----------------------------- MODULE QuoteStream -----------------------------
(***************************************************************************)
(* One stock through a trading day, in prices: the quotes of the feed go   *)
(* through CalcLimitUpPrice, QuoteClass and NextLimitState.  The classes   *)
(* PoolMonitor takes as given come from here.                              *)
(***************************************************************************)
EXTENDS LimitDetect

CONSTANT PreCloses  \* the previous closes considered, in fen

\* Below 20 fen a limit price, rounded to the fen, can be less than 5% up.
ASSUME PreClosesAssumption == PreCloses \subseteq {p \in Nat : p >= 20}

VARIABLES
  prefix,    \* of the stock's symbol, which decides the board
  preClose,
  threshold, \* the limit-up price the code computes for this stock
  price,     \* of the last quote
  state      \* stockStates[tsCode]

vars == <<prefix, preClose, threshold, price, state>>

Ratio == LimitUpRatio(DetectBoard(prefix))

\* The exchange's limit price: the exact product rounded half up to the fen.
\* Trades above it do not happen.  preClose has a nominal ratio per board.
NominalRatio(board) ==
  CASE board = "Main" -> 10 [] board \in {"GEM", "STAR"} -> 20 [] OTHER -> 30

ExchangeLimit ==
  (preClose * (100 + NominalRatio(DetectBoard(prefix))) + 50) \div 100

Init ==
  /\ prefix \in Prefixes
  /\ preClose \in PreCloses
  /\ threshold \in CalcLimitUpPrice(preClose, Ratio)
  /\ price = preClose
  /\ state = "None"

Class == QuoteClass(preClose, price, threshold)

\* A quote at any price the exchange allows, judged by the next tick.
Quote ==
  /\ price' \in 1..ExchangeLimit
  /\ state' = NextLimitState(QuoteClass(preClose, price', threshold), state)
  /\ UNCHANGED <<prefix, preClose, threshold>>

Spec == Init /\ [][Quote]_vars

-------------------------------------------------------------------------------
\* A stock at the exchange's limit price is sealed: neither the truncation nor
\* the error of the doubles puts the computed price above the exchange's.
LimitIsSealed == price = ExchangeLimit => state \in SealedStates

\* A sealed stock is at most one fen away from the exchange's limit price.
SealedIsNearLimit == state \in SealedStates => price >= ExchangeLimit - 1

\* A sealed stock passes the 5% filter of FetchAllQuotes, which knows nothing of
\* limit-up prices: otherwise the tick would never see it.
SealedIsFetched == state \in SealedStates => Above5Pct(preClose, price)
===============================================================================
