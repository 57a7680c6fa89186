----------------------------- MODULE LimitDetect -----------------------------
(***************************************************************************)
(* internal/pkg/limiter/limit_calc.go: the limit-up price of a stock, and  *)
(* the four-valued limit state one quote moves a stock through.            *)
(*                                                                         *)
(* Prices are whole fen (1/100 yuan) and ratios whole percents, so the     *)
(* exact products of the code are integers.  What the code does in binary  *)
(* floating point is a set of outcomes: see CalcLimitUpPrice.              *)
(***************************************************************************)
EXTENDS Integers

\* dal_model.LimitStateNone / LimitUp / Opened / ReSealed.
LimitStates == {"None", "LimitUp", "Opened", "ReSealed"}
SealedStates == {"LimitUp", "ReSealed"}

\* What a quote of a stock amounts to.  "nopre" is a quote without a previous
\* close: its gain is a division by zero.
QuoteClasses == {"limit", "strong", "weak", "nopre"}

\* The prefixes of a symbol that DetectBoard tells apart.
Prefixes == {"688", "300", "301", "8", "4", "9", "other"}

DetectBoard(prefix) ==
  CASE prefix = "688" -> "STAR"
    [] prefix \in {"300", "301"} -> "GEM"
    [] prefix \in {"8", "4", "9"} -> "BSE"
    [] OTHER -> "Main"

\* Mutant: the 5% of an ST stock for every main board stock.
Bug_LimitUpRatio(board) ==
  CASE board = "Main" -> 5
    [] board \in {"GEM", "STAR"} -> 20
    [] OTHER -> 30

\* BoardRule.LimitUpRatio, in percent.
LimitUpRatio(board) ==
  CASE board = "Main" -> 10
    [] board \in {"GEM", "STAR"} -> 20
    [] OTHER -> 30

-------------------------------------------------------------------------------
\* Mutants: the price rounded up, and cut off at whole jiao.
Bug_CalcLimitUpPriceCeil(preClose, ratio) ==
  IF preClose <= 0 THEN {0} ELSE {(preClose * (100 + ratio) + 99) \div 100}

Bug_CalcLimitUpPriceJiao(preClose, ratio) ==
  IF preClose <= 0 THEN {0} ELSE {10 * ((preClose * (100 + ratio)) \div 1000)}

\* int(preClose * (1 + ratio) * 100) / 100.  The conversion to int truncates.
\* preClose and 1 + ratio are doubles: when the exact product is a whole number
\* of fen the double may fall just below it, and truncation then takes a whole
\* fen off; otherwise the error is too small to cross a whole number.
CalcLimitUpPrice(preClose, ratio) ==
  LET product == preClose * (100 + ratio)
  IN  IF preClose <= 0 THEN {0}
      ELSE {product \div 100}
             \cup {p \in {product \div 100 - 1} : product % 100 = 0}

\* calPct(preClose, price) >= 5.0: the gain is rounded to two decimals first.
Above5Pct(preClose, price) ==
  2 * 10000 * (price - preClose) >= 999 * preClose

\* The class of a quote, given the limit-up price DetectLimitUp computed.
QuoteClass(preClose, price, limitUpPrice) ==
  CASE preClose <= 0 -> "nopre"
    [] preClose > 0 /\ price >= limitUpPrice -> "limit"
    [] preClose > 0 /\ price < limitUpPrice /\ Above5Pct(preClose, price) -> "strong"
    [] OTHER -> "weak"

-------------------------------------------------------------------------------
\* Mutant: the opening of a limit is forgotten at once.
Bug_NextLimitState(class, prev) ==
  CASE class = "limit" /\ prev = "Opened" -> "ReSealed"
    [] class = "limit" /\ prev # "Opened" -> "LimitUp"
    [] OTHER -> "None"

\* The state after a quote.  A skipped quote ("nopre") leaves DetectOutput's
\* zero value, whose CurrentState is None.
NextLimitState(class, prev) ==
  CASE class = "limit" /\ prev = "Opened" -> "ReSealed"
    [] class = "limit" /\ prev # "Opened" -> "LimitUp"
    [] class \in {"strong", "weak"} /\ prev \in SealedStates -> "Opened"
    [] OTHER -> "None"

\* IsFirstLimitUp: sealed, and not known to have been sealed before.
IsFirstLimitUp(class, prev) == class = "limit" /\ prev = "None"
===============================================================================
