----------------------------- MODULE PoolPromise -----------------------------
(***************************************************************************)
(* What the two pools of a day promise a reader, with no batches, no       *)
(* states and no lock: each look at the market files, all at once, every   *)
(* stock it sees under the class the stock trades in at that moment, and   *)
(* the first look that finds a stock sealed dates its first seal for the   *)
(* rest of the day.                                                        *)
(***************************************************************************)
EXTENDS LimitDetect

CONSTANTS Stocks, Times

VARIABLES
  market,  \* the class each stock trades in
  shown,   \* the pool a stock is in
  first    \* when it was first seen sealed, 0 if it was not

PoolOf(class) ==
  CASE class = "limit" -> "limitUp"
    [] class = "strong" -> "above5"
    [] OTHER -> "none"

Init ==
  /\ market \in [Stocks -> QuoteClasses]
  /\ shown = [s \in Stocks |-> "none"]
  /\ first = [s \in Stocks |-> 0]

Move ==
  /\ market' \in [Stocks -> QuoteClasses]
  /\ UNCHANGED <<shown, first>>

\* A look, no earlier than those before it.  It sees every stock that gains and
\* some of the others; what it does not see stays where it is.
Look ==
  \E at \in Times, seen \in SUBSET Stocks :
    /\ \A s \in Stocks : first[s] <= at /\ (market[s] # "weak" => s \in seen)
    /\ shown' = [s \in Stocks |-> IF s \in seen THEN PoolOf(market[s]) ELSE shown[s]]
    /\ first' = [s \in Stocks |->
         IF first[s] = 0 /\ market[s] = "limit" THEN at ELSE first[s]]
    /\ UNCHANGED market

\* The day ends, or the process does.
Forget ==
  /\ shown' = [s \in Stocks |-> "none"]
  /\ first' = [s \in Stocks |-> 0]
  /\ UNCHANGED market

Next == Move \/ Look \/ Forget

Spec == Init /\ [][Next]_<<market, shown, first>>
===============================================================================
