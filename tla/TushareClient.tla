---------------------------- MODULE TushareClient ----------------------------
(***************************************************************************)
(* A call of the vendor's HTTP interface (external/tushare/client.go): the *)
(* attempts of doRequest, with growing delays between them and a context   *)
(* that may be cancelled at any time, and what each function of the client *)
(* makes of the answer, which is a table without a head: a value is known  *)
(* by its place in the row only.                                           *)
(*                                                                         *)
(* Calls share nothing, so there is one.  Rows differ in how many cells    *)
(* they have and in whether their numbers are numbers; a value is named    *)
(* for the column it stands in.                                            *)
(***************************************************************************)
EXTENDS Integers, Sequences

\* Retry configurations [retries, initial, multiplier, max]: the retries after the
\* first attempt, and the delays, in milliseconds.
CONSTANT RetryConfigs

ASSUME RetryAssumption ==
  RetryConfigs \subseteq [retries : Nat, initial : Nat, multiplier : Nat, max : Nat]

-------------------------------------------------------------------------------
\* The columns asked for, how many cells a row must have, and the cell each field of
\* an item is read from, counted from 0.
StockBasicFeed ==
  [fields |-> <<"ts_code", "symbol", "name", "industry", "list_date", "exchange",
                "is_hs", "area">>,
   width |-> 8,
   cell |-> [TsCode |-> 0, Symbol |-> 1, Name |-> 2, Industry |-> 3, ListDate |-> 4,
             Exchange |-> 5, IsHS |-> 6, Area |-> 7]]

StockSTFeed == [fields |-> <<"ts_code">>, width |-> 1, cell |-> [TsCode |-> 0]]

\* The change in per cent is computed from the two prices.
RealtimeFeed ==
  [fields |-> <<"ts_code", "pre_close", "close", "vol", "amount">>,
   width |-> 5,
   cell |-> [TsCode |-> 0, PreClose |-> 1, Price |-> 2, Vol |-> 3, Amount |-> 4]]

\* Mutant: the cells are those of a table that ends with the price before.
Bug_DailyFeed ==
  [fields |-> <<"ts_code", "trade_date", "open", "high", "low", "close", "pre_close",
                "change", "pct_chg", "vol", "amount">>,
   width |-> 11,
   cell |-> [TsCode |-> 0, PreClose |-> 5, Price |-> 6, PctChg |-> 8, Vol |-> 9,
             Amount |-> 10]]

DailyFeed ==
  [fields |-> <<"ts_code", "trade_date", "open", "high", "low", "close", "pre_close",
                "change", "pct_chg", "vol", "amount">>,
   width |-> 11,
   cell |-> [TsCode |-> 0, PreClose |-> 6, Price |-> 5, PctChg |-> 8, Vol |-> 9,
             Amount |-> 10]]

LimitListFeed ==
  [fields |-> <<"ts_code", "name", "first_time", "last_time", "limit_times">>,
   width |-> 5,
   cell |-> [TsCode |-> 0, Name |-> 1, FirstTime |-> 2, LastTime |-> 3, LimitTimes |-> 4]]

DailyBasicFeed ==
  [fields |-> <<"ts_code", "trade_date", "total_mv", "circ_mv">>,
   width |-> 4,
   cell |-> [TsCode |-> 0, TotalMv |-> 2, CircMv |-> 3]]

Feeds ==
  {StockBasicFeed, StockSTFeed, RealtimeFeed, DailyFeed, LimitListFeed, DailyBasicFeed}

Numbers == {"PreClose", "Price", "PctChg", "Vol", "Amount", "LimitTimes", "TotalMv", "CircMv"}

\* toFloat64 and toInt64 make 0 of what is no number, toString text of everything.
Converted(field, column, odd) == IF odd /\ field \in Numbers THEN "0" ELSE column

\* The items made of rows [cells, odd]: odd are those with null, or text, for numbers.
\* Short rows are skipped.
Items(api, rows) ==
  {[f \in DOMAIN api.cell |->
      IF api.cell[f] < row.cells
      THEN Converted(f, api.fields[api.cell[f] + 1], row.odd) ELSE "out of range"] :
     row \in {r \in rows : r.cells >= api.width}}

-------------------------------------------------------------------------------
VARIABLES
  request,  \* what is asked for
  retry,    \* the configuration
  phase,    \* "idle", "send", "wait", "done"
  attempts, \* how each attempt went
  delay,    \* the delay before the next one
  cancel,   \* the caller's context: "no", cancelled "now", during this delay, or "before"
  items     \* the answer, or {} with an error

clientVars == <<request, retry, phase, attempts, delay, cancel, items>>

\* How the server may answer: not at all, with a status (3xx, 4xx, 429, 5xx), or with
\* status 200 and a body that is no answer, an error of its own (a code), or a table.
Outcomes ==
  {"unreachable", "moved", "refused", "busy", "down", "garbled", "error", "table"}

\* isRetryableFromStatus; what is not an error of HTTP is always tried again.
Retryable(outcome) == outcome \notin {"moved", "refused", "table"}

ClientInit ==
  /\ request \in Feeds
  /\ retry \in RetryConfigs
  /\ phase = "idle"
  /\ attempts = <<>>
  /\ delay = 0
  /\ cancel = "no"
  /\ items = {}

Call ==
  /\ phase = "idle"
  /\ phase' = "send"
  /\ delay' = retry.initial
  /\ UNCHANGED <<request, retry, attempts, cancel, items>>

\* Mutant: one attempt less.
Bug_Exhausted(n) == n >= retry.retries

Exhausted(n) == n > retry.retries

\* doRequestOnce, and what doRequest does next.  With a cancelled context nothing is
\* sent.  A table without data is no error, and has no rows.
Attempt ==
  /\ phase = "send"
  /\ \E outcome \in Outcomes,
        rows \in SUBSET [cells : {request.width - 1, request.width}, odd : BOOLEAN] :
       /\ cancel # "no" => outcome = "unreachable"
       /\ rows # {} => outcome = "table"
       /\ attempts' = Append(attempts, outcome)
       /\ phase' = IF Retryable(outcome) /\ ~Exhausted(Len(attempts')) THEN "wait" ELSE "done"
       /\ items' = Items(request, rows)
  /\ UNCHANGED <<request, retry, delay, cancel>>

Smaller(x, y) == IF x < y THEN x ELSE y

\* The first delay is not capped.
WaitEnds ==
  /\ phase = "wait"
  /\ cancel = "before" => delay = 0
  /\ phase' = "send"
  /\ delay' = Smaller(delay * retry.multiplier, retry.max)
  /\ cancel' = IF cancel = "no" THEN "no" ELSE "before"
  /\ UNCHANGED <<request, retry, attempts, items>>

\* If the delay is over as well, either may be taken.
WaitCancelled ==
  /\ phase = "wait"
  /\ cancel # "no"
  /\ phase' = "done"
  /\ UNCHANGED <<request, retry, attempts, delay, cancel, items>>

\* The browser is gone, or the monitor is stopped.
CallerLeaves ==
  /\ phase \in {"send", "wait"}
  /\ cancel = "no"
  /\ cancel' = IF phase = "wait" THEN "now" ELSE "before"
  /\ UNCHANGED <<request, retry, phase, attempts, delay, items>>

ClientNext == Call \/ Attempt \/ WaitEnds \/ WaitCancelled \/ CallerLeaves

ClientSpec == ClientInit /\ [][ClientNext]_clientVars

-------------------------------------------------------------------------------
\* What the fields of the items are called by the vendor.
Meant ==
  [TsCode |-> "ts_code", Symbol |-> "symbol", Name |-> "name", Industry |-> "industry",
   ListDate |-> "list_date", Exchange |-> "exchange", IsHS |-> "is_hs", Area |-> "area",
   PreClose |-> "pre_close", Price |-> "close", PctChg |-> "pct_chg", Vol |-> "vol",
   Amount |-> "amount", FirstTime |-> "first_time", LastTime |-> "last_time",
   LimitTimes |-> "limit_times", TotalMv |-> "total_mv", CircMv |-> "circ_mv"]

\* A caller is told that there is no answer only after the server has refused one, or
\* all attempts the configuration allows have failed, or it has left itself; nothing
\* is asked again that has been answered or refused; and in what it gets, every value
\* stands for what its name says, is from a row that has the cell, and is 0 only if
\* it is a number and the vendor sent none.
CallerIsTold ==
  phase = "done" =>
    LET n == Len(attempts)
        final == {"table", "moved", "refused"}
    IN  /\ n <= retry.retries + 1
        /\ \A i \in 1..n - 1 : attempts[i] \notin final
        /\ attempts[n] \in final \/ cancel # "no" \/ n = retry.retries + 1
        /\ \A item \in items :
             /\ attempts[n] = "table"
             /\ \A f \in DOMAIN item : item[f] = Meant[f] \/ (item[f] = "0" /\ f \in Numbers)
=============================================================================
