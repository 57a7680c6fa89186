----------------------------- MODULE PoolMonitor -----------------------------
(***************************************************************************)
(* The monitor: ProcessTick of internal/service/monitor/monitor.go with    *)
(* everything it reads and writes in the in-process cache (dal/cache), the *)
(* LLM ticker beside it, and the scheduler's pre-market job.               *)
(*                                                                         *)
(* A tick is run by the monitor's own loop (Loop) or by a request to       *)
(* /monitor/tick (the other tickers).  Ticks exclude each other with       *)
(* tickMu; nothing else does, so the pre-market reset, the loads of the    *)
(* yesterday-strong pool, the LLM results and every reader of the pools    *)
(* interleave with the steps of a tick.  Each step of a tick is one        *)
(* critical section of the cache lock, or one access to stockStates.       *)
(***************************************************************************)
EXTENDS LimitDetect, FiniteSets

CONSTANTS
  Stocks,         \* ts_codes of the market feed
  Monitored,      \* those in stock_basic, active and not ST
  HasTopics,      \* those heat classification finds a topic for
  Tickers, Loop,  \* who runs ticks; Loop is the monitor's own goroutine
  NoTicker,       \* nobody
  MaxDay,         \* trading days modelled
  MaxMoves,       \* how often the market moves
  MaxFaults,      \* failed fetches, failed stock loads and restarts
  OperatorCalls,  \* are the trigger and ?date= endpoints used in trading hours?
  LLMEnabled      \* is an LLM client configured?

ASSUME PoolMonitorAssumption ==
  /\ Monitored \subseteq Stocks
  /\ HasTopics \subseteq Monitored
  /\ Loop \in Tickers
  /\ NoTicker \notin Tickers
  /\ MaxDay \in Nat \ {0}
  /\ MaxMoves \in Nat
  /\ MaxFaults \in Nat
  /\ OperatorCalls \in BOOLEAN
  /\ LLMEnabled \in BOOLEAN

Days == 1..MaxDay
Times == 1..(MaxMoves + 1)

\* What FetchAllQuotes returns of a stock: its class, or nothing at all.
Seen == QuoteClasses \cup {"unseen"}
Unseen == [s \in Stocks |-> "unseen"]

\* What the loop over the quotes has made of a stock: not its business, not
\* reached, its previous state read, or one of the branches of the verdict.
Verdicts == {"skip", "todo", "read", "up", "opened", "above", "drop"}

Phases == {"idle", "detect", "removeLimitUp", "removeAbove5", "addLimitUp",
           "addAbove5", "mergeLLM", "mergeHeat", "publish"}

VARIABLES
  market,       \* the class each stock trades in
  moves,        \* market moves so far; also the clock of quote times
  faults,
  today,
  session,      \* "night" until 9:25, "open" until 15:01, then "closed"
  resetDue,     \* the 9:00 job of today has yet to run
  stockStates,  \* s.stockStates
  tickMu,       \* holder of s.tickMu
  tick,         \* the local variables of each ticker's ProcessTick
  limitUp,      \* pool:limit_up:<date>
  above5,       \* pool:above5:<date>
  firstLimit,   \* first_limit:<date>, 0 where there is no entry
  yStrong,      \* pool:yesterday_strong:<today>
  quoteCache,   \* rt:quotes
  classif,      \* cache:classification_result:<date>: who classified the stock
  llmResults,   \* the LLM's own result cache: the stocks it has results for
  llmTable,     \* llm_classify_results, which outlives the process
  llmRun,       \* the LLM goroutine: the date it works on, and the stocks to ask about
  last          \* lastDate and lastQuotes, as the LLM ticker will read them

envVars == <<market, moves, faults, today, session, resetDue>>
poolVars == <<limitUp, above5, firstLimit>>
classVars == <<classif, llmResults, llmTable, llmRun>>
vars == <<envVars, stockStates, tickMu, tick, poolVars, yStrong, quoteCache,
          classVars, last>>

-------------------------------------------------------------------------------
IdleTick ==
  [pc |-> "idle", date |-> 0, at |-> 0, quotes |-> Unseen,
   verdict |-> [s \in Stocks |-> "skip"], prev |-> "None"]

NoLast == [date |-> 0, quotes |-> Unseen]
NoLLMRun == [date |-> 0, limitUp |-> {}, strong |-> {}]

EmptyPool == [d \in Days |-> {}]
NoFirstLimit == [d \in Days |-> [s \in Stocks |-> 0]]
NoClassif == [d \in Days |-> [s \in Stocks |-> "none"]]
AllNone == [s \in Stocks |-> "None"]

\* What a process starts with, whatever the time of day: every cache and the
\* monitor's state live in the process.
FreshProcess ==
  /\ stockStates = AllNone
  /\ tickMu = NoTicker
  /\ tick = [t \in Tickers |-> IdleTick]
  /\ limitUp = EmptyPool /\ above5 = EmptyPool /\ firstLimit = NoFirstLimit
  /\ yStrong = {}
  /\ quoteCache = Unseen
  /\ classif = NoClassif /\ llmResults = EmptyPool /\ llmRun = NoLLMRun
  /\ last = NoLast

ProcessDies ==
  /\ stockStates' = AllNone
  /\ tickMu' = NoTicker
  /\ tick' = [t \in Tickers |-> IdleTick]
  /\ limitUp' = EmptyPool /\ above5' = EmptyPool /\ firstLimit' = NoFirstLimit
  /\ yStrong' = {}
  /\ quoteCache' = Unseen
  /\ classif' = NoClassif /\ llmResults' = EmptyPool /\ llmRun' = NoLLMRun
  /\ last' = NoLast

\* The 9:00 job runs only in a process that was up at 9:00.
Init ==
  /\ market \in [Stocks -> QuoteClasses]
  /\ moves = 0
  /\ faults = 0
  /\ today = 1
  /\ session \in {"night", "open"}
  /\ resetDue \in {FALSE, session = "night"}
  /\ llmTable = EmptyPool
  /\ FreshProcess

-------------------------------------------------------------------------------
\* The feed keeps a quote with a gain of 5% (a missing previous close makes the
\* gain infinite) or of a stock that was strong yesterday.
Visible(s) == market[s] # "weak" \/ s \in yStrong

Fetched == [s \in Stocks |-> IF Visible(s) THEN market[s] ELSE "unseen"]

\* Mutant: the batch replaces what is cached.
Bug_WithQuotes(cache, q) == q

\* SetBatch merges the batch into what is cached.
WithQuotes(cache, q) ==
  [s \in Stocks |-> IF q[s] = "unseen" THEN cache[s] ELSE q[s]]

\* The loop ticks in trading time only, for today.  A request may name a date;
\* dates after today are left out.
MayTick(t, d) ==
  \/ d = today /\ session = "open"
  \/ t # Loop /\ OperatorCalls /\ d <= today

\* Mutant: ProcessTick without tickMu.
Bug_CanLock == TRUE

CanLock == tickMu = NoTicker

\* Mutant: stocks that are ST or not in the stock map are judged too.
Bug_Judgeable(s) == Fetched[s] # "unseen"

\* The quotes ProcessTick looks at: in the stock map, and not ST.
Judgeable(s) == Fetched[s] # "unseen" /\ s \in Monitored

\* tickMu.Lock(), FetchAllQuotes and GetActiveStocks.
StartTick(t) ==
  /\ tick[t].pc = "idle"
  /\ CanLock
  /\ \E d \in Days :
       /\ MayTick(t, d)
       /\ tick' = [tick EXCEPT ![t] =
            [pc |-> "detect", date |-> d, at |-> moves + 1, quotes |-> Fetched,
             verdict |-> [s \in Stocks |-> IF Judgeable(s) THEN "todo" ELSE "skip"],
             prev |-> "None"]]
  /\ tickMu' = t
  /\ quoteCache' = WithQuotes(quoteCache, Fetched)
  /\ UNCHANGED <<envVars, stockStates, poolVars, yStrong, classVars, last>>

\* Mutant: the error path returns with tickMu held.
Bug_TickFails(t) ==
  /\ tick[t].pc = "idle"
  /\ CanLock
  /\ \E d \in Days : MayTick(t, d)
  /\ faults < MaxFaults
  /\ faults' = faults + 1
  /\ tickMu' = t
  /\ UNCHANGED <<market, moves, today, session, resetDue, stockStates, quoteCache,
                 tick, poolVars, yStrong, classVars, last>>

\* The tick returns early.  If the fetch fails nothing has changed; if loading
\* the active stocks fails the quotes are already in the cache.
TickFails(t) ==
  /\ tick[t].pc = "idle"
  /\ CanLock
  /\ \E d \in Days : MayTick(t, d)
  /\ faults < MaxFaults
  /\ faults' = faults + 1
  /\ quoteCache' \in {quoteCache, WithQuotes(quoteCache, Fetched)}
  /\ UNCHANGED <<market, moves, today, session, resetDue, stockStates, tickMu,
                 tick, poolVars, yStrong, classVars, last>>

\* prevState := s.stockStates[quote.TsCode]
ReadPrevState(t, s) ==
  /\ tick[t].pc = "detect"
  /\ tick[t].verdict[s] = "todo"
  /\ \A r \in Stocks : tick[t].verdict[r] # "read"
  /\ tick' = [tick EXCEPT ![t].verdict[s] = "read", ![t].prev = stockStates[s]]
  /\ UNCHANGED <<envVars, stockStates, tickMu, poolVars, yStrong, quoteCache,
                 classVars, last>>

\* The branch of the verdict a quote takes.
VerdictOf(class, prev) ==
  CASE class = "limit" -> "up"
    [] class = "strong" /\ NextLimitState(class, prev) = "Opened" -> "opened"
    [] class = "strong" /\ NextLimitState(class, prev) # "Opened" -> "above"
    [] OTHER -> "drop"

\* Mutant: SetFirstLimitTime without the check for an existing entry.
Bug_WithFirstLimitTime(fl, d, s, at) == [fl EXCEPT ![d][s] = at]

\* SetFirstLimitTime: only if there is no entry yet.
WithFirstLimitTime(fl, d, s, at) ==
  IF fl[d][s] = 0 THEN [fl EXCEPT ![d][s] = at] ELSE fl

\* DetectLimitUp, the write of the state, the time of a first seal.
JudgeStock(t, s) ==
  LET class == tick[t].quotes[s]
      prev == tick[t].prev
      d == tick[t].date
  IN  /\ tick[t].pc = "detect"
      /\ tick[t].verdict[s] = "read"
      /\ stockStates' = [stockStates EXCEPT ![s] = NextLimitState(class, prev)]
      /\ tick' = [tick EXCEPT ![t].verdict[s] = VerdictOf(class, prev)]
      /\ firstLimit' = IF IsFirstLimitUp(class, prev)
                       THEN WithFirstLimitTime(firstLimit, d, s, tick[t].at)
                       ELSE firstLimit
      /\ UNCHANGED <<envVars, tickMu, limitUp, above5, yStrong, quoteCache,
                     classVars, last>>

EndDetection(t) ==
  /\ tick[t].pc = "detect"
  /\ \A s \in Stocks : tick[t].verdict[s] \notin {"todo", "read"}
  /\ tick' = [tick EXCEPT ![t].pc = "removeLimitUp"]
  /\ UNCHANGED <<envVars, stockStates, tickMu, poolVars, yStrong, quoteCache,
                 classVars, last>>

-------------------------------------------------------------------------------
\* The four batches, in the order of the code.
Judged(t, verdicts) == {s \in Stocks : tick[t].verdict[s] \in verdicts}

\* Mutant: an opened stock is not taken out of the limit-up pool.
Bug_RemoveLimitUpBatch(t) ==
  /\ tick[t].pc = "removeLimitUp"
  /\ limitUp' = [limitUp EXCEPT ![tick[t].date] = @ \ Judged(t, {"drop"})]
  /\ tick' = [tick EXCEPT ![t].pc = "removeAbove5"]
  /\ UNCHANGED <<envVars, stockStates, tickMu, above5, firstLimit, yStrong,
                 quoteCache, classVars, last>>

RemoveLimitUpBatch(t) ==
  /\ tick[t].pc = "removeLimitUp"
  /\ limitUp' = [limitUp EXCEPT ![tick[t].date] = @ \ Judged(t, {"opened", "drop"})]
  /\ tick' = [tick EXCEPT ![t].pc = "removeAbove5"]
  /\ UNCHANGED <<envVars, stockStates, tickMu, above5, firstLimit, yStrong,
                 quoteCache, classVars, last>>

RemoveAbove5Batch(t) ==
  /\ tick[t].pc = "removeAbove5"
  /\ above5' = [above5 EXCEPT ![tick[t].date] = @ \ Judged(t, {"up", "drop"})]
  /\ tick' = [tick EXCEPT ![t].pc = "addLimitUp"]
  /\ UNCHANGED <<envVars, stockStates, tickMu, limitUp, firstLimit, yStrong,
                 quoteCache, classVars, last>>

AddLimitUpBatch(t) ==
  /\ tick[t].pc = "addLimitUp"
  /\ limitUp' = [limitUp EXCEPT ![tick[t].date] = @ \cup Judged(t, {"up"})]
  /\ tick' = [tick EXCEPT ![t].pc = "addAbove5"]
  /\ UNCHANGED <<envVars, stockStates, tickMu, above5, firstLimit, yStrong,
                 quoteCache, classVars, last>>

AddAbove5Batch(t) ==
  /\ tick[t].pc = "addAbove5"
  /\ above5' = [above5 EXCEPT ![tick[t].date] = @ \cup Judged(t, {"above", "opened"})]
  /\ tick' = [tick EXCEPT ![t].pc = "mergeLLM"]
  /\ UNCHANGED <<envVars, stockStates, tickMu, limitUp, firstLimit, yStrong,
                 quoteCache, classVars, last>>

-------------------------------------------------------------------------------
\* Mutant: only stocks that have a classification get a newer one.
Bug_WithResults(cl, d, results, source) ==
  [cl EXCEPT ![d] = [s \in Stocks |->
     IF s \in results /\ @[s] # "none" THEN source ELSE @[s]]]

\* MergeClassificationResult: the newer result replaces the older one.
WithResults(cl, d, results, source) ==
  [cl EXCEPT ![d] = [s \in Stocks |-> IF s \in results THEN source ELSE @[s]]]

\* Step 1: LLM results of the tick's date, if there are any.
MergeLLM(t) ==
  /\ tick[t].pc = "mergeLLM"
  /\ classif' = IF LLMEnabled
                THEN WithResults(classif, tick[t].date, llmResults[tick[t].date], "llm")
                ELSE classif
  /\ tick' = [tick EXCEPT ![t].pc = "mergeHeat"]
  /\ UNCHANGED <<envVars, stockStates, tickMu, poolVars, yStrong, quoteCache,
                 llmResults, llmTable, llmRun, last>>

\* The quotes with a gain above 5%.
Gaining(q) == {s \in Monitored : q[s] \in {"limit", "strong", "nopre"}}

\* Step 2: heat classification; its loads may fail, and it then has no result.
MergeHeat(t) ==
  /\ tick[t].pc = "mergeHeat"
  /\ \E results \in {{}, Gaining(tick[t].quotes) \cap HasTopics} :
       classif' = WithResults(classif, tick[t].date, results, "heat")
  /\ tick' = [tick EXCEPT ![t].pc = "publish"]
  /\ UNCHANGED <<envVars, stockStates, tickMu, poolVars, yStrong, quoteCache,
                 llmResults, llmTable, llmRun, last>>

\* The snapshot for the LLM ticker, and tickMu.Unlock().
PublishTick(t) ==
  /\ tick[t].pc = "publish"
  /\ last' = [date |-> tick[t].date, quotes |-> tick[t].quotes]
  /\ tickMu' = NoTicker
  /\ tick' = [tick EXCEPT ![t] = IdleTick]
  /\ UNCHANGED <<envVars, stockStates, poolVars, yStrong, quoteCache, classVars>>

TickStep(t) ==
  \/ \E s \in Stocks : ReadPrevState(t, s) \/ JudgeStock(t, s)
  \/ EndDetection(t)
  \/ RemoveLimitUpBatch(t) \/ RemoveAbove5Batch(t)
  \/ AddLimitUpBatch(t) \/ AddAbove5Batch(t)
  \/ MergeLLM(t) \/ MergeHeat(t) \/ PublishTick(t)

-------------------------------------------------------------------------------
\* The LLM goroutine copies the last tick, takes what the table has if its own
\* cache is empty, and leaves out what has a result, and what a manual or a recent
\* relation classifies.
LLMStart ==
  /\ LLMEnabled
  /\ session = "open"
  /\ llmRun = NoLLMRun
  /\ last.date # 0
  /\ \E skipped \in SUBSET Monitored, stored \in {{}, llmTable[last.date]} :
       LET known == IF llmResults[last.date] = {} THEN stored \cap Gaining(last.quotes)
                    ELSE llmResults[last.date]
           left == (Gaining(last.quotes) \ known) \ skipped
       IN  /\ llmResults' = [llmResults EXCEPT ![last.date] = known]
           /\ llmRun' = IF left = {} THEN NoLLMRun ELSE
                 [date |-> last.date,
                  limitUp |-> {s \in left : last.quotes[s] = "limit"},
                  strong |-> {s \in left : last.quotes[s] # "limit"}]
  /\ UNCHANGED <<envVars, stockStates, tickMu, tick, poolVars, yStrong,
                 quoteCache, classif, llmTable, last>>

\* stocks[:2] of a group of one panics, or uncovers a nil quote that does so when
\* the prompt is built; nothing recovers it, and no answer has been stored yet.
LonelyGroup == \E group \in {llmRun.limitUp, llmRun.strong} : Cardinality(group) = 1

LLMPanics ==
  /\ LonelyGroup
  /\ ProcessDies
  /\ UNCHANGED <<envVars, llmTable>>

\* Two stocks of each group are asked about.  Answers go to the cache, and to the
\* table, if that can be reached.
LLMFinish ==
  /\ llmRun # NoLLMRun
  /\ ~LonelyGroup
  /\ \E answered \in SUBSET (llmRun.limitUp \cup llmRun.strong) :
       /\ Cardinality(answered \cap llmRun.limitUp) <= 2
       /\ Cardinality(answered \cap llmRun.strong) <= 2
       /\ llmResults' = [llmResults EXCEPT ![llmRun.date] = @ \cup answered]
       /\ llmTable' \in {llmTable, [llmTable EXCEPT ![llmRun.date] = @ \cup answered]}
  /\ llmRun' = NoLLMRun
  /\ UNCHANGED <<envVars, stockStates, tickMu, tick, poolVars, yStrong,
                 quoteCache, classif, last>>

-------------------------------------------------------------------------------
\* Mutant: the states of yesterday are kept.
Bug_PreMarketInit ==
  /\ (resetDue /\ session = "night") \/ OperatorCalls
  /\ resetDue' = FALSE
  /\ \/ yStrong' \in SUBSET Stocks
     \/ UNCHANGED yStrong
  /\ UNCHANGED <<market, moves, faults, today, session, stockStates, tickMu, tick,
                 poolVars, quoteCache, classVars, last>>

\* preMarketInit: forget the states, then load yesterday's strong stocks, unless
\* a load on the way fails.  Neither step waits for a tick.
PreMarketInit ==
  /\ (resetDue /\ session = "night") \/ OperatorCalls
  /\ resetDue' = FALSE
  /\ stockStates' = AllNone
  /\ \/ yStrong' \in SUBSET Stocks
     \/ UNCHANGED yStrong
  /\ UNCHANGED <<market, moves, faults, today, session, tickMu, tick, poolVars,
                 quoteCache, classVars, last>>

\* POST /scheduler/load_yesterday_strong
TriggerLoadYesterdayStrongPool ==
  /\ OperatorCalls
  /\ yStrong' \in SUBSET Stocks
  /\ UNCHANGED <<envVars, stockStates, tickMu, tick, poolVars, quoteCache,
                 classVars, last>>

-------------------------------------------------------------------------------
\* Time passes, and stocks may have moved.
MarketMoves ==
  /\ session = "open"
  /\ moves < MaxMoves
  /\ moves' = moves + 1
  /\ market' \in [Stocks -> QuoteClasses]
  /\ UNCHANGED <<faults, today, session, resetDue, stockStates, tickMu, tick,
                 poolVars, yStrong, quoteCache, classVars, last>>

\* 9:25 is 25 minutes after the 9:00 job, which resets the states first.
MarketOpens ==
  /\ session = "night"
  /\ ~resetDue
  /\ session' = "open"
  /\ UNCHANGED <<market, moves, faults, today, resetDue, stockStates, tickMu,
                 tick, poolVars, yStrong, quoteCache, classVars, last>>

MarketCloses ==
  /\ session = "open"
  /\ session' = "closed"
  /\ UNCHANGED <<market, moves, faults, today, resetDue, stockStates, tickMu,
                 tick, poolVars, yStrong, quoteCache, classVars, last>>

AllIdle == \A t \in Tickers : tick[t].pc = "idle"

\* At 23:59 every key of the cache expires; the monitor's fields do not.
NewDay ==
  /\ session = "closed"
  /\ AllIdle
  /\ llmRun = NoLLMRun
  /\ today < MaxDay
  /\ today' = today + 1
  /\ session' = "night"
  /\ resetDue' = TRUE
  /\ limitUp' = EmptyPool
  /\ above5' = EmptyPool
  /\ firstLimit' = NoFirstLimit
  /\ yStrong' = {}
  /\ quoteCache' = Unseen
  /\ classif' = NoClassif
  /\ llmResults' = EmptyPool
  /\ UNCHANGED <<market, moves, faults, stockStates, tickMu, tick, llmTable, llmRun,
                 last>>

\* The process dies, in a tick or between ticks, and is started again.
Restart ==
  /\ faults < MaxFaults
  /\ faults' = faults + 1
  /\ resetDue' \in {FALSE, resetDue}
  /\ ProcessDies
  /\ UNCHANGED <<market, moves, today, session, llmTable>>

Next ==
  \/ \E t \in Tickers : StartTick(t) \/ TickFails(t) \/ TickStep(t)
  \/ LLMStart \/ LLMFinish \/ LLMPanics
  \/ PreMarketInit \/ TriggerLoadYesterdayStrongPool
  \/ MarketMoves \/ MarketOpens \/ MarketCloses \/ NewDay \/ Restart

\* A tick that has started runs to its end, and the loop's timer fires again and
\* again: sync.Mutex hands the lock to a waiter after 1ms, so a loop that keeps
\* finding tickMu free in between is served.
Fairness ==
  /\ \A t \in Tickers : WF_vars(TickStep(t))
  /\ SF_vars(StartTick(Loop))
  /\ WF_vars(MarketOpens)

Spec == Init /\ [][Next]_vars
FairSpec == Spec /\ Fairness

-------------------------------------------------------------------------------
(***************************************************************************)
(* Properties.                                                             *)
(***************************************************************************)
TickLocals ==
  [pc : Phases, date : Days \cup {0}, at : Times \cup {0},
   quotes : [Stocks -> Seen], verdict : [Stocks -> Verdicts], prev : LimitStates]

\* Every variable holds what its comment says; pools hold monitored stocks only.
TypeOK ==
  /\ market \in [Stocks -> QuoteClasses]
  /\ moves \in 0..MaxMoves
  /\ faults \in 0..MaxFaults
  /\ today \in Days
  /\ session \in {"night", "open", "closed"}
  /\ resetDue \in BOOLEAN
  /\ stockStates \in [Stocks -> LimitStates]
  /\ tickMu \in Tickers \cup {NoTicker}
  /\ tick \in [Tickers -> TickLocals]
  /\ limitUp \in [Days -> SUBSET Monitored]
  /\ above5 \in [Days -> SUBSET Monitored]
  /\ firstLimit \in [Days -> [Stocks -> Times \cup {0}]]
  /\ yStrong \subseteq Stocks
  /\ quoteCache \in [Stocks -> Seen]
  /\ classif \in [Days -> [Stocks -> {"none", "llm", "heat"}]]
  /\ llmResults \in [Days -> SUBSET Monitored]
  /\ llmTable \in [Days -> SUBSET Monitored]
  /\ llmRun \in [date : Days \cup {0}, limitUp : SUBSET Monitored, strong : SUBSET Monitored]
  /\ last \in [date : Days \cup {0}, quotes : [Stocks -> Seen]]

\* A reader never finds a stock in the limit-up pool and in the above-5% pool of
\* a day, in the middle of a tick either: reclassifyToday lists both pools and
\* would show the stock twice.  The batches remove before they add, and a stock
\* whose limit opens is known to have been sealed.
PoolsDisjoint == \A d \in Days : limitUp[d] \cap above5[d] = {}

\* A stock of the limit-up pool has the time of its first seal: the state that
\* says "sealed before" is never older than the day's table of first times.
SealedHaveFirstTime ==
  \A d \in Days : \A s \in limitUp[d] : firstLimit[d][s] # 0

\* The time of the first seal is never replaced by a later one, whatever the
\* stock does and however the states are reset; times go away together, when
\* the day ends or the process does.
FirstTimeKept ==
  [][\A d \in Days, s \in Stocks :
        firstLimit[d][s] # 0 =>
          \/ firstLimit'[d][s] = firstLimit[d][s]
          \/ firstLimit' = NoFirstLimit /\ (today' # today \/ FreshProcess')]_vars

\* When no tick is under way, the pools of the date of the last tick show what
\* that tick saw: sealed stocks in the limit-up pool only, gaining ones in the
\* above-5% pool, and the others in neither.  Ticks of other dates, resets and
\* loads in between do not change that.
LastTickShown ==
  (tickMu = NoTicker /\ last.date = today) =>
    \A s \in Monitored :
      /\ last.quotes[s] = "limit" => s \in limitUp[today] \ above5[today]
      /\ last.quotes[s] = "strong" => s \in above5[today]
      /\ last.quotes[s] \in {"weak", "nopre"} => s \notin limitUp[today] \cup above5[today]

\* When no tick is under way and none has failed, a stock of a pool has a cached
\* quote that puts it there: reclassifyToday joins the two, and shows nothing of
\* a stock without a quote, and a wrong gain for one with the quote of another
\* verdict.  The two caches are written by different steps of a tick.
PoolsMatchCachedQuotes ==
  (tickMu = NoTicker /\ faults = 0) =>
    /\ \A s \in limitUp[today] : quoteCache[s] = "limit"
    /\ \A s \in above5[today] : quoteCache[s] = "strong"

\* A stock the feed shows ends up in the pool of its class (or in none), unless
\* it moves on, disappears from the feed, or the market closes first.
ShownIn(s) ==
  CASE s \in limitUp[today] \ above5[today] -> {"limit"}
    [] s \in above5[today] \ limitUp[today] -> {"strong"}
    [] s \notin above5[today] \cup limitUp[today] -> {"weak", "nopre"}
    [] OTHER -> {}

PoolsConverge ==
  \A s \in Monitored, c \in QuoteClasses :
    (session = "open" /\ market[s] = c /\ Visible(s)) ~>
      \/ c \in ShownIn(s)
      \/ session # "open" \/ market[s] # c \/ ~Visible(s)

\* An LLM result, once in the LLM's own cache, reaches the classification the
\* readers join the pools with, although only a tick moves it there.
LLMResultsUsed ==
  \A s \in Monitored :
    (session = "open" /\ s \in llmResults[today]) ~>
      (classif[today][s] # "none" \/ s \notin llmResults[today] \/ session # "open")

-------------------------------------------------------------------------------
(***************************************************************************)
(* The tick implements PoolPromise when the operator endpoints are left    *)
(* alone: a tick under way counts as the look it will have been, from the  *)
(* fetch on.                                                               *)
(***************************************************************************)
UnderWay(s) == {t \in Tickers : tick[t].pc # "idle" /\ tick[t].quotes[s] # "unseen"}

PoolOf(class) ==
  CASE class = "limit" -> "limitUp"
    [] class = "strong" -> "above5"
    [] OTHER -> "none"

PromisedPool(s) ==
  IF UnderWay(s) # {} THEN PoolOf(tick[tickMu].quotes[s])
  ELSE IF s \in limitUp[today] THEN "limitUp"
  ELSE IF s \in above5[today] THEN "above5"
  ELSE "none"

PromisedFirst(s) ==
  IF firstLimit[today][s] = 0 /\ UnderWay(s) # {} /\ tick[tickMu].quotes[s] = "limit"
  THEN tick[tickMu].at
  ELSE firstLimit[today][s]

Promise == INSTANCE PoolPromise WITH
  Stocks <- Monitored,
  market <- [s \in Monitored |-> market[s]],
  shown <- [s \in Monitored |-> PromisedPool(s)],
  first <- [s \in Monitored |-> PromisedFirst(s)]

\* Every step of a tick, of a reset, of a restart is a step of PoolPromise or
\* leaves what it promises alone: no reader has to know that a tick is four
\* batches patching two pools, decided by states carried from tick to tick.
PromiseKept == Promise!Spec

-------------------------------------------------------------------------------
(***************************************************************************)
(* What the documents and comments say and the code does not do.           *)
(***************************************************************************)

\* migrations/009_create_daily_stock_pool.sql calls pool 2 the pool of stocks
\* with a gain above 5%.  A stock the last tick did not see any more has fallen
\* below 5%, and should not be in it.
Above5IsCurrent ==
  (tickMu = NoTicker /\ last.date = today) =>
    \A s \in above5[today] : last.quotes[s] # "unseen"

\* "Heat classification fills gaps for stocks not covered by LLM": heat never
\* replaces the preferred result.
HeatFillsGaps ==
  [][\A d \in Days, s \in Stocks : classif[d][s] = "llm" => classif'[d][s] # "heat"]_vars
===============================================================================
