-------------------------- MODULE PoolMonitorProofs --------------------------
(***************************************************************************)
(* Proofs about PoolMonitor for any number of stocks, tickers, days,       *)
(* market moves and faults: type correctness, and what the pools show of   *)
(* the last tick; and, where the trigger and ?date= endpoints are not used *)
(* in trading hours, that the two pools are disjoint, that every sealed    *)
(* stock has a first-limit time, that the pools match the cached quotes,   *)
(* and that the tick implements PoolPromise.                               *)
(***************************************************************************)
EXTENDS PoolMonitor, TLAPS

InTick(t) == tick[t].pc # "idle"

\* The loop over the quotes gives verdicts on monitored stocks only: this is why
\* the pools, which only store what the batches are given, hold no others.
VerdictsOnMonitored ==
  \A t \in Tickers, s \in Stocks : tick[t].verdict[s] # "skip" => s \in Monitored

\* tickMu is held by the ticker that is in a tick, if there is one.
LockInv == \A t \in Tickers : InTick(t) <=> tickMu = t

\* A tick is about today and runs after the night; the states of another day are
\* there at night only, while the pre-market job is due.
DayInv ==
  /\ \A t \in Tickers :
       InTick(t) => /\ tick[t].date = today
                    /\ tick[t].at # 0
                    /\ session # "night"
  /\ resetDue => session = "night"
  /\ session = "night" => limitUp[today] = {} /\ above5[today] = {}
  /\ \A d \in Days : d # today => limitUp[d] = {} /\ above5[d] = {}

\* Between the read of a stock's state and its verdict the state does not change.
ReadInv ==
  \A t \in Tickers, r, s \in Stocks :
    (InTick(t) /\ tick[t].verdict[s] = "read") =>
      /\ tick[t].prev = stockStates[s]
      /\ tick[t].verdict[r] = "read" => r = s

\* A stock with a state was sealed today, and has its time.
FirstInv ==
  ~resetDue => \A s \in Stocks : stockStates[s] # "None" => firstLimit[today][s] # 0

\* What a verdict says of the state that goes with it.
VerdictInv ==
  \A t \in Tickers, s \in Stocks :
    InTick(t) =>
      /\ tick[t].verdict[s] = "up" => stockStates[s] \in SealedStates
      /\ tick[t].verdict[s] \in {"opened", "above", "drop"} => stockStates[s] \notin SealedStates

\* A stock of the limit-up pool is sealed, or the tick under way takes it out.
LeavingLimitUp(s) ==
  \E t \in Tickers : /\ tick[t].pc \in {"detect", "removeLimitUp"}
                     /\ tick[t].verdict[s] \in {"opened", "drop"}

PoolInv ==
  \A s \in limitUp[today] :
    /\ stockStates[s] \in SealedStates \/ LeavingLimitUp(s)
    /\ firstLimit[today][s] # 0
    /\ s \notin above5[today]

\* Before a tick adds a sealed stock to the limit-up pool it has taken it out of
\* the other one.
BatchInv ==
  \A t \in Tickers, s \in Stocks :
    (tick[t].pc = "addLimitUp" /\ tick[t].verdict[s] = "up") => s \notin above5[today]

IInv ==
  /\ TypeOK
  /\ VerdictsOnMonitored
  /\ LockInv
  /\ DayInv
  /\ ReadInv
  /\ FirstInv
  /\ VerdictInv
  /\ PoolInv
  /\ BatchInv
-------------------------------------------------------------------------------
(***************************************************************************)
(* Type correctness.                                                       *)
(***************************************************************************)

USE DEF envVars, poolVars, classVars

LEMMA NextStateType ==
  ASSUME NEW class, NEW prev
  PROVE  NextLimitState(class, prev) \in LimitStates
BY DEF NextLimitState, LimitStates, SealedStates

LEMMA VerdictType ==
  ASSUME NEW class, NEW prev
  PROVE  VerdictOf(class, prev) \in {"up", "opened", "above", "drop"}
BY DEF VerdictOf

LEMMA FetchedType ==
  TypeOK => /\ Fetched \in [Stocks -> Seen]
            /\ WithQuotes(quoteCache, Fetched) \in [Stocks -> Seen]
BY DEF TypeOK, Fetched, Seen, WithQuotes

LEMMA IdleType == IdleTick \in TickLocals
BY DEF IdleTick, TickLocals, Phases, Unseen, Seen, Verdicts, LimitStates

\* The updates a step makes to the local variables of a tick.
LEMMA TickUpdate ==
  ASSUME TypeOK, NEW t \in Tickers
  PROVE  /\ \A p \in Phases : [tick EXCEPT ![t].pc = p] \in [Tickers -> TickLocals]
         /\ \A s \in Stocks, v \in Verdicts :
              [tick EXCEPT ![t].verdict[s] = v] \in [Tickers -> TickLocals]
         /\ \A s \in Stocks, v \in Verdicts, q \in LimitStates :
              [tick EXCEPT ![t].verdict[s] = v, ![t].prev = q] \in [Tickers -> TickLocals]
<1>1. tick[t] \in TickLocals
  BY DEF TypeOK
<1>2. ASSUME NEW p \in Phases
      PROVE  [tick EXCEPT ![t].pc = p] \in [Tickers -> TickLocals]
  <2>1. [tick[t] EXCEPT !.pc = p] \in TickLocals
    BY <1>1 DEF TickLocals
  <2> QED
    BY <2>1 DEF TypeOK
<1>3. ASSUME NEW s \in Stocks, NEW v \in Verdicts
      PROVE  [tick EXCEPT ![t].verdict[s] = v] \in [Tickers -> TickLocals]
  <2>1. [tick[t].verdict EXCEPT ![s] = v] \in [Stocks -> Verdicts]
    BY <1>1 DEF TickLocals
  <2>2. [tick[t] EXCEPT !.verdict[s] = v] \in TickLocals
    BY <1>1, <2>1 DEF TickLocals
  <2> QED
    BY <2>2 DEF TypeOK
<1>4. ASSUME NEW s \in Stocks, NEW v \in Verdicts, NEW q \in LimitStates
      PROVE  [tick EXCEPT ![t].verdict[s] = v, ![t].prev = q] \in [Tickers -> TickLocals]
  <2>1. [tick[t].verdict EXCEPT ![s] = v] \in [Stocks -> Verdicts]
    BY <1>1 DEF TickLocals
  <2>2. [tick[t] EXCEPT !.verdict[s] = v, !.prev = q] \in TickLocals
    BY <1>1, <2>1 DEF TickLocals
  <2> QED
    BY <2>2 DEF TypeOK
<1> QED
  BY <1>2, <1>3, <1>4

\* ... and what they leave alone.
SetsPc(u, p) == tick' = [tick EXCEPT ![u].pc = p]

SetsVerdict(u, r, v, q) ==
  \/ tick' = [tick EXCEPT ![u].verdict[r] = v] /\ q = tick[u].prev
  \/ tick' = [tick EXCEPT ![u].verdict[r] = v, ![u].prev = q]

LEMMA PcFrame ==
  ASSUME TypeOK, NEW u \in Tickers, NEW p, SetsPc(u, p), NEW t \in Tickers
  PROVE  /\ tick'[t].pc = IF t = u THEN p ELSE tick[t].pc
         /\ tick'[t].verdict = tick[t].verdict
         /\ tick'[t].quotes = tick[t].quotes
         /\ tick'[t].date = tick[t].date
         /\ tick'[t].at = tick[t].at
         /\ tick'[t].prev = tick[t].prev
<1>1. tick[t] \in TickLocals
  BY DEF TypeOK
<1>2. CASE t = u
  BY <1>1, <1>2 DEF TypeOK, SetsPc, TickLocals
<1>3. CASE t # u
  BY <1>1, <1>3 DEF TypeOK, SetsPc
<1> QED
  BY <1>2, <1>3

LEMMA VerdictFrame ==
  ASSUME TypeOK, NEW u \in Tickers, NEW r \in Stocks, NEW v, NEW q,
         SetsVerdict(u, r, v, q), NEW t \in Tickers
  PROVE  /\ tick'[t].pc = tick[t].pc
         /\ \A s \in Stocks :
              tick'[t].verdict[s] = IF t = u /\ s = r THEN v ELSE tick[t].verdict[s]
         /\ tick'[t].quotes = tick[t].quotes
         /\ tick'[t].date = tick[t].date
         /\ tick'[t].at = tick[t].at
         /\ tick'[t].prev = IF t = u THEN q ELSE tick[t].prev
<1>1. tick[t] \in TickLocals
  BY DEF TypeOK
<1>2. CASE t = u
  BY <1>1, <1>2 DEF TypeOK, SetsVerdict, TickLocals
<1>3. CASE t # u
  BY <1>1, <1>3 DEF TypeOK, SetsVerdict
<1> QED
  BY <1>2, <1>3

LEMMA WithResultsType ==
  ASSUME TypeOK, NEW d, NEW results, NEW source \in {"llm", "heat"}
  PROVE  WithResults(classif, d, results, source)
           \in [Days -> [Stocks -> {"none", "llm", "heat"}]]
BY DEF TypeOK, WithResults

LEMMA TypeInit == Init => TypeOK
<1> SUFFICES ASSUME Init PROVE TypeOK
  OBVIOUS
<1>1. resetDue \in BOOLEAN
  BY Zenon DEF Init
<1>2. tick \in [Tickers -> TickLocals]
  BY IdleType DEF Init, FreshProcess
<1>3. moves \in 0..MaxMoves /\ faults \in 0..MaxFaults /\ today \in Days
  BY PoolMonitorAssumption DEF Init, Days
<1>4. /\ limitUp \in [Days -> SUBSET Monitored]
      /\ above5 \in [Days -> SUBSET Monitored]
      /\ llmResults \in [Days -> SUBSET Monitored]
      /\ llmTable \in [Days -> SUBSET Monitored]
  BY DEF Init, FreshProcess, EmptyPool
<1>5. /\ firstLimit \in [Days -> [Stocks -> Times \cup {0}]]
      /\ classif \in [Days -> [Stocks -> {"none", "llm", "heat"}]]
      /\ stockStates \in [Stocks -> LimitStates]
      /\ quoteCache \in [Stocks -> Seen]
  BY DEF Init, FreshProcess, NoFirstLimit, NoClassif, AllNone, LimitStates, Unseen, Seen
<1>6. /\ llmRun \in [date : Days \cup {0}, limitUp : SUBSET Monitored, strong : SUBSET Monitored]
      /\ last \in [date : Days \cup {0}, quotes : [Stocks -> Seen]]
  BY DEF Init, FreshProcess, NoLLMRun, NoLast, Unseen, Seen
<1>7. /\ market \in [Stocks -> QuoteClasses]
      /\ session \in {"night", "open", "closed"}
      /\ tickMu \in Tickers \cup {NoTicker}
      /\ yStrong \subseteq Stocks
  BY DEF Init, FreshProcess
<1> QED
  BY <1>1, <1>2, <1>3, <1>4, <1>5, <1>6, <1>7 DEF TypeOK

LEMMA TypeStartTick ==
  ASSUME TypeOK, NEW t \in Tickers, StartTick(t)
  PROVE  TypeOK'
<1>1. PICK d \in Days : 
        tick' = [tick EXCEPT ![t] =
            [pc |-> "detect", date |-> d, at |-> moves + 1, quotes |-> Fetched,
             verdict |-> [s \in Stocks |-> IF Judgeable(s) THEN "todo" ELSE "skip"],
             prev |-> "None"]]
  BY DEF StartTick
<1>2. moves + 1 \in Times
  BY PoolMonitorAssumption DEF TypeOK, Times
<1>3. [pc |-> "detect", date |-> d, at |-> moves + 1, quotes |-> Fetched,
       verdict |-> [s \in Stocks |-> IF Judgeable(s) THEN "todo" ELSE "skip"],
       prev |-> "None"] \in TickLocals
  BY <1>2, FetchedType DEF TickLocals, Phases, Verdicts, LimitStates
<1>4. tick' \in [Tickers -> TickLocals]
  BY <1>1, <1>3 DEF TypeOK
<1> QED
  BY <1>4, FetchedType DEF StartTick, TypeOK

LEMMA TypeDetect ==
  ASSUME TypeOK, NEW t \in Tickers, NEW s \in Stocks,
         ReadPrevState(t, s) \/ JudgeStock(t, s)
  PROVE  TypeOK'
<1>1. CASE ReadPrevState(t, s)
  <2>1. tick' \in [Tickers -> TickLocals]
    BY <1>1, TickUpdate DEF TypeOK, ReadPrevState, Verdicts
  <2> QED
    BY <1>1, <2>1 DEF ReadPrevState, TypeOK
<1>2. CASE JudgeStock(t, s)
  <2> DEFINE class == tick[t].quotes[s]
             prev == tick[t].prev
  <2>1. tick' \in [Tickers -> TickLocals]
    <3>1. tick' = [tick EXCEPT ![t].verdict[s] = VerdictOf(class, prev)]
      BY <1>2 DEF JudgeStock
    <3>2. VerdictOf(class, prev) \in Verdicts
      BY VerdictType DEF Verdicts
    <3> HIDE DEF class, prev
    <3> QED
      BY <3>1, <3>2, TickUpdate
  <2>2. stockStates' \in [Stocks -> LimitStates]
    BY <1>2, NextStateType DEF TypeOK, JudgeStock
  <2>3. tick[t].date # 0 => tick[t].date \in Days
    BY DEF TypeOK, TickLocals
  <2>4. firstLimit' \in [Days -> [Stocks -> Times \cup {0}]]
    BY <1>2, <2>3 DEF TypeOK, JudgeStock, WithFirstLimitTime, TickLocals
  <2> QED
    BY <1>2, <2>1, <2>2, <2>4 DEF JudgeStock, TypeOK
<1> QED
  BY <1>1, <1>2

LEMMA TypeBatch ==
  ASSUME TypeOK, VerdictsOnMonitored, NEW t \in Tickers,
         \/ EndDetection(t) \/ RemoveLimitUpBatch(t) \/ RemoveAbove5Batch(t)
         \/ AddLimitUpBatch(t) \/ AddAbove5Batch(t)
  PROVE  TypeOK'
<1>1. ASSUME NEW V \in SUBSET {"up", "above", "opened"}
      PROVE  Judged(t, V) \subseteq Monitored
  BY DEF Judged, VerdictsOnMonitored
<1>2. CASE EndDetection(t)
  <2>1. tick' \in [Tickers -> TickLocals]
    BY <1>2, TickUpdate DEF EndDetection, Phases
  <2> QED
    BY <1>2, <2>1 DEF EndDetection, TypeOK
<1>3. CASE RemoveLimitUpBatch(t)
  <2>1. tick' \in [Tickers -> TickLocals]
    BY <1>3, TickUpdate DEF RemoveLimitUpBatch, Phases
  <2> QED
    BY <1>3, <2>1 DEF RemoveLimitUpBatch, TypeOK
<1>4. CASE RemoveAbove5Batch(t)
  <2>1. tick' \in [Tickers -> TickLocals]
    BY <1>4, TickUpdate DEF RemoveAbove5Batch, Phases
  <2> QED
    BY <1>4, <2>1 DEF RemoveAbove5Batch, TypeOK
<1>5. CASE AddLimitUpBatch(t)
  <2>1. tick' \in [Tickers -> TickLocals]
    BY <1>5, TickUpdate DEF AddLimitUpBatch, Phases
  <2>2. limitUp' \in [Days -> SUBSET Monitored]
    BY <1>1, <1>5 DEF AddLimitUpBatch, TypeOK
  <2> QED
    BY <1>5, <2>1, <2>2 DEF AddLimitUpBatch, TypeOK
<1>6. CASE AddAbove5Batch(t)
  <2>1. tick' \in [Tickers -> TickLocals]
    BY <1>6, TickUpdate DEF AddAbove5Batch, Phases
  <2>2. above5' \in [Days -> SUBSET Monitored]
    BY <1>1, <1>6 DEF AddAbove5Batch, TypeOK
  <2> QED
    BY <1>6, <2>1, <2>2 DEF AddAbove5Batch, TypeOK
<1> QED
  BY <1>2, <1>3, <1>4, <1>5, <1>6

LEMMA TypeMerge ==
  ASSUME TypeOK, NEW t \in Tickers,
         MergeLLM(t) \/ MergeHeat(t) \/ PublishTick(t)
  PROVE  TypeOK'
<1>1. CASE MergeLLM(t)
  <2>1. tick' \in [Tickers -> TickLocals]
    BY <1>1, TickUpdate DEF MergeLLM, Phases
  <2>2. classif' \in [Days -> [Stocks -> {"none", "llm", "heat"}]]
    BY <1>1, WithResultsType DEF MergeLLM, TypeOK
  <2> QED
    BY <1>1, <2>1, <2>2 DEF MergeLLM, TypeOK
<1>2. CASE MergeHeat(t)
  <2>1. tick' \in [Tickers -> TickLocals]
    BY <1>2, TickUpdate DEF MergeHeat, Phases
  <2>2. classif' \in [Days -> [Stocks -> {"none", "llm", "heat"}]]
    BY <1>2, WithResultsType DEF MergeHeat
  <2> QED
    BY <1>2, <2>1, <2>2 DEF MergeHeat, TypeOK
<1>3. CASE PublishTick(t)
  <2>1. tick' \in [Tickers -> TickLocals]
    BY <1>3, IdleType DEF TypeOK, PublishTick
  <2>2. last' \in [date : Days \cup {0}, quotes : [Stocks -> Seen]]
    BY <1>3 DEF TypeOK, PublishTick, TickLocals
  <2> QED
    BY <1>3, <2>1, <2>2 DEF PublishTick, TypeOK
<1> QED
  BY <1>1, <1>2, <1>3

\* What a new day and a new process make of the caches.
LEMMA EmptyCaches ==
  /\ EmptyPool \in [Days -> SUBSET Monitored]
  /\ NoFirstLimit \in [Days -> [Stocks -> Times \cup {0}]]
  /\ NoClassif \in [Days -> [Stocks -> {"none", "llm", "heat"}]]
  /\ Unseen \in [Stocks -> Seen]
  /\ AllNone \in [Stocks -> LimitStates]
  /\ NoLLMRun \in [date : Days \cup {0}, limitUp : SUBSET Monitored, strong : SUBSET Monitored]
  /\ NoLast \in [date : Days \cup {0}, quotes : [Stocks -> Seen]]
BY DEF EmptyPool, NoFirstLimit, NoClassif, Unseen, Seen, AllNone, LimitStates,
       NoLLMRun, NoLast

LEMMA TypeLLM ==
  ASSUME TypeOK, LLMStart \/ LLMFinish
  PROVE  TypeOK'
<1>1. CASE LLMStart
  <2>1. PICK skipped \in SUBSET Monitored, stored \in {{}, llmTable[last.date]} :
          LET known == IF llmResults[last.date] = {} THEN stored \cap Gaining(last.quotes)
                       ELSE llmResults[last.date]
              left == (Gaining(last.quotes) \ known) \ skipped
          IN  /\ llmResults' = [llmResults EXCEPT ![last.date] = known]
              /\ llmRun' = IF left = {} THEN NoLLMRun ELSE
                    [date |-> last.date,
                     limitUp |-> {s \in left : last.quotes[s] = "limit"},
                     strong |-> {s \in left : last.quotes[s] # "limit"}]
    BY <1>1 DEF LLMStart
  <2> DEFINE known == IF llmResults[last.date] = {} THEN stored \cap Gaining(last.quotes)
                      ELSE llmResults[last.date]
             left == (Gaining(last.quotes) \ known) \ skipped
  <2>2. last.date \in Days /\ last.date \in Days \cup {0}
    BY <1>1 DEF LLMStart, TypeOK
  <2>3. Gaining(last.quotes) \subseteq Monitored
    BY DEF Gaining
  <2>4. known \in SUBSET Monitored /\ left \in SUBSET Monitored
    BY <2>2, <2>3 DEF TypeOK
  <2>5. llmResults' \in [Days -> SUBSET Monitored]
    BY <2>1, <2>4 DEF TypeOK
  <2>6. llmRun' \in [date : Days \cup {0}, limitUp : SUBSET Monitored, strong : SUBSET Monitored]
    <3>1. CASE left = {}
      BY <2>1, <3>1, EmptyCaches
    <3>2. CASE left # {}
      <4>1. llmRun' = [date |-> last.date,
                       limitUp |-> {s \in left : last.quotes[s] = "limit"},
                       strong |-> {s \in left : last.quotes[s] # "limit"}]
        BY <2>1, <3>2
      <4> QED
        BY <4>1, <2>2, <2>4
    <3> QED
      BY <3>1, <3>2
  <2> QED
    BY <1>1, <2>5, <2>6 DEF LLMStart, TypeOK
<1>2. CASE LLMFinish
  <2>1. llmRun' \in [date : Days \cup {0}, limitUp : SUBSET Monitored, strong : SUBSET Monitored]
    BY <1>2, EmptyCaches DEF LLMFinish
  <2>2. PICK answered \in SUBSET (llmRun.limitUp \cup llmRun.strong) :
          /\ llmResults' = [llmResults EXCEPT ![llmRun.date] = @ \cup answered]
          /\ llmTable' \in {llmTable, [llmTable EXCEPT ![llmRun.date] = @ \cup answered]}
    BY <1>2 DEF LLMFinish
  <2>3. answered \subseteq Monitored
    BY DEF TypeOK
  <2>4. llmResults' \in [Days -> SUBSET Monitored]
    BY <2>2, <2>3 DEF TypeOK
  <2>5. llmTable' \in [Days -> SUBSET Monitored]
    BY <2>2, <2>3 DEF TypeOK
  <2> QED
    BY <1>2, <2>1, <2>4, <2>5 DEF LLMFinish, TypeOK
<1> QED
  BY <1>1, <1>2

LEMMA TypeDay ==
  ASSUME TypeOK,
         \/ PreMarketInit \/ TriggerLoadYesterdayStrongPool
         \/ MarketMoves \/ MarketOpens \/ MarketCloses
  PROVE  TypeOK'
<1>1. CASE PreMarketInit
  BY <1>1 DEF PreMarketInit, TypeOK, AllNone, LimitStates
<1>2. CASE TriggerLoadYesterdayStrongPool
  BY <1>2 DEF TriggerLoadYesterdayStrongPool, TypeOK
<1>3. CASE MarketMoves
  BY <1>3, PoolMonitorAssumption DEF MarketMoves, TypeOK
<1>4. CASE MarketOpens
  BY <1>4 DEF MarketOpens, TypeOK
<1>5. CASE MarketCloses
  BY <1>5 DEF MarketCloses, TypeOK
<1> QED
  BY <1>1, <1>2, <1>3, <1>4, <1>5

LEMMA TypeReset ==
  ASSUME TypeOK, NewDay \/ Restart \/ LLMPanics
  PROVE  TypeOK'
<1>1. CASE NewDay
  <2>1. today' \in Days
    BY <1>1, PoolMonitorAssumption DEF NewDay, TypeOK, Days
  <2> QED
    BY <1>1, <2>1, EmptyCaches DEF NewDay, TypeOK
<1>2. ASSUME ProcessDies, faults' \in 0..MaxFaults, resetDue' \in BOOLEAN,
             UNCHANGED <<market, moves, today, session, llmTable>>
      PROVE  TypeOK'
  <2>1. tick' \in [Tickers -> TickLocals]
    BY <1>2, IdleType DEF ProcessDies
  <2>2. /\ stockStates' = AllNone /\ tickMu' = NoTicker
        /\ limitUp' = EmptyPool /\ above5' = EmptyPool /\ firstLimit' = NoFirstLimit
        /\ yStrong' = {} /\ quoteCache' = Unseen
        /\ classif' = NoClassif /\ llmResults' = EmptyPool /\ llmRun' = NoLLMRun
        /\ last' = NoLast
    BY <1>2 DEF ProcessDies
  <2> QED
    BY <1>2, <2>1, <2>2, EmptyCaches DEF TypeOK
<1>3. CASE Restart
  <2>1. faults' \in 0..MaxFaults
    BY <1>3, PoolMonitorAssumption DEF Restart, TypeOK
  <2>2. resetDue' \in BOOLEAN
    BY <1>3, Zenon DEF Restart, TypeOK
  <2> QED
    BY <1>2, <1>3, <2>1, <2>2 DEF Restart
<1>4. CASE LLMPanics
  <2>1. faults' \in 0..MaxFaults /\ resetDue' \in BOOLEAN
    BY <1>4 DEF LLMPanics, envVars, TypeOK
  <2> QED
    BY <1>2, <1>4, <2>1 DEF LLMPanics, envVars
<1> QED
  BY <1>1, <1>3, <1>4

LEMMA TypeTickFails ==
  ASSUME TypeOK, NEW t \in Tickers, TickFails(t)
  PROVE  TypeOK'
<1>1. faults' \in 0..MaxFaults
  BY PoolMonitorAssumption DEF TickFails, TypeOK
<1>2. quoteCache' \in [Stocks -> Seen]
  BY FetchedType DEF TickFails, TypeOK
<1> QED
  BY <1>1, <1>2 DEF TickFails, TypeOK

LEMMA TypeNext == TypeOK /\ VerdictsOnMonitored /\ [Next]_vars => TypeOK'
<1> SUFFICES ASSUME TypeOK, VerdictsOnMonitored, [Next]_vars PROVE TypeOK'
  OBVIOUS
<1>1. ASSUME NEW t \in Tickers, StartTick(t) \/ TickFails(t) \/ TickStep(t)
      PROVE  TypeOK'
  BY <1>1, TypeStartTick, TypeTickFails, TypeDetect, TypeBatch, TypeMerge DEF TickStep
<1>2. CASE UNCHANGED vars
  BY <1>2 DEF vars, TypeOK
<1> QED
  BY <1>1, <1>2, TypeLLM, TypeDay, TypeReset DEF Next

LEMMA VerdictsNext == TypeOK /\ VerdictsOnMonitored /\ [Next]_vars => VerdictsOnMonitored'
<1> SUFFICES ASSUME TypeOK, VerdictsOnMonitored, [Next]_vars,
                    NEW t \in Tickers, NEW s \in Stocks, tick'[t].verdict[s] # "skip"
             PROVE  s \in Monitored
  BY DEF VerdictsOnMonitored
<1> USE DEF VerdictsOnMonitored
<1>1. ASSUME NEW u \in Tickers, StartTick(u)
      PROVE  s \in Monitored
  BY <1>1 DEF StartTick, Judgeable, TypeOK
<1>2. ASSUME NEW u \in Tickers, NEW r \in Stocks, ReadPrevState(u, r) \/ JudgeStock(u, r)
      PROVE  s \in Monitored
  <2>1. tick[u].verdict[r] # "skip"
    BY <1>2 DEF ReadPrevState, JudgeStock
  <2>2. PICK v, q : SetsVerdict(u, r, v, q)
    BY <1>2 DEF ReadPrevState, JudgeStock, SetsVerdict
  <2>3. tick[t].verdict[s] # tick'[t].verdict[s] => u = t /\ r = s
    BY <2>2, VerdictFrame
  <2> QED
    BY <2>1, <2>3
<1>3. ASSUME NEW u \in Tickers, PublishTick(u)
      PROVE  s \in Monitored
  BY <1>3 DEF PublishTick, IdleTick, TypeOK
<1>4. ASSUME NEW u \in Tickers,
             \/ EndDetection(u) \/ RemoveLimitUpBatch(u) \/ RemoveAbove5Batch(u)
             \/ AddLimitUpBatch(u) \/ AddAbove5Batch(u) \/ MergeLLM(u) \/ MergeHeat(u)
      PROVE  s \in Monitored
  <2>1. PICK p : SetsPc(u, p)
    BY <1>4 DEF EndDetection, RemoveLimitUpBatch, RemoveAbove5Batch, AddLimitUpBatch,
                AddAbove5Batch, MergeLLM, MergeHeat, SetsPc
  <2> QED
    BY <2>1, PcFrame
<1>5. CASE Restart \/ LLMPanics
  <2>1. tick' = [u \in Tickers |-> IdleTick]
    BY <1>5 DEF Restart, LLMPanics, ProcessDies
  <2>2. tick'[t].verdict[s] = "skip"
    BY <2>1 DEF IdleTick
  <2> QED
    BY <2>2
<1>6. CASE tick' = tick
  BY <1>6
<1> QED
  BY <1>1, <1>2, <1>3, <1>4, <1>5, <1>6
     DEF Next, TickStep, TickFails, LLMStart, LLMFinish, PreMarketInit,
         TriggerLoadYesterdayStrongPool, MarketMoves, MarketOpens, MarketCloses,
         NewDay, vars

\* The monitor and its caches keep their types, for any number of stocks,
\* tickers, days, moves and faults, the operator endpoints and the LLM included;
\* the pools never hold a stock that is ST or not active.
THEOREM TypeCorrect == Spec => []TypeOK
<1>1. Init => TypeOK /\ VerdictsOnMonitored
  <2>1. Init => tick = [t \in Tickers |-> IdleTick]
    BY DEF Init, FreshProcess
  <2> QED
    BY <2>1, TypeInit DEF IdleTick, VerdictsOnMonitored
<1>2. TypeOK /\ VerdictsOnMonitored /\ [Next]_vars => (TypeOK /\ VerdictsOnMonitored)'
  BY TypeNext, VerdictsNext
<1> QED
  BY <1>1, <1>2, PTL DEF Spec

-------------------------------------------------------------------------------
(***************************************************************************)
(* The pools, where the operator endpoints are left alone.                 *)
(***************************************************************************)
LEMMA Alone ==
  ASSUME IInv, NEW t \in Tickers, InTick(t), NEW u \in Tickers, u # t
  PROVE  tick[u].pc = "idle"
BY DEF IInv, LockInv, InTick

LEMMA PoolsOfStocks ==
  TypeOK => today \in Days /\ \A d \in Days : limitUp[d] \subseteq Stocks /\ above5[d] \subseteq Stocks
BY PoolMonitorAssumption DEF TypeOK

LEMMA IInvInit == Init => IInv
<1> SUFFICES ASSUME Init PROVE IInv
  OBVIOUS
<1>1. TypeOK
  BY TypeInit
<1>2. /\ tick = [t \in Tickers |-> IdleTick] /\ tickMu = NoTicker
      /\ stockStates = AllNone
      /\ limitUp = EmptyPool /\ above5 = EmptyPool
  BY DEF Init, FreshProcess
<1>3. \A t \in Tickers : tick[t].pc = "idle" /\ \A s \in Stocks : tick[t].verdict[s] = "skip"
  BY <1>2 DEF IdleTick
<1>4. today \in Days /\ limitUp[today] = {} /\ above5[today] = {}
  BY <1>1, <1>2 DEF EmptyPool, TypeOK
<1>5. resetDue => session = "night"
  BY Zenon DEF Init
<1>6. VerdictsOnMonitored
  BY <1>3 DEF VerdictsOnMonitored
<1>7. LockInv
  BY <1>2, <1>3, PoolMonitorAssumption DEF LockInv, InTick
<1>8. DayInv
  BY <1>2, <1>3, <1>4, <1>5 DEF DayInv, InTick, EmptyPool
<1>9. ReadInv /\ VerdictInv /\ BatchInv
  BY <1>3 DEF ReadInv, VerdictInv, BatchInv, InTick
<1>10. FirstInv /\ PoolInv
  BY <1>2, <1>4 DEF FirstInv, PoolInv, AllNone
<1> QED
  BY <1>1, <1>6, <1>7, <1>8, <1>9, <1>10 DEF IInv

\* Steps that change nothing the invariant speaks of but its types.
LEMMA IInvFrame ==
  ASSUME IInv, TypeOK', VerdictsOnMonitored',
         UNCHANGED <<tick, tickMu, stockStates, limitUp, above5, firstLimit,
                     today, session, resetDue>>
  PROVE  IInv'
BY DEF IInv, LockInv, DayInv, ReadInv, FirstInv, VerdictInv, PoolInv, BatchInv,
       LeavingLimitUp, InTick

LEMMA IInvStartTick ==
  ASSUME IInv, ~OperatorCalls, TypeOK', VerdictsOnMonitored',
         NEW t \in Tickers, StartTick(t)
  PROVE  IInv'
<1> USE DEF IInv
<1>1. \A u \in Tickers : tick[u].pc = "idle"
  BY PoolMonitorAssumption DEF StartTick, CanLock, LockInv, InTick
<1>2. /\ tickMu' = t /\ session = "open"
      /\ UNCHANGED <<stockStates, limitUp, above5, firstLimit, today, session, resetDue>>
  BY DEF StartTick, MayTick
<1>3. /\ tick'[t].pc = "detect" /\ tick'[t].date = today /\ tick'[t].at # 0
      /\ \A s \in Stocks : tick'[t].verdict[s] \in {"todo", "skip"}
      /\ \A u \in Tickers : u # t => tick'[u] = tick[u]
  BY PoolMonitorAssumption DEF StartTick, MayTick, TypeOK
<1>4. \A u \in Tickers : InTick(u)' <=> u = t
  BY <1>1, <1>3 DEF InTick
<1>5. LockInv'
  BY <1>2, <1>4 DEF LockInv
<1>6. DayInv'
  BY <1>2, <1>3, <1>4 DEF DayInv
<1>7. ReadInv' /\ VerdictInv'
  BY <1>3, <1>4 DEF ReadInv, VerdictInv
<1>8. FirstInv'
  BY <1>2 DEF FirstInv
<1>9. PoolInv'
  BY <1>1, <1>2 DEF PoolInv, LeavingLimitUp
<1>10. BatchInv'
  BY <1>1, <1>3 DEF BatchInv
<1> QED
  BY <1>5, <1>6, <1>7, <1>8, <1>9, <1>10

LEMMA IInvReadPrevState ==
  ASSUME IInv, TypeOK', VerdictsOnMonitored',
         NEW t \in Tickers, NEW s \in Stocks, ReadPrevState(t, s)
  PROVE  IInv'
<1> USE DEF IInv
<1>1. /\ tick[t].pc = "detect" /\ \A r \in Stocks : tick[t].verdict[r] # "read"
      /\ tick[t].verdict[s] = "todo"
      /\ SetsVerdict(t, s, "read", stockStates[s])
      /\ UNCHANGED <<tickMu, stockStates, limitUp, above5, firstLimit, today,
                     session, resetDue>>
  BY DEF ReadPrevState, SetsVerdict
<1>2. \A u \in Tickers :
        /\ tick'[u].pc = tick[u].pc
        /\ \A r \in Stocks :
             tick'[u].verdict[r] = IF u = t /\ r = s THEN "read" ELSE tick[u].verdict[r]
        /\ tick'[u].date = tick[u].date
        /\ tick'[u].at = tick[u].at
        /\ tick'[u].prev = IF u = t THEN stockStates[s] ELSE tick[u].prev
  BY <1>1, VerdictFrame
<1>3. LockInv' /\ DayInv' /\ FirstInv' /\ BatchInv'
  BY <1>1, <1>2 DEF LockInv, DayInv, FirstInv, BatchInv, InTick
<1>4. ReadInv'
  BY <1>1, <1>2 DEF ReadInv, InTick
<1>5. VerdictInv'
  BY <1>1, <1>2 DEF VerdictInv, InTick
<1>6. ASSUME NEW r \in Stocks, LeavingLimitUp(r)
      PROVE  LeavingLimitUp(r)'
  BY <1>1, <1>2, <1>6, Alone DEF LeavingLimitUp, InTick
<1>7. PoolInv'
  BY <1>1, <1>6, PoolsOfStocks DEF PoolInv
<1> QED
  BY <1>3, <1>4, <1>5, <1>7

LEMMA IInvJudgeStock ==
  ASSUME IInv, TypeOK', VerdictsOnMonitored',
         NEW t \in Tickers, NEW s \in Stocks, JudgeStock(t, s)
  PROVE  IInv'
<1> USE DEF IInv
<1> DEFINE class == tick[t].quotes[s]
           state == NextLimitState(class, stockStates[s])
           verdict == VerdictOf(class, stockStates[s])
<1>1. /\ tick[t].pc = "detect" /\ tick[t].verdict[s] = "read"
      /\ tick[t].prev = stockStates[s]
      /\ tick[t].date = today /\ tick[t].at # 0 /\ ~resetDue
  BY DEF JudgeStock, ReadInv, DayInv, InTick
<1>2. /\ stockStates' = [stockStates EXCEPT ![s] = state]
      /\ SetsVerdict(t, s, verdict, stockStates[s])
      /\ firstLimit' = IF IsFirstLimitUp(class, stockStates[s])
                       THEN WithFirstLimitTime(firstLimit, today, s, tick[t].at)
                       ELSE firstLimit
      /\ UNCHANGED <<tickMu, limitUp, above5, today, session, resetDue>>
  BY <1>1 DEF JudgeStock, SetsVerdict
<1>3. \A u \in Tickers :
        /\ tick'[u].pc = tick[u].pc
        /\ \A r \in Stocks :
             tick'[u].verdict[r] = IF u = t /\ r = s THEN verdict ELSE tick[u].verdict[r]
        /\ tick'[u].date = tick[u].date
        /\ tick'[u].at = tick[u].at
        /\ tick'[u].prev = tick[u].prev
  BY <1>1, <1>2, VerdictFrame
<1>4. \A u \in Tickers : u # t => tick[u].pc = "idle"
  BY <1>1, Alone DEF InTick
<1>5. \A r \in Stocks : stockStates'[r] = IF r = s THEN state ELSE stockStates[r]
  BY <1>2 DEF TypeOK
<1>6. \A d \in Days, r \in Stocks : firstLimit[d][r] # 0 => firstLimit'[d][r] # 0
  BY <1>2 DEF TypeOK, WithFirstLimitTime
<1>7. state # "None" => stockStates[s] # "None" \/ IsFirstLimitUp(class, stockStates[s])
  BY DEF NextLimitState, IsFirstLimitUp, SealedStates
<1>8. IsFirstLimitUp(class, stockStates[s]) => firstLimit'[today][s] # 0
  BY <1>1, <1>2, PoolsOfStocks DEF TypeOK, WithFirstLimitTime
<1>9. /\ verdict = "up" => state \in SealedStates
      /\ verdict \in {"opened", "above", "drop"} => state \notin SealedStates
      /\ verdict = "above" => stockStates[s] \notin SealedStates
      /\ verdict # "read"
  BY DEF VerdictOf, NextLimitState, SealedStates
<1>10. LockInv' /\ DayInv' /\ BatchInv'
  BY <1>1, <1>2, <1>3, <1>4 DEF LockInv, DayInv, BatchInv, InTick
<1>11. ReadInv'
  BY <1>1, <1>3, <1>4, <1>9 DEF ReadInv, InTick
<1>12. FirstInv'
  BY <1>1, <1>2, <1>5, <1>6, <1>7, <1>8, PoolsOfStocks DEF FirstInv
<1>13. VerdictInv'
  BY <1>3, <1>4, <1>5, <1>9 DEF VerdictInv, InTick
<1>14. ASSUME NEW r \in limitUp[today]
       PROVE  stockStates'[r] \in SealedStates \/ LeavingLimitUp(r)'
  <2>1. r \in Stocks
    BY PoolsOfStocks
  <2>2. CASE r = s
    <3>1. ~LeavingLimitUp(s)
      BY <1>1, <1>4 DEF LeavingLimitUp
    <3>2. stockStates[s] \in SealedStates
      BY <2>2, <3>1 DEF PoolInv
    <3>3. verdict \in {"up", "opened", "drop"}
      BY <1>9, <3>2, VerdictType
    <3> QED
      BY <1>1, <1>3, <1>5, <1>9, <2>2, <3>3 DEF LeavingLimitUp
  <2>3. CASE r # s
    <3>1. LeavingLimitUp(r) => LeavingLimitUp(r)'
      BY <1>3, <2>1, <2>3 DEF LeavingLimitUp
    <3> QED
      BY <1>5, <2>1, <2>3, <3>1 DEF PoolInv
  <2> QED
    BY <2>2, <2>3
<1>15. PoolInv'
  BY <1>2, <1>6, <1>14, PoolsOfStocks DEF PoolInv
<1> QED
  BY <1>10, <1>11, <1>12, <1>13, <1>15

\* The steps of a tick that only move it on, or change the pools: what they keep.
LEMMA PcStep ==
  ASSUME IInv, NEW t \in Tickers, InTick(t), NEW p \in Phases \ {"idle"}, SetsPc(t, p),
         UNCHANGED <<tickMu, stockStates, firstLimit, today, session, resetDue>>
  PROVE  /\ \A u \in Tickers :
              /\ tick'[u].pc = IF u = t THEN p ELSE "idle"
              /\ tick'[u].verdict = tick[u].verdict
              /\ tick'[u].date = tick[u].date
              /\ tick'[u].at = tick[u].at
              /\ tick'[u].prev = tick[u].prev
         /\ tick[t].date = today
         /\ ~resetDue
         /\ LockInv' /\ ReadInv' /\ FirstInv' /\ VerdictInv'
<1> USE DEF IInv
<1>1. \A u \in Tickers :
        /\ tick'[u].pc = IF u = t THEN p ELSE "idle"
        /\ tick'[u].verdict = tick[u].verdict
        /\ tick'[u].date = tick[u].date
        /\ tick'[u].at = tick[u].at
        /\ tick'[u].prev = tick[u].prev
  BY PcFrame, Alone
<1>2. \A u \in Tickers : InTick(u)' <=> InTick(u)
  BY <1>1, Alone DEF InTick
<1>3. tick[t].date = today /\ ~resetDue
  BY DEF DayInv
<1>4. LockInv' /\ ReadInv' /\ FirstInv' /\ VerdictInv'
  BY <1>1, <1>2 DEF LockInv, ReadInv, FirstInv, VerdictInv
<1> QED
  BY <1>1, <1>3, <1>4

LEMMA IInvEndDetection ==
  ASSUME IInv, TypeOK', VerdictsOnMonitored', NEW t \in Tickers, EndDetection(t)
  PROVE  IInv'
<1> USE DEF IInv
<1>1. /\ tick[t].pc = "detect" /\ InTick(t)
      /\ SetsPc(t, "removeLimitUp")
      /\ UNCHANGED <<tickMu, stockStates, limitUp, above5, firstLimit, today, session, resetDue>>
  BY DEF EndDetection, SetsPc, InTick
<1>2. /\ \A u \in Tickers :
           /\ tick'[u].pc = IF u = t THEN "removeLimitUp" ELSE "idle"
           /\ tick'[u].verdict = tick[u].verdict
           /\ tick'[u].date = tick[u].date
           /\ tick'[u].at = tick[u].at
      /\ LockInv' /\ ReadInv' /\ FirstInv' /\ VerdictInv'
  BY <1>1, PcStep DEF Phases
<1>3. DayInv' /\ BatchInv'
  BY <1>1, <1>2 DEF DayInv, BatchInv, InTick
<1>4. \A s \in Stocks : LeavingLimitUp(s) => LeavingLimitUp(s)'
  BY <1>1, <1>2, Alone DEF LeavingLimitUp, InTick
<1>5. PoolInv'
  BY <1>1, <1>4, PoolsOfStocks DEF PoolInv
<1> QED
  BY <1>2, <1>3, <1>5

LEMMA IInvRemoveLimitUpBatch ==
  ASSUME IInv, TypeOK', VerdictsOnMonitored', NEW t \in Tickers, RemoveLimitUpBatch(t)
  PROVE  IInv'
<1> USE DEF IInv
<1>1. /\ tick[t].pc = "removeLimitUp" /\ InTick(t)
      /\ SetsPc(t, "removeAbove5")
      /\ limitUp' = [limitUp EXCEPT ![tick[t].date] = @ \ Judged(t, {"opened", "drop"})]
      /\ UNCHANGED <<tickMu, stockStates, above5, firstLimit, today, session, resetDue>>
  BY DEF RemoveLimitUpBatch, SetsPc, InTick
<1>2. /\ \A u \in Tickers :
           /\ tick'[u].pc = IF u = t THEN "removeAbove5" ELSE "idle"
           /\ tick'[u].verdict = tick[u].verdict
           /\ tick'[u].date = tick[u].date
           /\ tick'[u].at = tick[u].at
      /\ tick[t].date = today
      /\ LockInv' /\ ReadInv' /\ FirstInv' /\ VerdictInv'
  BY <1>1, PcStep DEF Phases
<1>3. /\ limitUp'[today] = limitUp[today] \ Judged(t, {"opened", "drop"})
      /\ \A d \in Days : d # today => limitUp'[d] = limitUp[d]
  BY <1>1, <1>2 DEF TypeOK
<1>4. DayInv' /\ BatchInv'
  BY <1>1, <1>2, <1>3 DEF DayInv, BatchInv, InTick
<1>5. ASSUME NEW s \in limitUp'[today]
      PROVE  stockStates[s] \in SealedStates
  <2>1. s \in Stocks /\ s \in limitUp[today] /\ s \notin Judged(t, {"opened", "drop"})
    BY <1>3, PoolsOfStocks
  <2>2. ~LeavingLimitUp(s)
    BY <1>1, <2>1, Alone DEF LeavingLimitUp, Judged
  <2> QED
    BY <2>1, <2>2 DEF PoolInv
<1>6. PoolInv'
  BY <1>1, <1>3, <1>5 DEF PoolInv
<1> QED
  BY <1>2, <1>4, <1>6

LEMMA IInvRemoveAbove5Batch ==
  ASSUME IInv, TypeOK', VerdictsOnMonitored', NEW t \in Tickers, RemoveAbove5Batch(t)
  PROVE  IInv'
<1> USE DEF IInv
<1>1. /\ tick[t].pc = "removeAbove5" /\ InTick(t)
      /\ SetsPc(t, "addLimitUp")
      /\ above5' = [above5 EXCEPT ![tick[t].date] = @ \ Judged(t, {"up", "drop"})]
      /\ UNCHANGED <<tickMu, stockStates, limitUp, firstLimit, today, session, resetDue>>
  BY DEF RemoveAbove5Batch, SetsPc, InTick
<1>2. /\ \A u \in Tickers :
           /\ tick'[u].pc = IF u = t THEN "addLimitUp" ELSE "idle"
           /\ tick'[u].verdict = tick[u].verdict
           /\ tick'[u].date = tick[u].date
           /\ tick'[u].at = tick[u].at
      /\ tick[t].date = today
      /\ LockInv' /\ ReadInv' /\ FirstInv' /\ VerdictInv'
  BY <1>1, PcStep DEF Phases
<1>3. /\ above5'[today] = above5[today] \ Judged(t, {"up", "drop"})
      /\ \A d \in Days : d # today => above5'[d] = above5[d]
  BY <1>1, <1>2 DEF TypeOK
<1>4. DayInv'
  BY <1>1, <1>2, <1>3 DEF DayInv, InTick
<1>5. BatchInv'
  BY <1>1, <1>2, <1>3 DEF BatchInv, Judged
<1>6. \A s \in Stocks : ~LeavingLimitUp(s)
  BY <1>1, Alone DEF LeavingLimitUp
<1>7. PoolInv'
  BY <1>1, <1>3, <1>6, PoolsOfStocks DEF PoolInv
<1> QED
  BY <1>2, <1>4, <1>5, <1>7

LEMMA IInvAddLimitUpBatch ==
  ASSUME IInv, TypeOK', VerdictsOnMonitored', NEW t \in Tickers, AddLimitUpBatch(t)
  PROVE  IInv'
<1> USE DEF IInv
<1>1. /\ tick[t].pc = "addLimitUp" /\ InTick(t)
      /\ SetsPc(t, "addAbove5")
      /\ limitUp' = [limitUp EXCEPT ![tick[t].date] = @ \cup Judged(t, {"up"})]
      /\ UNCHANGED <<tickMu, stockStates, above5, firstLimit, today, session, resetDue>>
  BY DEF AddLimitUpBatch, SetsPc, InTick
<1>2. /\ \A u \in Tickers :
           /\ tick'[u].pc = IF u = t THEN "addAbove5" ELSE "idle"
           /\ tick'[u].verdict = tick[u].verdict
           /\ tick'[u].date = tick[u].date
           /\ tick'[u].at = tick[u].at
      /\ tick[t].date = today /\ ~resetDue
      /\ LockInv' /\ ReadInv' /\ FirstInv' /\ VerdictInv'
  BY <1>1, PcStep DEF Phases
<1>3. /\ limitUp'[today] = limitUp[today] \cup Judged(t, {"up"})
      /\ \A d \in Days : d # today => limitUp'[d] = limitUp[d]
  BY <1>1, <1>2 DEF TypeOK
<1>4. DayInv' /\ BatchInv'
  BY <1>1, <1>2, <1>3 DEF DayInv, BatchInv, InTick
<1>5. \A s \in Stocks : ~LeavingLimitUp(s)
  BY <1>1, Alone DEF LeavingLimitUp
<1>6. ASSUME NEW s \in Judged(t, {"up"})
      PROVE  /\ stockStates[s] \in SealedStates
             /\ firstLimit[today][s] # 0
             /\ s \notin above5[today]
  <2>1. s \in Stocks /\ tick[t].verdict[s] = "up"
    BY DEF Judged
  <2>2. stockStates[s] \in SealedStates
    BY <1>1, <2>1 DEF VerdictInv
  <2> QED
    BY <1>1, <1>2, <2>1, <2>2 DEF FirstInv, SealedStates, BatchInv
<1>7. PoolInv'
  BY <1>1, <1>3, <1>5, <1>6, PoolsOfStocks DEF PoolInv
<1> QED
  BY <1>2, <1>4, <1>7

LEMMA IInvAddAbove5Batch ==
  ASSUME IInv, TypeOK', VerdictsOnMonitored', NEW t \in Tickers, AddAbove5Batch(t)
  PROVE  IInv'
<1> USE DEF IInv
<1>1. /\ tick[t].pc = "addAbove5" /\ InTick(t)
      /\ SetsPc(t, "mergeLLM")
      /\ above5' = [above5 EXCEPT ![tick[t].date] = @ \cup Judged(t, {"above", "opened"})]
      /\ UNCHANGED <<tickMu, stockStates, limitUp, firstLimit, today, session, resetDue>>
  BY DEF AddAbove5Batch, SetsPc, InTick
<1>2. /\ \A u \in Tickers :
           /\ tick'[u].pc = IF u = t THEN "mergeLLM" ELSE "idle"
           /\ tick'[u].verdict = tick[u].verdict
           /\ tick'[u].date = tick[u].date
           /\ tick'[u].at = tick[u].at
      /\ tick[t].date = today
      /\ LockInv' /\ ReadInv' /\ FirstInv' /\ VerdictInv'
  BY <1>1, PcStep DEF Phases
<1>3. /\ above5'[today] = above5[today] \cup Judged(t, {"above", "opened"})
      /\ \A d \in Days : d # today => above5'[d] = above5[d]
  BY <1>1, <1>2 DEF TypeOK
<1>4. DayInv' /\ BatchInv'
  BY <1>1, <1>2, <1>3 DEF DayInv, BatchInv, InTick
<1>5. \A s \in Stocks : ~LeavingLimitUp(s)
  BY <1>1, Alone DEF LeavingLimitUp
<1>6. \A s \in limitUp[today] : s \notin Judged(t, {"above", "opened"})
  BY <1>1, <1>5, PoolsOfStocks DEF PoolInv, VerdictInv, Judged
<1>7. PoolInv'
  BY <1>1, <1>3, <1>5, <1>6, PoolsOfStocks DEF PoolInv
<1> QED
  BY <1>2, <1>4, <1>7

LEMMA IInvMerge ==
  ASSUME IInv, TypeOK', VerdictsOnMonitored', NEW t \in Tickers,
         MergeLLM(t) \/ MergeHeat(t)
  PROVE  IInv'
<1> USE DEF IInv
<1>1. /\ tick[t].pc \in {"mergeLLM", "mergeHeat"} /\ InTick(t)
      /\ SetsPc(t, "mergeHeat") \/ SetsPc(t, "publish")
      /\ UNCHANGED <<tickMu, stockStates, limitUp, above5, firstLimit, today, session, resetDue>>
  BY DEF MergeLLM, MergeHeat, SetsPc, InTick
<1>2. /\ \A u \in Tickers :
           /\ tick'[u].pc \in IF u = t THEN {"mergeHeat", "publish"} ELSE {"idle"}
           /\ tick'[u].verdict = tick[u].verdict
           /\ tick'[u].date = tick[u].date
           /\ tick'[u].at = tick[u].at
      /\ LockInv' /\ ReadInv' /\ FirstInv' /\ VerdictInv'
  BY <1>1, PcStep DEF Phases
<1>3. DayInv' /\ BatchInv'
  BY <1>1, <1>2 DEF DayInv, BatchInv, InTick
<1>4. \A s \in Stocks : ~LeavingLimitUp(s)
  BY <1>1, Alone DEF LeavingLimitUp
<1>5. PoolInv'
  BY <1>1, <1>4, PoolsOfStocks DEF PoolInv
<1> QED
  BY <1>2, <1>3, <1>5

LEMMA IInvPublishTick ==
  ASSUME IInv, TypeOK', VerdictsOnMonitored', NEW t \in Tickers, PublishTick(t)
  PROVE  IInv'
<1> USE DEF IInv
<1>1. /\ tick[t].pc = "publish" /\ InTick(t)
      /\ tickMu' = NoTicker
      /\ UNCHANGED <<stockStates, limitUp, above5, firstLimit, today, session, resetDue>>
  BY DEF PublishTick, InTick
<1>2. \A u \in Tickers : tick'[u].pc = "idle"
  BY <1>1, Alone DEF PublishTick, IdleTick, TypeOK
<1>3. LockInv'
  BY <1>1, <1>2, PoolMonitorAssumption DEF LockInv, InTick
<1>4. DayInv' /\ ReadInv' /\ VerdictInv' /\ BatchInv'
  BY <1>1, <1>2 DEF DayInv, ReadInv, VerdictInv, BatchInv, InTick
<1>5. FirstInv'
  BY <1>1 DEF FirstInv
<1>6. \A s \in Stocks : ~LeavingLimitUp(s)
  BY <1>1, Alone DEF LeavingLimitUp
<1>7. PoolInv'
  BY <1>1, <1>6, PoolsOfStocks DEF PoolInv
<1> QED
  BY <1>3, <1>4, <1>5, <1>7

LEMMA IInvPreMarketInit ==
  ASSUME IInv, ~OperatorCalls, TypeOK', VerdictsOnMonitored', PreMarketInit
  PROVE  IInv'
<1> USE DEF IInv
<1>1. /\ session = "night" /\ ~resetDue'
      /\ stockStates' = AllNone
      /\ UNCHANGED <<tick, tickMu, limitUp, above5, firstLimit, today, session>>
  BY DEF PreMarketInit
<1>2. \A t \in Tickers : tick[t].pc = "idle"
  BY <1>1 DEF DayInv, InTick
<1>3. LockInv' /\ DayInv' /\ ReadInv' /\ VerdictInv' /\ BatchInv'
  BY <1>1, <1>2 DEF LockInv, DayInv, ReadInv, VerdictInv, BatchInv, InTick
<1>4. FirstInv' /\ PoolInv'
  BY <1>1 DEF FirstInv, PoolInv, DayInv, AllNone
<1> QED
  BY <1>3, <1>4

LEMMA IInvSession ==
  ASSUME IInv, TypeOK', VerdictsOnMonitored', MarketOpens \/ MarketCloses
  PROVE  IInv'
<1> USE DEF IInv
<1>1. /\ session' # "night"
      /\ UNCHANGED <<tick, tickMu, stockStates, limitUp, above5, firstLimit, today, resetDue>>
      /\ ~resetDue
  BY DEF MarketOpens, MarketCloses, DayInv
<1> QED
  BY <1>1 DEF LockInv, DayInv, ReadInv, FirstInv, VerdictInv, PoolInv, BatchInv,
              LeavingLimitUp, InTick

LEMMA IInvReset ==
  ASSUME IInv, TypeOK', VerdictsOnMonitored', NewDay \/ Restart \/ LLMPanics
  PROVE  IInv'
<1> USE DEF IInv
<1>0. Restart \/ LLMPanics =>
        ProcessDies /\ (resetDue' => resetDue) /\ UNCHANGED <<today, session>>
  <2>1. Restart => (resetDue' => resetDue)
    BY Zenon DEF Restart
  <2>2. LLMPanics => (resetDue' => resetDue)
    BY DEF LLMPanics, envVars
  <2> QED
    BY <2>1, <2>2 DEF Restart, LLMPanics, envVars
<1>1. \A t \in Tickers : tick'[t].pc = "idle"
  <2>1. CASE NewDay
    BY <2>1 DEF NewDay, AllIdle
  <2>2. CASE Restart \/ LLMPanics
    BY <1>0, <2>2 DEF ProcessDies, IdleTick
  <2> QED
    BY <2>1, <2>2
<1>2. \A d \in Days : limitUp'[d] = {} /\ above5'[d] = {}
  BY <1>0 DEF NewDay, ProcessDies, EmptyPool
<1>3. tickMu' = NoTicker
  <2>1. CASE NewDay
    BY <2>1 DEF NewDay, AllIdle, LockInv, InTick, TypeOK
  <2>2. CASE Restart \/ LLMPanics
    BY <1>0, <2>2 DEF ProcessDies
  <2> QED
    BY <2>1, <2>2
<1>4. resetDue' => session' = "night"
  <2>1. CASE NewDay
    BY <2>1 DEF NewDay
  <2>2. CASE Restart \/ LLMPanics
    BY <1>0, <2>2 DEF DayInv
  <2> QED
    BY <2>1, <2>2
<1>5. resetDue' \/ stockStates' = AllNone
  BY <1>0 DEF NewDay, ProcessDies
<1>6. LockInv'
  BY <1>1, <1>3, PoolMonitorAssumption DEF LockInv, InTick
<1>7. today' \in Days
  BY DEF TypeOK
<1>8. DayInv'
  BY <1>1, <1>2, <1>4, <1>7 DEF DayInv, InTick
<1>9. ReadInv' /\ VerdictInv' /\ BatchInv'
  BY <1>1 DEF ReadInv, VerdictInv, BatchInv, InTick
<1>10. FirstInv'
  BY <1>5 DEF FirstInv, AllNone
<1>11. PoolInv'
  BY <1>2, <1>7 DEF PoolInv
<1> QED
  BY <1>6, <1>8, <1>9, <1>10, <1>11

LEMMA IInvNext == ~OperatorCalls /\ IInv /\ [Next]_vars => IInv'
<1> SUFFICES ASSUME ~OperatorCalls, IInv, [Next]_vars PROVE IInv'
  OBVIOUS
<1>1. TypeOK' /\ VerdictsOnMonitored'
  BY TypeNext, VerdictsNext DEF IInv
<1>2. ASSUME NEW t \in Tickers, StartTick(t)
      PROVE  IInv'
  BY <1>1, <1>2, IInvStartTick
<1>3. ASSUME NEW t \in Tickers, TickFails(t)
      PROVE  IInv'
  BY <1>1, <1>3, IInvFrame DEF TickFails
<1>4. ASSUME NEW t \in Tickers, TickStep(t)
      PROVE  IInv'
  BY <1>1, <1>4, IInvReadPrevState, IInvJudgeStock, IInvEndDetection,
     IInvRemoveLimitUpBatch, IInvRemoveAbove5Batch, IInvAddLimitUpBatch,
     IInvAddAbove5Batch, IInvMerge, IInvPublishTick DEF TickStep
<1>5. CASE LLMStart
  BY <1>1, <1>5, IInvFrame DEF LLMStart
<1>6. CASE LLMFinish
  BY <1>1, <1>6, IInvFrame DEF LLMFinish
<1>7. CASE PreMarketInit
  BY <1>1, <1>7, IInvPreMarketInit
<1>8. CASE TriggerLoadYesterdayStrongPool
  BY <1>1, <1>8, IInvFrame DEF TriggerLoadYesterdayStrongPool
<1>9. CASE MarketMoves
  BY <1>1, <1>9, IInvFrame DEF MarketMoves
<1>10. CASE MarketOpens \/ MarketCloses
  BY <1>1, <1>10, IInvSession
<1>11. CASE NewDay \/ Restart \/ LLMPanics
  BY <1>1, <1>11, IInvReset
<1>12. CASE UNCHANGED vars
  BY <1>1, <1>12, IInvFrame DEF vars
<1> QED
  BY <1>2, <1>3, <1>4, <1>5, <1>6, <1>7, <1>8, <1>9, <1>10, <1>11, <1>12 DEF Next

\* What makes the pools right is an invariant where nobody uses the trigger and
\* ?date= endpoints.
THEOREM PoolsAreInductive ==
  ASSUME ~OperatorCalls
  PROVE  Spec => []IInv
<1>1. Init => IInv
  BY IInvInit
<1>2. IInv /\ [Next]_vars => IInv'
  BY IInvNext
<1> QED
  BY <1>1, <1>2, PTL DEF Spec

\* No reader ever finds a stock in both pools of a day, between any two batches
\* of a tick, however ticks, resets, loads and restarts interleave.
THEOREM NeverInBothPools ==
  ASSUME ~OperatorCalls
  PROVE  Spec => []PoolsDisjoint
<1>1. IInv => PoolsDisjoint
  BY DEF IInv, DayInv, PoolInv, PoolsDisjoint
<1> QED
  BY <1>1, PoolsAreInductive, PTL

\* Every stock of the limit-up pool has the time of its first seal.
THEOREM SealedAreDated ==
  ASSUME ~OperatorCalls
  PROVE  Spec => []SealedHaveFirstTime
<1>1. IInv => SealedHaveFirstTime
  BY DEF IInv, DayInv, PoolInv, SealedHaveFirstTime
<1> QED
  BY <1>1, PoolsAreInductive, PTL

\* A first-limit time is never replaced: this holds with the operator endpoints
\* in use, too, and needs no invariant but the types.
THEOREM FirstTimesAreKept == Spec => FirstTimeKept
<1>1. TypeOK /\ [Next]_vars =>
        [\A d \in Days, s \in Stocks :
           firstLimit[d][s] # 0 =>
             \/ firstLimit'[d][s] = firstLimit[d][s]
             \/ firstLimit' = NoFirstLimit /\ (today' # today \/ FreshProcess')]_vars
  <2> SUFFICES ASSUME TypeOK, Next, NEW d \in Days, NEW s \in Stocks,
                      firstLimit[d][s] # 0, firstLimit'[d][s] # firstLimit[d][s]
               PROVE  firstLimit' = NoFirstLimit /\ (today' # today \/ FreshProcess')
    OBVIOUS
  <2>1. ASSUME NEW t \in Tickers, NEW r \in Stocks, JudgeStock(t, r)
        PROVE  firstLimit'[d][s] = firstLimit[d][s]
    BY <2>1 DEF JudgeStock, WithFirstLimitTime, TypeOK
  <2>2. CASE NewDay
    BY <2>2 DEF NewDay, TypeOK, Days
  <2>3. CASE Restart \/ LLMPanics
    <3>1. ProcessDies
      BY <2>3 DEF Restart, LLMPanics
    <3> QED
      BY <3>1 DEF ProcessDies, FreshProcess
  <2> QED
    BY <2>1, <2>2, <2>3
       DEF Next, StartTick, TickFails, TickStep, ReadPrevState, EndDetection,
           RemoveLimitUpBatch, RemoveAbove5Batch, AddLimitUpBatch, AddAbove5Batch,
           MergeLLM, MergeHeat, PublishTick, LLMStart, LLMFinish, PreMarketInit,
           TriggerLoadYesterdayStrongPool, MarketMoves, MarketOpens, MarketCloses
<1> QED
  BY <1>1, TypeCorrect, PTL DEF Spec, FirstTimeKept

-------------------------------------------------------------------------------
(***************************************************************************)
(* What the pools show of the last tick, whatever operators do.            *)
(***************************************************************************)
\* No tick, and no picture of one, is of a day to come.
DatesInv ==
  /\ \A t \in Tickers : InTick(t) => tick[t].date \in Days /\ tick[t].date <= today
  /\ last.date <= today

\* A verdict is that of the quote the tick has of the stock.
QuoteInv ==
  \A t \in Tickers, s \in Monitored :
    InTick(t) =>
      LET q == tick[t].quotes[s]
          v == tick[t].verdict[s]
      IN  /\ q = "limit" => v \in {"todo", "read", "up"}
          /\ q = "strong" => v \in {"todo", "read", "opened", "above"}
          /\ q \in {"weak", "nopre"} => v \in {"todo", "read", "drop"}
          /\ tick[t].pc # "detect" => v \notin {"todo", "read"}

Adding == {"addLimitUp", "addAbove5"}
Merging == {"mergeLLM", "mergeHeat", "publish"}

\* The batches a tick is through with, of the pools of its own date.
DoneInv ==
  \A t \in Tickers, s \in Monitored :
    LET d == tick[t].date
        v == tick[t].verdict[s]
        pc == tick[t].pc
    IN  /\ (pc \in {"removeAbove5"} \cup Adding \cup Merging /\ v \in {"opened", "drop"}) =>
             s \notin limitUp[d]
        /\ (pc \in Adding \cup Merging /\ v \in {"up", "drop"}) => s \notin above5[d]
        /\ (pc \in {"addAbove5"} \cup Merging /\ v = "up") => s \in limitUp[d]
        /\ (pc \in Merging /\ v \in {"above", "opened"}) => s \in above5[d]

ShownInv == TypeOK /\ LockInv /\ DatesInv /\ QuoteInv /\ DoneInv /\ LastTickShown

\* Between ticks nothing but the last picture counts.
LEMMA ShownIdle ==
  ASSUME TypeOK', \A t \in Tickers : tick'[t].pc = "idle", tickMu' = NoTicker,
         last'.date <= today', LastTickShown'
  PROVE  ShownInv'
BY PoolMonitorAssumption
DEF ShownInv, LockInv, DatesInv, QuoteInv, DoneInv, InTick, Adding, Merging

\* A step that changes no tick, no pool and no published picture.
LEMMA ShownFrame ==
  ASSUME ShownInv, TypeOK', UNCHANGED <<tick, tickMu, limitUp, above5, today, last>>
  PROVE  ShownInv'
BY DEF ShownInv, LockInv, DatesInv, QuoteInv, DoneInv, InTick, LastTickShown

LEMMA ShownStartTick ==
  ASSUME ShownInv, TypeOK', NEW t \in Tickers, StartTick(t)
  PROVE  ShownInv'
<1>1. \A u \in Tickers : tick[u].pc = "idle"
  BY PoolMonitorAssumption DEF StartTick, CanLock, ShownInv, LockInv, InTick
<1>2. PICK d \in Days :
        /\ MayTick(t, d)
        /\ tick' = [tick EXCEPT ![t] =
             [pc |-> "detect", date |-> d, at |-> moves + 1, quotes |-> Fetched,
              verdict |-> [s \in Stocks |-> IF Judgeable(s) THEN "todo" ELSE "skip"],
              prev |-> "None"]]
  BY DEF StartTick
<1>3. /\ tick'[t].pc = "detect" /\ tick'[t].date = d /\ tick'[t].quotes = Fetched
      /\ tick'[t].verdict = [s \in Stocks |-> IF Judgeable(s) THEN "todo" ELSE "skip"]
      /\ \A u \in Tickers : u # t => tick'[u] = tick[u]
  BY <1>2 DEF ShownInv, TypeOK
<1>4. d <= today
  BY <1>2 DEF MayTick, ShownInv, TypeOK, Days
<1>5. tickMu' = t /\ UNCHANGED <<limitUp, above5, today, last>>
  BY DEF StartTick
<1>6. LockInv'
  BY <1>1, <1>3, <1>5 DEF LockInv, InTick
<1>7. DatesInv'
  BY <1>1, <1>3, <1>4, <1>5 DEF ShownInv, DatesInv, InTick
<1>8. \A s \in Monitored : tick'[t].verdict[s] = IF Fetched[s] # "unseen" THEN "todo" ELSE "skip"
  BY <1>3, PoolMonitorAssumption DEF Judgeable
<1>9. QuoteInv'
  BY <1>1, <1>3, <1>8 DEF QuoteInv, InTick
<1>10. DoneInv'
  BY <1>1, <1>3 DEF DoneInv, Adding, Merging
<1>11. LastTickShown'
  BY <1>5, PoolMonitorAssumption DEF LastTickShown
<1> QED
  BY <1>6, <1>7, <1>9, <1>10, <1>11 DEF ShownInv

LEMMA ShownDetect ==
  ASSUME ShownInv, TypeOK', NEW t \in Tickers, NEW r \in Stocks,
         ReadPrevState(t, r) \/ JudgeStock(t, r)
  PROVE  ShownInv'
<1>1. /\ tick[t].pc = "detect" /\ InTick(t)
      /\ UNCHANGED <<tickMu, limitUp, above5, today, last>>
  BY DEF ReadPrevState, JudgeStock, InTick
<1>2. PICK v, q : /\ SetsVerdict(t, r, v, q)
                  /\ \/ v = "read" /\ tick[t].verdict[r] = "todo"
                     \/ /\ v = VerdictOf(tick[t].quotes[r], tick[t].prev)
                        /\ tick[t].verdict[r] = "read"
  BY DEF ReadPrevState, JudgeStock, SetsVerdict
<1>3. \A u \in Tickers :
        /\ tick'[u].pc = tick[u].pc
        /\ \A s \in Stocks :
             tick'[u].verdict[s] = IF u = t /\ s = r THEN v ELSE tick[u].verdict[s]
        /\ tick'[u].quotes = tick[u].quotes
        /\ tick'[u].date = tick[u].date
  BY <1>2, VerdictFrame DEF ShownInv
<1>4. LockInv' /\ DatesInv'
  BY <1>1, <1>3 DEF ShownInv, LockInv, DatesInv, InTick
<1>5. /\ tick[t].quotes[r] = "limit" => v \in {"read", "up"}
      /\ tick[t].quotes[r] = "strong" => v \in {"read", "opened", "above"}
      /\ tick[t].quotes[r] \in {"weak", "nopre"} => v \in {"read", "drop"}
  BY <1>2 DEF VerdictOf
<1>6. QuoteInv'
  BY <1>1, <1>3, <1>5, PoolMonitorAssumption DEF ShownInv, QuoteInv, InTick
<1>7. DoneInv'
  BY <1>1, <1>3, PoolMonitorAssumption DEF ShownInv, DoneInv, Adding, Merging
<1>8. LastTickShown'
  BY <1>1, PoolMonitorAssumption DEF ShownInv, LockInv, LastTickShown
<1> QED
  BY <1>4, <1>6, <1>7, <1>8 DEF ShownInv

\* A step that moves a tick on, with what it does to the pools of its date.
LEMMA ShownPcStep ==
  ASSUME ShownInv, TypeOK', NEW t \in Tickers, InTick(t), NEW p \in Phases \ {"idle", "detect"},
         SetsPc(t, p), UNCHANGED <<tickMu, today, last>>,
         tick[t].pc = "detect" => \A s \in Stocks : tick[t].verdict[s] \notin {"todo", "read"},
         \A s \in Monitored :
           LET d == tick[t].date
               v == tick[t].verdict[s]
           IN  /\ (p \in {"removeAbove5"} \cup Adding \cup Merging /\ v \in {"opened", "drop"}) =>
                    s \notin limitUp'[d]
               /\ (p \in Adding \cup Merging /\ v \in {"up", "drop"}) => s \notin above5'[d]
               /\ (p \in {"addAbove5"} \cup Merging /\ v = "up") => s \in limitUp'[d]
               /\ (p \in Merging /\ v \in {"above", "opened"}) => s \in above5'[d]
  PROVE  ShownInv'
<1>1. \A u \in Tickers : /\ tick'[u].pc = IF u = t THEN p ELSE "idle"
                         /\ tick'[u].verdict = tick[u].verdict
                         /\ tick'[u].quotes = tick[u].quotes
                         /\ tick'[u].date = tick[u].date
  BY PcFrame DEF ShownInv, LockInv, InTick
<1>2. LockInv' /\ DatesInv'
  BY <1>1 DEF ShownInv, LockInv, DatesInv, InTick
<1>3. QuoteInv'
  BY <1>1, PoolMonitorAssumption DEF ShownInv, QuoteInv, InTick
<1>4. DoneInv'
  BY <1>1 DEF DoneInv, Adding, Merging
<1>5. LastTickShown'
  BY PoolMonitorAssumption DEF ShownInv, LockInv, LastTickShown
<1> QED
  BY <1>2, <1>3, <1>4, <1>5 DEF ShownInv

LEMMA ShownBatches ==
  ASSUME ShownInv, TypeOK', NEW t \in Tickers,
         \/ EndDetection(t) \/ RemoveLimitUpBatch(t) \/ RemoveAbove5Batch(t)
         \/ AddLimitUpBatch(t) \/ AddAbove5Batch(t) \/ MergeLLM(t) \/ MergeHeat(t)
  PROVE  ShownInv'
<1> DEFINE d == tick[t].date
           v(s) == tick[t].verdict[s]
<1>1. /\ InTick(t) /\ UNCHANGED <<tickMu, today, last>> /\ d \in Days
  BY DEF EndDetection, RemoveLimitUpBatch, RemoveAbove5Batch, AddLimitUpBatch, AddAbove5Batch,
         MergeLLM, MergeHeat, InTick, ShownInv, DatesInv
<1>2. limitUp[d] \subseteq Stocks /\ above5[d] \subseteq Stocks
  BY <1>1, PoolMonitorAssumption DEF ShownInv, TypeOK
<1>3. \A s \in Monitored :
        /\ s \in Stocks
        /\ (tick[t].pc \in {"removeAbove5"} \cup Adding \cup Merging /\ v(s) \in {"opened", "drop"}) =>
             s \notin limitUp[d]
        /\ (tick[t].pc \in Adding \cup Merging /\ v(s) \in {"up", "drop"}) => s \notin above5[d]
        /\ (tick[t].pc \in {"addAbove5"} \cup Merging /\ v(s) = "up") => s \in limitUp[d]
        /\ (tick[t].pc \in Merging /\ v(s) \in {"above", "opened"}) => s \in above5[d]
  BY PoolMonitorAssumption DEF ShownInv, DoneInv
<1>4. CASE EndDetection(t)
  <2>1. SetsPc(t, "removeLimitUp") /\ \A s \in Stocks : v(s) \notin {"todo", "read"}
    BY <1>4 DEF EndDetection, SetsPc
  <2> QED
    BY <1>1, <2>1, ShownPcStep DEF Phases, Adding, Merging
<1>5. CASE RemoveLimitUpBatch(t)
  <2>1. /\ SetsPc(t, "removeAbove5") /\ tick[t].pc = "removeLimitUp"
        /\ \A s \in Stocks : v(s) \in {"opened", "drop"} => s \notin limitUp'[d]
    BY <1>1, <1>5 DEF RemoveLimitUpBatch, SetsPc, Judged, ShownInv, TypeOK
  <2> QED
    BY <1>1, <1>3, <2>1, ShownPcStep DEF Phases, Adding, Merging
<1>6. CASE RemoveAbove5Batch(t)
  <2>1. /\ SetsPc(t, "addLimitUp") /\ tick[t].pc = "removeAbove5" /\ limitUp' = limitUp
        /\ \A s \in Stocks : v(s) \in {"up", "drop"} => s \notin above5'[d]
    BY <1>1, <1>6 DEF RemoveAbove5Batch, SetsPc, Judged, ShownInv, TypeOK
  <2> QED
    BY <1>1, <1>3, <2>1, ShownPcStep DEF Phases, Adding, Merging
<1>7. CASE AddLimitUpBatch(t)
  <2>1. /\ SetsPc(t, "addAbove5") /\ tick[t].pc = "addLimitUp" /\ above5' = above5
        /\ \A s \in Stocks : s \in limitUp'[d] <=> s \in limitUp[d] \/ v(s) = "up"
    BY <1>1, <1>7 DEF AddLimitUpBatch, SetsPc, Judged, ShownInv, TypeOK
  <2> QED
    BY <1>1, <1>3, <2>1, ShownPcStep DEF Phases, Adding, Merging
<1>8. CASE AddAbove5Batch(t)
  <2>1. /\ SetsPc(t, "mergeLLM") /\ tick[t].pc = "addAbove5" /\ limitUp' = limitUp
        /\ \A s \in Stocks : s \in above5'[d] <=> s \in above5[d] \/ v(s) \in {"above", "opened"}
    BY <1>1, <1>8 DEF AddAbove5Batch, SetsPc, Judged, ShownInv, TypeOK
  <2> QED
    BY <1>1, <1>3, <2>1, ShownPcStep DEF Phases, Adding, Merging
<1>9. CASE MergeLLM(t)
  <2>1. /\ SetsPc(t, "mergeHeat") /\ tick[t].pc = "mergeLLM" /\ UNCHANGED <<limitUp, above5>>
    BY <1>9 DEF MergeLLM, SetsPc
  <2> QED
    BY <1>1, <1>3, <2>1, ShownPcStep DEF Phases, Adding, Merging
<1>10. CASE MergeHeat(t)
  <2>1. /\ SetsPc(t, "publish") /\ tick[t].pc = "mergeHeat" /\ UNCHANGED <<limitUp, above5>>
    BY <1>10 DEF MergeHeat, SetsPc
  <2> QED
    BY <1>1, <1>3, <2>1, ShownPcStep DEF Phases, Adding, Merging
<1> QED
  BY <1>4, <1>5, <1>6, <1>7, <1>8, <1>9, <1>10

LEMMA ShownPublish ==
  ASSUME ShownInv, TypeOK', NEW t \in Tickers, PublishTick(t)
  PROVE  ShownInv'
<1>1. /\ tick[t].pc = "publish" /\ InTick(t)
      /\ last' = [date |-> tick[t].date, quotes |-> tick[t].quotes]
      /\ tickMu' = NoTicker /\ tick' = [tick EXCEPT ![t] = IdleTick]
      /\ UNCHANGED <<limitUp, above5, today>>
  BY DEF PublishTick, InTick
<1>2. \A u \in Tickers : tick'[u].pc = "idle"
  <2> SUFFICES ASSUME NEW u \in Tickers PROVE tick'[u].pc = "idle"
    OBVIOUS
  <2>1. CASE u = t
    BY <1>1, <2>1 DEF ShownInv, TypeOK, IdleTick
  <2>2. CASE u # t
    BY <1>1, <2>2 DEF ShownInv, TypeOK, LockInv, InTick
  <2> QED
    BY <2>1, <2>2
<1>3. last'.date = tick[t].date /\ last'.quotes = tick[t].quotes /\ tick[t].date <= today
  BY <1>1 DEF ShownInv, DatesInv
<1>4. ASSUME NEW s \in Monitored, tick[t].date = today
      PROVE  /\ tick[t].quotes[s] = "limit" => s \in limitUp[today] \ above5[today]
             /\ tick[t].quotes[s] = "strong" => s \in above5[today]
             /\ tick[t].quotes[s] \in {"weak", "nopre"} => s \notin limitUp[today] \cup above5[today]
  BY <1>1, <1>4 DEF ShownInv, QuoteInv, DoneInv, Adding, Merging
<1>5. LastTickShown'
  BY <1>1, <1>3, <1>4 DEF LastTickShown
<1> QED
  BY <1>1, <1>2, <1>3, <1>5, ShownIdle

LEMMA ShownReset ==
  ASSUME ShownInv, TypeOK', NewDay \/ Restart \/ LLMPanics
  PROVE  ShownInv'
<1>1. CASE NewDay
  <2>1. /\ UNCHANGED <<tick, tickMu, last>> /\ today' = today + 1
        /\ \A t \in Tickers : tick[t].pc = "idle"
    BY <1>1 DEF NewDay, AllIdle
  <2>2. tickMu = NoTicker
    BY <2>1 DEF ShownInv, LockInv, InTick, TypeOK
  <2>3. last.date < today' /\ last.date \in Int
    BY <2>1 DEF ShownInv, DatesInv, TypeOK, Days
  <2>4. LastTickShown'
    BY <2>1, <2>3 DEF LastTickShown
  <2> QED
    BY <2>1, <2>2, <2>3, <2>4, ShownIdle
<1>2. CASE Restart \/ LLMPanics
  <2>1. /\ tick' = [t \in Tickers |-> IdleTick] /\ tickMu' = NoTicker /\ last' = NoLast
        /\ today' = today /\ today \in Days
    BY <1>2 DEF Restart, LLMPanics, ProcessDies, ShownInv, TypeOK
  <2>2. (\A t \in Tickers : tick'[t].pc = "idle") /\ last'.date = 0
    BY <2>1 DEF IdleTick, NoLast
  <2>3. last'.date <= today' /\ LastTickShown'
    BY <2>1, <2>2 DEF LastTickShown, Days
  <2> QED
    BY <2>1, <2>2, <2>3, ShownIdle
<1> QED
  BY <1>1, <1>2

LEMMA ShownNext == ShownInv /\ VerdictsOnMonitored /\ [Next]_vars => ShownInv'
<1> SUFFICES ASSUME ShownInv, VerdictsOnMonitored, [Next]_vars PROVE ShownInv'
  OBVIOUS
<1>1. TypeOK'
  BY TypeNext DEF ShownInv
<1>2. ASSUME NEW t \in Tickers, StartTick(t) \/ TickStep(t)
      PROVE  ShownInv'
  BY <1>1, <1>2, ShownStartTick, ShownDetect, ShownBatches, ShownPublish DEF TickStep
<1>3. CASE NewDay \/ Restart \/ LLMPanics
  BY <1>1, <1>3, ShownReset
<1>4. CASE UNCHANGED <<tick, tickMu, limitUp, above5, today, last>>
  BY <1>1, <1>4, ShownFrame
<1> QED
  BY <1>2, <1>3, <1>4
     DEF Next, TickFails, LLMStart, LLMFinish, PreMarketInit,
         TriggerLoadYesterdayStrongPool, MarketMoves, MarketOpens, MarketCloses, vars

LEMMA ShownInit == Init => ShownInv /\ VerdictsOnMonitored
<1> SUFFICES ASSUME Init PROVE ShownInv /\ VerdictsOnMonitored
  OBVIOUS
<1>1. /\ TypeOK /\ tick = [t \in Tickers |-> IdleTick] /\ tickMu = NoTicker
      /\ last.date = 0 /\ today = 1
  BY TypeInit DEF Init, FreshProcess, NoLast
<1>2. \A t \in Tickers : tick[t].pc = "idle" /\ \A s \in Stocks : tick[t].verdict[s] = "skip"
  BY <1>1 DEF IdleTick
<1> QED
  BY <1>1, <1>2, PoolMonitorAssumption
  DEF ShownInv, LockInv, DatesInv, QuoteInv, DoneInv, InTick, Adding, Merging,
      LastTickShown, VerdictsOnMonitored

\* Between ticks the pools of the day show what the last tick of that day saw, with any
\* number of tickers, ticks of other dates, resets, reloads, failures and restarts:
\* LastTickShown, of the four batches of ProcessTick and the lock around it.
THEOREM LastTickIsShown == Spec => []LastTickShown
<1>1. ShownInv /\ VerdictsOnMonitored /\ [Next]_vars => (ShownInv /\ VerdictsOnMonitored)'
  BY ShownNext, VerdictsNext DEF ShownInv
<1>2. ShownInv => LastTickShown
  BY DEF ShownInv
<1> QED
  BY <1>1, <1>2, ShownInit, PTL DEF Spec

-------------------------------------------------------------------------------
(***************************************************************************)
(* The pools and the cached quotes, where the operator endpoints are left  *)
(* alone and nothing fails.                                                *)
(***************************************************************************)
\* The quotes a tick has are in the cache, and its verdicts are theirs.
TickCached ==
  \A t \in Tickers, s \in Monitored :
    InTick(t) =>
      /\ tick[t].quotes[s] # "unseen" => quoteCache[s] = tick[t].quotes[s]
      /\ tick[t].verdict[s] = "up" => tick[t].quotes[s] = "limit"
      /\ tick[t].verdict[s] \in {"opened", "above"} => tick[t].quotes[s] = "strong"

\* The tick under way has a quote of the stock that takes it out of the pool of a class,
\* and has not come to that yet.
Misfit(s, class, phases) ==
  \E t \in Tickers : tick[t].pc \in phases /\ tick[t].quotes[s] \notin {"unseen", class}

MembersCached ==
  /\ \A s \in limitUp[today] :
       quoteCache[s] = "limit" \/ Misfit(s, "limit", {"detect", "removeLimitUp"})
  /\ \A s \in above5[today] :
       quoteCache[s] = "strong" \/ Misfit(s, "strong", {"detect", "removeLimitUp", "removeAbove5"})

MatchInv == IInv /\ ShownInv /\ (faults = 0 => TickCached /\ MembersCached)

LEMMA MembersMonitored ==
  TypeOK => /\ today \in Days /\ limitUp[today] \subseteq Monitored
            /\ above5[today] \subseteq Monitored /\ Monitored \subseteq Stocks
BY PoolMonitorAssumption DEF TypeOK

\* A step that changes no tick, no pool of the day and no cached quote.
LEMMA MatchFrame ==
  ASSUME MatchInv, IInv', ShownInv', faults' = 0 => faults = 0,
         UNCHANGED <<tick, limitUp, above5, today, quoteCache>>
  PROVE  MatchInv'
BY DEF MatchInv, TickCached, MembersCached, Misfit, InTick

\* No tick, and no member.
LEMMA MatchEmpty ==
  ASSUME IInv', ShownInv', \A t \in Tickers : tick'[t].pc = "idle",
         limitUp'[today'] = {}, above5'[today'] = {}
  PROVE  MatchInv'
BY DEF MatchInv, TickCached, MembersCached, InTick

LEMMA MatchStartTick ==
  ASSUME MatchInv, IInv', ShownInv', faults = 0, NEW t \in Tickers, StartTick(t)
  PROVE  MatchInv'
<1>1. \A u \in Tickers : tick[u].pc = "idle"
  BY PoolMonitorAssumption DEF StartTick, CanLock, MatchInv, IInv, LockInv, InTick
<1>2. /\ tick'[t].pc = "detect" /\ tick'[t].quotes = Fetched
      /\ \A s \in Stocks : tick'[t].verdict[s] \in {"todo", "skip"}
      /\ \A u \in Tickers : u # t => tick'[u] = tick[u]
  BY DEF StartTick, MatchInv, IInv, TypeOK
<1>3. /\ \A s \in Stocks : quoteCache'[s] = IF Fetched[s] = "unseen" THEN quoteCache[s] ELSE Fetched[s]
      /\ UNCHANGED <<limitUp, above5, today>>
  BY DEF StartTick, WithQuotes
<1>4. /\ \A s \in limitUp[today] : s \in Stocks /\ quoteCache[s] = "limit"
      /\ \A s \in above5[today] : s \in Stocks /\ quoteCache[s] = "strong"
  BY <1>1, MembersMonitored DEF MatchInv, IInv, MembersCached, Misfit
<1>5. TickCached'
  BY <1>1, <1>2, <1>3, PoolMonitorAssumption DEF TickCached, InTick
<1>6. MembersCached'
  BY <1>2, <1>3, <1>4 DEF MembersCached, Misfit
<1> QED
  BY <1>5, <1>6 DEF MatchInv

LEMMA MatchDetect ==
  ASSUME MatchInv, IInv', ShownInv', faults = 0, NEW t \in Tickers, NEW r \in Stocks,
         ReadPrevState(t, r) \/ JudgeStock(t, r)
  PROVE  MatchInv'
<1>1. UNCHANGED <<limitUp, above5, today, quoteCache, faults>>
  BY DEF ReadPrevState, JudgeStock
<1>2. PICK v, q : /\ SetsVerdict(t, r, v, q)
                  /\ \/ v = "read"
                     \/ v = VerdictOf(tick[t].quotes[r], tick[t].prev)
  BY DEF ReadPrevState, JudgeStock, SetsVerdict
<1>3. \A u \in Tickers :
        /\ tick'[u].pc = tick[u].pc
        /\ \A s \in Stocks :
             tick'[u].verdict[s] = IF u = t /\ s = r THEN v ELSE tick[u].verdict[s]
        /\ tick'[u].quotes = tick[u].quotes
  BY <1>2, VerdictFrame DEF MatchInv, IInv
<1>4. /\ v = "up" => tick[t].quotes[r] = "limit"
      /\ v \in {"opened", "above"} => tick[t].quotes[r] = "strong"
  BY <1>2 DEF VerdictOf
<1>5. TickCached'
  BY <1>1, <1>3, <1>4, PoolMonitorAssumption DEF MatchInv, TickCached, InTick
<1>6. MembersCached'
  BY <1>1, <1>3 DEF MatchInv, MembersCached, Misfit
<1> QED
  BY <1>5, <1>6 DEF MatchInv

LEMMA MatchBatches ==
  ASSUME MatchInv, IInv', ShownInv', faults = 0, NEW t \in Tickers,
         \/ EndDetection(t) \/ RemoveLimitUpBatch(t) \/ RemoveAbove5Batch(t)
         \/ AddLimitUpBatch(t) \/ AddAbove5Batch(t) \/ MergeLLM(t) \/ MergeHeat(t)
  PROVE  MatchInv'
<1>1. /\ InTick(t) /\ UNCHANGED <<today, quoteCache, faults>>
      /\ tick[t].date = today
      /\ \A u \in Tickers \ {t} : tick[u].pc = "idle"
  BY Alone DEF EndDetection, RemoveLimitUpBatch, RemoveAbove5Batch, AddLimitUpBatch,
         AddAbove5Batch, MergeLLM, MergeHeat, InTick, MatchInv, IInv, DayInv
<1>2. PICK p \in Phases \ {"idle", "detect"} : SetsPc(t, p)
  BY DEF EndDetection, RemoveLimitUpBatch, RemoveAbove5Batch, AddLimitUpBatch, AddAbove5Batch,
         MergeLLM, MergeHeat, SetsPc, Phases
<1>3. \A u \in Tickers : /\ tick'[u].pc = IF u = t THEN p ELSE "idle"
                         /\ tick'[u].verdict = tick[u].verdict
                         /\ tick'[u].quotes = tick[u].quotes
  BY <1>1, <1>2, PcFrame DEF MatchInv, IInv
<1>4. TickCached'
  BY <1>1, <1>3 DEF MatchInv, TickCached, InTick
<1>5. /\ today \in Days /\ limitUp[today] \subseteq Monitored
      /\ above5[today] \subseteq Monitored /\ Monitored \subseteq Stocks
  BY MembersMonitored DEF MatchInv, IInv
<1>6. /\ \A s \in limitUp[today] :
           \/ quoteCache[s] = "limit"
           \/ tick[t].pc \in {"detect", "removeLimitUp"} /\ tick[t].quotes[s] \notin {"unseen", "limit"}
      /\ \A s \in above5[today] :
           \/ quoteCache[s] = "strong"
           \/ /\ tick[t].pc \in {"detect", "removeLimitUp", "removeAbove5"}
              /\ tick[t].quotes[s] \notin {"unseen", "strong"}
  BY <1>1 DEF MatchInv, MembersCached, Misfit
<1>7. \A s \in Monitored :
        /\ tick[t].quotes[s] \in Seen
        /\ tick[t].pc # "detect" =>
             /\ tick[t].quotes[s] = "limit" => tick[t].verdict[s] = "up"
             /\ tick[t].quotes[s] = "strong" => tick[t].verdict[s] \in {"opened", "above"}
             /\ tick[t].quotes[s] \in {"weak", "nopre"} => tick[t].verdict[s] = "drop"
        /\ tick[t].verdict[s] = "up" => quoteCache[s] = "limit"
        /\ tick[t].verdict[s] \in {"opened", "above"} => quoteCache[s] = "strong"
  <2>1. \A s \in Monitored : s \in Stocks /\ tick[t].quotes[s] \in Seen
    BY <1>5 DEF MatchInv, IInv, TypeOK, TickLocals
  <2> QED
    BY <1>1, <2>1 DEF MatchInv, ShownInv, QuoteInv, TickCached
<1>s. \A q \in Seen : q \in {"limit", "strong", "weak", "nopre", "unseen"}
  BY DEF Seen, QuoteClasses
<1>8. CASE EndDetection(t)
  <2>1. p = "removeLimitUp" /\ UNCHANGED <<limitUp, above5>> /\ tick[t].pc = "detect"
    <3>1. tick'[t].pc = "removeLimitUp"
      BY <1>8 DEF EndDetection, MatchInv, IInv, TypeOK
    <3> QED
      BY <1>3, <1>8, <3>1 DEF EndDetection
  <2>2. MembersCached'
    BY <1>1, <1>3, <1>6, <2>1 DEF MembersCached, Misfit
  <2> QED
    BY <1>4, <2>2 DEF MatchInv
<1>9. CASE RemoveLimitUpBatch(t)
  <2>1. /\ above5' = above5 /\ tick[t].pc = "removeLimitUp"
        /\ \A s \in limitUp'[today] :
             s \in limitUp[today] /\ tick[t].verdict[s] \notin {"opened", "drop"}
    BY <1>1, <1>5, <1>9 DEF RemoveLimitUpBatch, Judged, MatchInv, IInv, TypeOK
  <2>2. p = "removeAbove5"
    <3>1. tick'[t].pc = "removeAbove5"
      BY <1>9 DEF RemoveLimitUpBatch, MatchInv, IInv, TypeOK
    <3> QED
      BY <1>3, <3>1
  <2>3. ASSUME NEW s \in limitUp[today], tick[t].verdict[s] \notin {"opened", "drop"}
        PROVE  tick[t].verdict[s] # "above"
    <3>1. stockStates[s] \in SealedStates
      BY <1>1, <2>3 DEF MatchInv, IInv, PoolInv, LeavingLimitUp
    <3> QED
      BY <1>1, <1>5, <3>1 DEF MatchInv, IInv, VerdictInv
  <2>4. \A s \in limitUp'[today] : quoteCache[s] = "limit"
    BY <1>5, <1>6, <1>7, <1>s, <2>1, <2>3
  <2>5. MembersCached'
    BY <1>1, <1>3, <1>6, <2>1, <2>2, <2>4 DEF MembersCached, Misfit
  <2> QED
    BY <1>4, <2>5 DEF MatchInv
<1>10. CASE RemoveAbove5Batch(t)
  <2>1. /\ limitUp' = limitUp /\ tick[t].pc = "removeAbove5"
        /\ \A s \in above5'[today] :
             s \in above5[today] /\ tick[t].verdict[s] \notin {"up", "drop"}
    BY <1>1, <1>5, <1>10 DEF RemoveAbove5Batch, Judged, MatchInv, IInv, TypeOK
  <2>2. \A s \in above5'[today] : quoteCache[s] = "strong"
    BY <1>5, <1>6, <1>7, <1>s, <2>1
  <2>3. MembersCached'
    BY <1>1, <1>6, <2>1, <2>2 DEF MembersCached
  <2> QED
    BY <1>4, <2>3 DEF MatchInv
<1>11. CASE AddLimitUpBatch(t)
  <2>1. /\ above5' = above5 /\ tick[t].pc = "addLimitUp"
        /\ \A s \in limitUp'[today] :
             s \in limitUp[today] \/ (s \in Stocks /\ tick[t].verdict[s] = "up")
    BY <1>1, <1>5, <1>11 DEF AddLimitUpBatch, Judged, MatchInv, IInv, TypeOK
  <2>2. \A s \in limitUp'[today] : s \in Monitored
    BY <1>1, MembersMonitored DEF IInv, TypeOK
  <2>3. MembersCached'
    BY <1>1, <1>6, <1>7, <2>1, <2>2 DEF MembersCached
  <2> QED
    BY <1>4, <2>3 DEF MatchInv
<1>12. CASE AddAbove5Batch(t)
  <2>1. /\ limitUp' = limitUp /\ tick[t].pc = "addAbove5"
        /\ \A s \in above5'[today] :
             s \in above5[today] \/ (s \in Stocks /\ tick[t].verdict[s] \in {"above", "opened"})
    BY <1>1, <1>5, <1>12 DEF AddAbove5Batch, Judged, MatchInv, IInv, TypeOK
  <2>2. \A s \in above5'[today] : s \in Monitored
    BY <1>1, MembersMonitored DEF IInv, TypeOK
  <2>3. MembersCached'
    BY <1>1, <1>6, <1>7, <2>1, <2>2 DEF MembersCached
  <2> QED
    BY <1>4, <2>3 DEF MatchInv
<1>13. CASE MergeLLM(t) \/ MergeHeat(t)
  <2>1. UNCHANGED <<limitUp, above5>> /\ tick[t].pc \in {"mergeLLM", "mergeHeat"}
    BY <1>13 DEF MergeLLM, MergeHeat
  <2>2. MembersCached'
    BY <1>1, <1>6, <2>1 DEF MembersCached
  <2> QED
    BY <1>4, <2>2 DEF MatchInv
<1> QED
  BY <1>8, <1>9, <1>10, <1>11, <1>12, <1>13

LEMMA MatchPublish ==
  ASSUME MatchInv, IInv', ShownInv', faults = 0, NEW t \in Tickers, PublishTick(t)
  PROVE  MatchInv'
<1>1. /\ tick[t].pc = "publish" /\ InTick(t) /\ tick' = [tick EXCEPT ![t] = IdleTick]
      /\ UNCHANGED <<limitUp, above5, today, quoteCache>>
  BY DEF PublishTick, InTick
<1>2. \A u \in Tickers \ {t} : tick[u].pc = "idle"
  BY <1>1, Alone DEF MatchInv
<1>3. \A u \in Tickers : tick'[u].pc = "idle"
  <2> SUFFICES ASSUME NEW u \in Tickers PROVE tick'[u].pc = "idle"
    OBVIOUS
  <2>1. CASE u = t
    BY <1>1, <2>1 DEF MatchInv, IInv, TypeOK, IdleTick
  <2>2. CASE u # t
    BY <1>1, <1>2, <2>2 DEF MatchInv, IInv, TypeOK
  <2> QED
    BY <2>1, <2>2
<1>4. TickCached'
  BY <1>3 DEF TickCached, InTick
<1>5. MembersCached'
  BY <1>1, <1>2 DEF MatchInv, MembersCached, Misfit
<1> QED
  BY <1>4, <1>5 DEF MatchInv

LEMMA MatchNext == ~OperatorCalls /\ MatchInv /\ [Next]_vars => MatchInv'
<1> SUFFICES ASSUME ~OperatorCalls, MatchInv, [Next]_vars PROVE MatchInv'
  OBVIOUS
<1>1. IInv' /\ ShownInv'
  BY IInvNext, ShownNext DEF MatchInv, IInv
<1>f. faults' = 0 => faults = 0
  <2>1. ASSUME NEW t \in Tickers, TickFails(t)
        PROVE  faults' = faults + 1
    BY <2>1 DEF TickFails
  <2>2. ASSUME Restart PROVE faults' = faults + 1
    BY <2>2 DEF Restart
  <2>3. ASSUME NEW t \in Tickers, StartTick(t) \/ TickStep(t)
        PROVE  faults' = faults
    BY <2>3 DEF StartTick, TickStep, ReadPrevState, JudgeStock, EndDetection,
                RemoveLimitUpBatch, RemoveAbove5Batch, AddLimitUpBatch, AddAbove5Batch,
                MergeLLM, MergeHeat, PublishTick
  <2>4. ASSUME \/ LLMStart \/ LLMFinish \/ LLMPanics \/ PreMarketInit
               \/ TriggerLoadYesterdayStrongPool \/ MarketMoves \/ MarketOpens
               \/ MarketCloses \/ NewDay \/ UNCHANGED vars
        PROVE  faults' = faults
    BY <2>4 DEF LLMStart, LLMFinish, LLMPanics, PreMarketInit,
                TriggerLoadYesterdayStrongPool, MarketMoves, MarketOpens, MarketCloses,
                NewDay, vars
  <2>5. faults \in Nat
    BY PoolMonitorAssumption DEF MatchInv, IInv, TypeOK
  <2>6. faults' \in {faults, faults + 1}
    BY <2>1, <2>2, <2>3, <2>4 DEF Next
  <2> QED
    BY <2>5, <2>6
<1>2. CASE faults' # 0
  BY <1>1, <1>2 DEF MatchInv
<1> SUFFICES ASSUME faults' = 0 PROVE MatchInv'
  BY <1>2
<1>3. ASSUME NEW t \in Tickers, StartTick(t) \/ TickStep(t)
      PROVE  MatchInv'
  BY <1>1, <1>f, <1>3, MatchStartTick, MatchDetect, MatchBatches, MatchPublish DEF TickStep
<1>4. ASSUME NEW t \in Tickers, TickFails(t)
      PROVE  MatchInv'
  BY <1>4 DEF TickFails, MatchInv, IInv, TypeOK
<1>5. CASE NewDay
  <2>1. /\ \A t \in Tickers : tick'[t].pc = "idle"
        /\ limitUp'[today'] = {} /\ above5'[today'] = {}
    BY <1>1, <1>5 DEF NewDay, AllIdle, EmptyPool, IInv, TypeOK
  <2> QED
    BY <1>1, <2>1, MatchEmpty
<1>6. CASE Restart \/ LLMPanics
  <2>1. ProcessDies
    BY <1>6 DEF Restart, LLMPanics
  <2>2. /\ \A t \in Tickers : tick'[t].pc = "idle"
        /\ limitUp'[today'] = {} /\ above5'[today'] = {}
    BY <1>1, <2>1 DEF ProcessDies, IdleTick, EmptyPool, IInv, TypeOK
  <2> QED
    BY <1>1, <2>2, MatchEmpty
<1>7. CASE UNCHANGED <<tick, limitUp, above5, today, quoteCache>>
  BY <1>1, <1>f, <1>7, MatchFrame
<1> QED
  BY <1>3, <1>4, <1>5, <1>6, <1>7
     DEF Next, LLMStart, LLMFinish, PreMarketInit,
         TriggerLoadYesterdayStrongPool, MarketMoves, MarketOpens, MarketCloses, vars

\* Between ticks a stock of a pool has a cached quote of the pool's class, for any number
\* of stocks, tickers and days, when nothing has failed and the triggers are left alone:
\* PoolsMatchCachedQuotes, of FetchAllQuotes, which fills the cache at the start of a
\* tick, and of the batches, which change the pools at its end.
THEOREM PoolsMatchQuotes == ~OperatorCalls => (Spec => []PoolsMatchCachedQuotes)
<1> SUFFICES ASSUME ~OperatorCalls PROVE Spec => []PoolsMatchCachedQuotes
  OBVIOUS
<1>1. Init => MatchInv
  <2> SUFFICES ASSUME Init PROVE MatchInv
    OBVIOUS
  <2>1. IInv /\ ShownInv
    BY IInvInit, ShownInit
  <2>2. /\ \A t \in Tickers : tick[t].pc = "idle"
        /\ limitUp[today] = {} /\ above5[today] = {}
    BY <2>1 DEF Init, FreshProcess, IdleTick, EmptyPool, IInv, TypeOK
  <2> QED
    BY <2>1, <2>2 DEF MatchInv, TickCached, MembersCached, InTick
<1>2. MatchInv /\ [Next]_vars => MatchInv'
  BY MatchNext
<1>3. MatchInv => PoolsMatchCachedQuotes
  <2> SUFFICES ASSUME MatchInv, tickMu = NoTicker, faults = 0
               PROVE  /\ \A s \in limitUp[today] : quoteCache[s] = "limit"
                      /\ \A s \in above5[today] : quoteCache[s] = "strong"
    BY DEF PoolsMatchCachedQuotes
  <2>1. \A t \in Tickers : tick[t].pc = "idle"
    BY PoolMonitorAssumption DEF MatchInv, IInv, LockInv, InTick
  <2> QED
    BY <2>1 DEF MatchInv, MembersCached, Misfit
<1> QED
  BY <1>1, <1>2, <1>3, PTL DEF Spec

-------------------------------------------------------------------------------
(***************************************************************************)
(* The tick implements PoolPromise, where the operator endpoints are left  *)
(* alone.                                                                  *)
(***************************************************************************)
\* No time is one to come.
TimesInv ==
  /\ \A t \in Tickers : InTick(t) => tick[t].at <= moves + 1
  /\ \A s \in Stocks : firstLimit[today][s] <= moves + 1

\* There is no verdict on a stock the feed does not show.
SkipInv ==
  \A t \in Tickers, s \in Monitored :
    (InTick(t) /\ tick[t].quotes[s] = "unseen") => tick[t].verdict[s] = "skip"

PromiseInv == IInv /\ ShownInv /\ TimesInv /\ SkipInv

PromisedPools == [s \in Monitored |-> PromisedPool(s)]
PromisedFirsts == [s \in Monitored |-> PromisedFirst(s)]
MonitoredMarket == [s \in Monitored |-> market[s]]
promised == <<MonitoredMarket, PromisedPools, PromisedFirsts>>

LEMMA TimesOK ==
  TypeOK => /\ moves \in Nat /\ today \in Days
            /\ \A s \in Stocks : firstLimit[today][s] \in Int
            /\ \A t \in Tickers : tick[t].at \in Int
BY PoolMonitorAssumption DEF TypeOK, Times, TickLocals

LEMMA PromiseFrame ==
  ASSUME PromiseInv, IInv', ShownInv', moves' >= moves,
         UNCHANGED <<tick, firstLimit, today>>
  PROVE  PromiseInv'
<1>1. TimesInv'
  <2>1. moves' \in Nat
    BY PoolMonitorAssumption DEF IInv, TypeOK
  <2> QED
    BY <2>1, TimesOK DEF PromiseInv, IInv, TimesInv, InTick
<1>2. SkipInv'
  BY DEF PromiseInv, SkipInv, InTick
<1> QED
  BY <1>1, <1>2 DEF PromiseInv

LEMMA PromiseEmpty ==
  ASSUME IInv', ShownInv', \A t \in Tickers : tick'[t].pc = "idle",
         \A s \in Stocks : firstLimit'[today'][s] = 0
  PROVE  PromiseInv'
<1>1. moves' \in Nat
  BY PoolMonitorAssumption DEF IInv, TypeOK
<1> QED
  BY <1>1 DEF PromiseInv, TimesInv, SkipInv, InTick

LEMMA PromiseTick ==
  ASSUME PromiseInv, IInv', ShownInv', NEW t \in Tickers, StartTick(t) \/ TickStep(t)
  PROVE  PromiseInv'
<1>t. /\ TypeOK /\ moves \in Nat
      /\ \A s \in Stocks : firstLimit[today][s] \in Int
      /\ \A u \in Tickers : tick[u].at \in Int
  BY TimesOK DEF PromiseInv, IInv
<1>1. CASE StartTick(t)
  <2>1. /\ tick'[t].at = moves + 1 /\ tick'[t].quotes = Fetched
        /\ tick'[t].verdict = [s \in Stocks |-> IF Judgeable(s) THEN "todo" ELSE "skip"]
        /\ \A u \in Tickers : u # t => tick'[u] = tick[u]
        /\ UNCHANGED <<moves, today, firstLimit>>
    BY <1>1, <1>t DEF StartTick, TypeOK
  <2>2. \A s \in Monitored : Fetched[s] = "unseen" => tick'[t].verdict[s] = "skip"
    BY <2>1, PoolMonitorAssumption DEF Judgeable
  <2>3. TimesInv'
    BY <1>t, <2>1 DEF PromiseInv, TimesInv, InTick
  <2>4. SkipInv'
    BY <2>1, <2>2 DEF PromiseInv, SkipInv, InTick
  <2> QED
    BY <2>3, <2>4 DEF PromiseInv
<1>2. ASSUME NEW r \in Stocks, ReadPrevState(t, r) \/ JudgeStock(t, r)
      PROVE  PromiseInv'
  <2>1. PICK v, q : SetsVerdict(t, r, v, q)
    BY <1>2 DEF ReadPrevState, JudgeStock, SetsVerdict
  <2>2. \A u \in Tickers :
          /\ tick'[u].pc = tick[u].pc
          /\ \A s \in Stocks :
               tick'[u].verdict[s] = IF u = t /\ s = r THEN v ELSE tick[u].verdict[s]
          /\ tick'[u].quotes = tick[u].quotes
          /\ tick'[u].at = tick[u].at
    BY <1>t, <2>1, VerdictFrame
  <2>3. /\ InTick(t) /\ tick[t].verdict[r] # "skip" /\ UNCHANGED <<moves, today>>
        /\ tick[t].date = today
    BY <1>2 DEF ReadPrevState, JudgeStock, InTick, PromiseInv, IInv, DayInv
  <2>4. \A s \in Stocks : firstLimit'[today][s] \in {firstLimit[today][s], tick[t].at}
    BY <1>t, <1>2, <2>3 DEF ReadPrevState, JudgeStock, WithFirstLimitTime, TypeOK
  <2>5. TimesInv'
    BY <1>t, <2>2, <2>3, <2>4 DEF PromiseInv, TimesInv, InTick
  <2>6. SkipInv'
    BY <2>2, <2>3, PoolMonitorAssumption DEF PromiseInv, SkipInv, InTick
  <2> QED
    BY <2>5, <2>6 DEF PromiseInv
<1>3. CASE \/ EndDetection(t) \/ RemoveLimitUpBatch(t) \/ RemoveAbove5Batch(t)
           \/ AddLimitUpBatch(t) \/ AddAbove5Batch(t) \/ MergeLLM(t) \/ MergeHeat(t)
  <2>1. PICK p : SetsPc(t, p)
    BY <1>3 DEF EndDetection, RemoveLimitUpBatch, RemoveAbove5Batch, AddLimitUpBatch,
                AddAbove5Batch, MergeLLM, MergeHeat, SetsPc
  <2>2. \A u \in Tickers : /\ tick'[u].verdict = tick[u].verdict
                           /\ tick'[u].quotes = tick[u].quotes
                           /\ tick'[u].at = tick[u].at
                           /\ u # t => tick'[u].pc = tick[u].pc
    BY <1>t, <2>1, PcFrame
  <2>3. InTick(t) /\ UNCHANGED <<moves, today, firstLimit>>
    BY <1>3 DEF EndDetection, RemoveLimitUpBatch, RemoveAbove5Batch, AddLimitUpBatch,
                AddAbove5Batch, MergeLLM, MergeHeat, InTick
  <2>4. TimesInv' /\ SkipInv'
    BY <1>t, <2>2, <2>3 DEF PromiseInv, TimesInv, SkipInv, InTick
  <2> QED
    BY <2>4 DEF PromiseInv
<1>4. CASE PublishTick(t)
  <2>1. /\ \A u \in Tickers : u # t => tick'[u] = tick[u]
        /\ tick'[t].pc = "idle" /\ UNCHANGED <<moves, today, firstLimit>>
    BY <1>t, <1>4 DEF PublishTick, TypeOK, IdleTick
  <2>2. TimesInv' /\ SkipInv'
    BY <1>t, <2>1 DEF PromiseInv, TimesInv, SkipInv, InTick
  <2> QED
    BY <2>2 DEF PromiseInv
<1> QED
  BY <1>1, <1>2, <1>3, <1>4 DEF TickStep

LEMMA PromiseNext == ~OperatorCalls /\ PromiseInv /\ [Next]_vars => PromiseInv'
<1> SUFFICES ASSUME ~OperatorCalls, PromiseInv, [Next]_vars PROVE PromiseInv'
  OBVIOUS
<1>1. IInv' /\ ShownInv'
  BY IInvNext, ShownNext DEF PromiseInv, IInv
<1>m. moves \in Nat /\ TypeOK'
  BY <1>1, TimesOK DEF PromiseInv, IInv
<1>2. ASSUME NEW t \in Tickers, StartTick(t) \/ TickStep(t)
      PROVE  PromiseInv'
  BY <1>1, <1>2, PromiseTick
<1>3. CASE NewDay
  <2>1. /\ \A t \in Tickers : tick'[t].pc = "idle"
        /\ \A s \in Stocks : firstLimit'[today'][s] = 0
    BY <1>m, <1>3 DEF NewDay, AllIdle, NoFirstLimit, TypeOK
  <2> QED
    BY <1>1, <2>1, PromiseEmpty
<1>4. CASE Restart \/ LLMPanics
  <2>1. ProcessDies
    BY <1>4 DEF Restart, LLMPanics
  <2>2. /\ \A t \in Tickers : tick'[t].pc = "idle"
        /\ \A s \in Stocks : firstLimit'[today'][s] = 0
    BY <1>m, <2>1 DEF ProcessDies, IdleTick, NoFirstLimit, TypeOK
  <2> QED
    BY <1>1, <2>2, PromiseEmpty
<1>5. CASE UNCHANGED <<tick, firstLimit, today>> /\ moves' \in {moves, moves + 1}
  BY <1>1, <1>m, <1>5, PromiseFrame
<1> QED
  BY <1>2, <1>3, <1>4, <1>5
     DEF Next, TickFails, LLMStart, LLMFinish, PreMarketInit,
         TriggerLoadYesterdayStrongPool, MarketMoves, MarketOpens, MarketCloses, vars

LEMMA PromiseInit == Init => PromiseInv
<1> SUFFICES ASSUME Init PROVE PromiseInv
  OBVIOUS
<1>1. IInv /\ ShownInv
  BY IInvInit, ShownInit
<1>2. /\ \A t \in Tickers : tick[t].pc = "idle"
      /\ \A s \in Stocks : firstLimit[today][s] = 0
  BY <1>1 DEF Init, FreshProcess, IdleTick, NoFirstLimit, IInv, TypeOK
<1>3. moves = 0
  BY DEF Init
<1> QED
  BY <1>1, <1>2, <1>3 DEF PromiseInv, TimesInv, SkipInv, InTick

\* Between ticks, and in the tick of t, what is promised.
LEMMA PromisedIdle ==
  ASSUME \A t \in Tickers : tick[t].pc = "idle", NEW s \in Monitored
  PROVE  /\ PromisedPool(s) = IF s \in limitUp[today] THEN "limitUp"
                              ELSE IF s \in above5[today] THEN "above5" ELSE "none"
         /\ PromisedFirst(s) = firstLimit[today][s]
BY DEF PromisedPool, PromisedFirst, UnderWay

LEMMA PromisedInTick ==
  ASSUME LockInv, NEW t \in Tickers, InTick(t), NEW s \in Monitored
  PROVE  /\ PromisedPool(s) = IF tick[t].quotes[s] # "unseen" THEN PoolOf(tick[t].quotes[s])
                              ELSE IF s \in limitUp[today] THEN "limitUp"
                              ELSE IF s \in above5[today] THEN "above5" ELSE "none"
         /\ PromisedFirst(s) = IF firstLimit[today][s] = 0 /\ tick[t].quotes[s] = "limit"
                               THEN tick[t].at ELSE firstLimit[today][s]
<1>1. tickMu = t /\ \A u \in Tickers : InTick(u) => u = t
  BY DEF LockInv
<1>2. UnderWay(s) # {} <=> tick[t].quotes[s] # "unseen"
  BY <1>1 DEF UnderWay, InTick
<1> QED
  BY <1>1, <1>2 DEF PromisedPool, PromisedFirst

LEMMA NextPromisedIdle ==
  ASSUME \A t \in Tickers : tick'[t].pc = "idle", NEW s \in Monitored
  PROVE  /\ PromisedPool(s)' = IF s \in limitUp'[today'] THEN "limitUp"
                               ELSE IF s \in above5'[today'] THEN "above5" ELSE "none"
         /\ PromisedFirst(s)' = firstLimit'[today'][s]
BY DEF PromisedPool, PromisedFirst, UnderWay

LEMMA NextPromisedInTick ==
  ASSUME LockInv', NEW t \in Tickers, tick'[t].pc # "idle", NEW s \in Monitored
  PROVE  /\ PromisedPool(s)' = IF tick'[t].quotes[s] # "unseen" THEN PoolOf(tick'[t].quotes[s])
                               ELSE IF s \in limitUp'[today'] THEN "limitUp"
                               ELSE IF s \in above5'[today'] THEN "above5" ELSE "none"
         /\ PromisedFirst(s)' = IF firstLimit'[today'][s] = 0 /\ tick'[t].quotes[s] = "limit"
                                THEN tick'[t].at ELSE firstLimit'[today'][s]
<1>1. tickMu' = t /\ \A u \in Tickers : tick'[u].pc # "idle" => u = t
  BY DEF LockInv, InTick
<1>2. UnderWay(s)' # {} <=> tick'[t].quotes[s] # "unseen"
  BY <1>1 DEF UnderWay
<1> QED
  BY <1>1, <1>2 DEF PromisedPool, PromisedFirst

\* What is promised, and the market, stay: a stutter of PoolPromise.
LEMMA PromiseStutters ==
  ASSUME \A s \in Monitored : /\ market'[s] = market[s]
                              /\ PromisedPool(s)' = PromisedPool(s)
                              /\ PromisedFirst(s)' = PromisedFirst(s)
  PROVE  promised' = promised
BY DEF promised, MonitoredMarket, PromisedPools, PromisedFirsts

\* A tick under way, from a step to the next.
LEMMA StepStutters ==
  ASSUME PromiseInv, PromiseInv', NEW t \in Tickers,
         TickStep(t), ~PublishTick(t)
  PROVE  promised' = promised
<1>t. TypeOK /\ LockInv /\ LockInv' /\ today \in Days /\ Monitored \subseteq Stocks
  BY PoolMonitorAssumption DEF PromiseInv, IInv, TypeOK
<1> SUFFICES ASSUME NEW s \in Monitored
             PROVE  /\ market'[s] = market[s]
                    /\ PromisedPool(s)' = PromisedPool(s)
                    /\ PromisedFirst(s)' = PromisedFirst(s)
  BY PromiseStutters
<1>1. /\ InTick(t) /\ tick[t].date = today
      /\ UNCHANGED <<market, today>>
  BY DEF TickStep, ReadPrevState, JudgeStock, EndDetection, RemoveLimitUpBatch, RemoveAbove5Batch,
         AddLimitUpBatch, AddAbove5Batch, MergeLLM, MergeHeat, InTick, PromiseInv, IInv, DayInv
<1>2. tick'[t].pc # "idle" /\ tick'[t].quotes = tick[t].quotes /\ tick'[t].at = tick[t].at
  <2>1. ASSUME NEW r \in Stocks, ReadPrevState(t, r) \/ JudgeStock(t, r)
        PROVE  tick'[t].pc # "idle" /\ tick'[t].quotes = tick[t].quotes /\ tick'[t].at = tick[t].at
    <3>1. PICK v, q : SetsVerdict(t, r, v, q)
      BY <2>1 DEF ReadPrevState, JudgeStock, SetsVerdict
    <3> QED
      BY <1>t, <1>1, <3>1, VerdictFrame DEF InTick
  <2>2. ASSUME \/ EndDetection(t) \/ RemoveLimitUpBatch(t) \/ RemoveAbove5Batch(t)
               \/ AddLimitUpBatch(t) \/ AddAbove5Batch(t) \/ MergeLLM(t) \/ MergeHeat(t)
        PROVE  tick'[t].pc # "idle" /\ tick'[t].quotes = tick[t].quotes /\ tick'[t].at = tick[t].at
    <3>1. PICK p \in Phases \ {"idle"} : SetsPc(t, p)
      BY <2>2 DEF EndDetection, RemoveLimitUpBatch, RemoveAbove5Batch, AddLimitUpBatch,
                  AddAbove5Batch, MergeLLM, MergeHeat, SetsPc, Phases
    <3> QED
      BY <1>t, <3>1, PcFrame
  <2> QED
    BY <2>1, <2>2 DEF TickStep
<1>3. tick[t].quotes[s] = "unseen" => tick[t].verdict[s] = "skip"
  BY <1>1 DEF PromiseInv, SkipInv
<1>4. tick[t].quotes[s] = "unseen" => /\ s \in limitUp'[today] <=> s \in limitUp[today]
                                      /\ s \in above5'[today] <=> s \in above5[today]
  <2>1. CASE RemoveLimitUpBatch(t)
    BY <1>t, <1>1, <1>3, <2>1 DEF RemoveLimitUpBatch, Judged, TypeOK
  <2>2. CASE RemoveAbove5Batch(t)
    BY <1>t, <1>1, <1>3, <2>2 DEF RemoveAbove5Batch, Judged, TypeOK
  <2>3. CASE AddLimitUpBatch(t)
    BY <1>t, <1>1, <1>3, <2>3 DEF AddLimitUpBatch, Judged, TypeOK
  <2>4. CASE AddAbove5Batch(t)
    BY <1>t, <1>1, <1>3, <2>4 DEF AddAbove5Batch, Judged, TypeOK
  <2>5. CASE UNCHANGED <<limitUp, above5>>
    BY <2>5
  <2> QED
    BY <2>1, <2>2, <2>3, <2>4, <2>5
       DEF TickStep, ReadPrevState, JudgeStock, EndDetection, MergeLLM, MergeHeat
<1>5. \/ firstLimit'[today][s] = firstLimit[today][s]
      \/ /\ firstLimit[today][s] = 0 /\ tick[t].quotes[s] = "limit"
         /\ firstLimit'[today][s] = tick[t].at
  <2>1. ASSUME NEW r \in Stocks, JudgeStock(t, r)
        PROVE  \/ firstLimit'[today][s] = firstLimit[today][s]
               \/ /\ firstLimit[today][s] = 0 /\ tick[t].quotes[s] = "limit"
                  /\ firstLimit'[today][s] = tick[t].at
    <3>1. firstLimit' = IF IsFirstLimitUp(tick[t].quotes[r], tick[t].prev)
                        THEN WithFirstLimitTime(firstLimit, today, r, tick[t].at)
                        ELSE firstLimit
      BY <1>1, <2>1 DEF JudgeStock
    <3>2. IsFirstLimitUp(tick[t].quotes[r], tick[t].prev) => tick[t].quotes[r] = "limit"
      BY DEF IsFirstLimitUp
    <3> QED
      BY <1>t, <3>1, <3>2 DEF WithFirstLimitTime, TypeOK
  <2>2. CASE firstLimit' = firstLimit
    BY <2>2
  <2> QED
    BY <2>1, <2>2
       DEF TickStep, ReadPrevState, EndDetection, RemoveLimitUpBatch, RemoveAbove5Batch,
           AddLimitUpBatch, AddAbove5Batch, MergeLLM, MergeHeat
<1>6. tick[t].at # 0
  BY <1>1 DEF PromiseInv, IInv, DayInv
<1> QED
  BY <1>t, <1>1, <1>2, <1>4, <1>5, <1>6, PromisedInTick, NextPromisedInTick

\* The end of a tick: the pools are what they counted as.
LEMMA PublishStutters ==
  ASSUME PromiseInv, PromiseInv', NEW t \in Tickers, PublishTick(t)
  PROVE  promised' = promised
<1>t. TypeOK /\ LockInv /\ today \in Days /\ Monitored \subseteq Stocks
  BY PoolMonitorAssumption DEF PromiseInv, IInv, TypeOK
<1> SUFFICES ASSUME NEW s \in Monitored
             PROVE  /\ market'[s] = market[s]
                    /\ PromisedPool(s)' = PromisedPool(s)
                    /\ PromisedFirst(s)' = PromisedFirst(s)
  BY PromiseStutters
<1>1. /\ InTick(t) /\ tick[t].date = today
      /\ UNCHANGED <<market, today, limitUp, above5, firstLimit>>
      /\ tickMu' = NoTicker
      /\ last'.date = today /\ last'.quotes = tick[t].quotes
  BY DEF PublishTick, InTick, PromiseInv, IInv, DayInv
<1>2. \A u \in Tickers : tick'[u].pc = "idle"
  BY <1>1, PoolMonitorAssumption DEF PromiseInv, IInv, LockInv, InTick
<1>3. /\ tick[t].quotes[s] = "limit" => s \in limitUp[today]
      /\ tick[t].quotes[s] = "strong" => s \in above5[today]
      /\ tick[t].quotes[s] \in {"weak", "nopre"} => s \notin limitUp[today] \cup above5[today]
  BY <1>1 DEF PromiseInv, ShownInv, LastTickShown
<1>4. s \in limitUp[today] => firstLimit[today][s] # 0 /\ s \notin above5[today]
  BY DEF PromiseInv, IInv, PoolInv
<1>5. tick[t].quotes[s] \in {"limit", "strong", "weak", "nopre", "unseen"}
  BY <1>t DEF TypeOK, TickLocals, Seen, QuoteClasses
<1> QED
  BY <1>t, <1>1, <1>2, <1>3, <1>4, <1>5, PromisedInTick, NextPromisedIdle DEF PoolOf

\* The fetch: a look.
LEMMA StartIsLook ==
  ASSUME PromiseInv, PromiseInv', NEW t \in Tickers, StartTick(t)
  PROVE  Promise!Look
<1>t. /\ TypeOK /\ LockInv' /\ today \in Days /\ Monitored \subseteq Stocks /\ moves \in Nat
      /\ moves + 1 \in Times
  BY PoolMonitorAssumption DEF PromiseInv, IInv, TypeOK, Times
<1>1. /\ \A u \in Tickers : tick[u].pc = "idle"
      /\ UNCHANGED <<market, today, limitUp, above5, firstLimit>>
      /\ tick'[t].pc # "idle" /\ tick'[t].at = moves + 1 /\ tick'[t].quotes = Fetched
  BY <1>t, PoolMonitorAssumption DEF StartTick, CanLock, PromiseInv, IInv, LockInv, InTick, TypeOK
<1> DEFINE seen == {s \in Monitored : Fetched[s] # "unseen"}
<1>2. \A s \in Monitored : /\ market[s] \in QuoteClasses
                           /\ Fetched[s] \in {market[s], "unseen"}
                           /\ market[s] # "weak" => Fetched[s] = market[s]
  BY <1>t DEF TypeOK, Fetched, Visible
<1>3. "unseen" \notin QuoteClasses
  BY DEF QuoteClasses
<1>4. \A s \in Monitored : PromisedFirst(s) <= moves + 1 /\ (market[s] # "weak" => s \in seen)
  BY <1>t, <1>1, <1>2, <1>3, PromisedIdle DEF PromiseInv, TimesInv
<1>5. \A s \in Monitored :
        PromisedPool(s)' = IF s \in seen THEN PoolOf(market[s]) ELSE PromisedPool(s)
  BY <1>t, <1>1, <1>2, <1>3, PromisedIdle, NextPromisedInTick
<1>6. \A s \in Monitored :
        PromisedFirst(s)' = IF PromisedFirst(s) = 0 /\ market[s] = "limit"
                            THEN moves + 1 ELSE PromisedFirst(s)
  BY <1>t, <1>1, <1>2, <1>3, PromisedIdle, NextPromisedInTick
<1> HIDE DEF seen
<1>7. seen \in SUBSET Monitored
  BY DEF seen
<1>8. /\ \A s \in Monitored : PromisedFirsts[s] <= moves + 1 /\ (MonitoredMarket[s] # "weak" => s \in seen)
      /\ PromisedPools' = [s \in Monitored |->
           IF s \in seen THEN Promise!PoolOf(MonitoredMarket[s]) ELSE PromisedPools[s]]
      /\ PromisedFirsts' = [s \in Monitored |->
           IF PromisedFirsts[s] = 0 /\ MonitoredMarket[s] = "limit" THEN moves + 1
           ELSE PromisedFirsts[s]]
      /\ MonitoredMarket' = MonitoredMarket
  BY <1>1, <1>4, <1>5, <1>6 DEF PromisedFirsts, PromisedPools, MonitoredMarket, Promise!PoolOf, PoolOf
<1> QED
  BY <1>t, <1>7, <1>8 DEF Promise!Look, PromisedFirsts, PromisedPools, MonitoredMarket

\* The end of a day, or of a process.
LEMMA EndIsForget ==
  ASSUME PromiseInv', \A t \in Tickers : tick'[t].pc = "idle", market' = market,
         \A s \in Stocks : /\ s \notin limitUp'[today'] /\ s \notin above5'[today']
                           /\ firstLimit'[today'][s] = 0
  PROVE  Promise!Forget
<1>1. \A s \in Monitored : PromisedPool(s)' = "none" /\ PromisedFirst(s)' = 0
  BY NextPromisedIdle, PoolMonitorAssumption
<1> QED
  BY <1>1 DEF Promise!Forget

LEMMA PromiseSteps ==
  ASSUME PromiseInv, PromiseInv', [Next]_vars
  PROVE  [Promise!Next]_promised
<1>t. TypeOK /\ TypeOK'
  BY DEF PromiseInv, IInv
<1>1. ASSUME NEW t \in Tickers, StartTick(t) \/ TickStep(t)
      PROVE  [Promise!Next]_promised
  BY <1>1, StartIsLook, StepStutters, PublishStutters DEF Promise!Next
<1>2. CASE MarketMoves
  <2>1. MonitoredMarket' \in [Monitored -> QuoteClasses]
    BY <1>t, PoolMonitorAssumption DEF MonitoredMarket, TypeOK
  <2>2. UNCHANGED <<tick, tickMu, limitUp, above5, firstLimit, today>>
    BY <1>2 DEF MarketMoves
  <2>3. UNCHANGED <<PromisedPools, PromisedFirsts>>
    BY <2>2 DEF PromisedPools, PromisedFirsts, PromisedPool, PromisedFirst, UnderWay
  <2> QED
    BY <2>1, <2>3
    DEF Promise!Next, Promise!Move, Promise!QuoteClasses, QuoteClasses,
        MonitoredMarket, PromisedPools, PromisedFirsts
<1>3. CASE NewDay
  <2>1. /\ \A t \in Tickers : tick'[t].pc = "idle"
        /\ \A s \in Stocks : /\ s \notin limitUp'[today'] /\ s \notin above5'[today']
                             /\ firstLimit'[today'][s] = 0
        /\ market' = market
    BY <1>t, <1>3 DEF NewDay, AllIdle, EmptyPool, NoFirstLimit, TypeOK
  <2> QED
    BY <2>1, EndIsForget DEF Promise!Next
<1>4. CASE Restart \/ LLMPanics
  <2>1. ProcessDies /\ market' = market
    BY <1>4 DEF Restart, LLMPanics
  <2>2. /\ \A t \in Tickers : tick'[t].pc = "idle"
        /\ \A s \in Stocks : /\ s \notin limitUp'[today'] /\ s \notin above5'[today']
                             /\ firstLimit'[today'][s] = 0
    BY <1>t, <2>1 DEF ProcessDies, IdleTick, EmptyPool, NoFirstLimit, TypeOK
  <2> QED
    BY <2>1, <2>2, EndIsForget DEF Promise!Next
<1>5. CASE UNCHANGED <<market, tick, tickMu, limitUp, above5, firstLimit, today>>
  BY <1>5 DEF promised, MonitoredMarket, PromisedPools, PromisedFirsts, PromisedPool,
              PromisedFirst, UnderWay
<1> QED
  BY <1>1, <1>2, <1>3, <1>4, <1>5
     DEF Next, TickFails, LLMStart, LLMFinish, PreMarketInit,
         TriggerLoadYesterdayStrongPool, MarketMoves, MarketOpens, MarketCloses, vars

\* For any stocks, tickers, days, moves and faults, a tick is one look at the market, a
\* new day and a restart forget, and nothing else changes what is promised: PromiseKept,
\* of ProcessTick as PoolPromise states it.
THEOREM TheTickImplementsThePromise == ~OperatorCalls => (Spec => PromiseKept)
<1> SUFFICES ASSUME ~OperatorCalls PROVE Spec => PromiseKept
  OBVIOUS
<1>1. Init => Promise!Init
  <2> SUFFICES ASSUME Init PROVE Promise!Init
    OBVIOUS
  <2>1. PromiseInv
    BY PromiseInit
  <2>2. /\ \A t \in Tickers : tick[t].pc = "idle"
        /\ \A s \in Stocks : /\ s \notin limitUp[today] /\ s \notin above5[today]
                             /\ firstLimit[today][s] = 0
    BY <2>1 DEF Init, FreshProcess, IdleTick, EmptyPool, NoFirstLimit, PromiseInv, IInv, TypeOK
  <2>3. \A s \in Monitored : /\ PromisedPool(s) = "none" /\ PromisedFirst(s) = 0
                             /\ market[s] \in QuoteClasses
    BY <2>1, <2>2, PromisedIdle, PoolMonitorAssumption DEF PromiseInv, IInv, TypeOK
  <2> QED
    BY <2>3 DEF Promise!Init, Promise!QuoteClasses, QuoteClasses
<1>2. PromiseInv /\ [Next]_vars => PromiseInv'
  BY PromiseNext
<1>3. PromiseInv /\ PromiseInv' /\ [Next]_vars
        => [Promise!Next]_<<[s \in Monitored |-> market[s]], [s \in Monitored |-> PromisedPool(s)],
                            [s \in Monitored |-> PromisedFirst(s)]>>
  BY PromiseSteps DEF promised, MonitoredMarket, PromisedPools, PromisedFirsts
<1> QED
  BY <1>1, <1>2, <1>3, PromiseInit, PTL DEF Spec, PromiseKept, Promise!Spec
===============================================================================
