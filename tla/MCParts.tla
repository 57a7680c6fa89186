------------------------------- MODULE MCParts -------------------------------
(***************************************************************************)
(* The parts that share no state with each other, to be checked together:  *)
(* quotes, heat, answers of the LLM, and numbers of days; topic counts,    *)
(* stocks, and the dictionary of raw topics; calls of the vendor, changes  *)
(* of sectors, and the topics of past days.  Each behaviour is one of      *)
(* them; the others stay as they begin.                                    *)
(***************************************************************************)
EXTENDS QuoteStream, HeatClassify, LLMClassify, DayCounts,
        TopicCounts, StockBasic, TopicDictionary, TushareClient, TopicColumn,
        SectorFetcher

VARIABLE part

MCTopics == {"t1", "t2", "filtered"}

Manual(at) == [source |-> "manual", at |-> at, hits |-> 1, age |-> 30]
Seen(age, hits) == [source |-> "jiuyan", at |-> 1, hits |-> hits, age |-> age]

\* Two dates of an edit, and of a topic that is fresh, recent, stale or undated.
Histories ==
  {Manual(1), Manual(2), Seen(3, 1), Seen(3, 2), Seen(10, 1), Seen(20, 1), Seen(20, 2),
   Seen(Undated, 1)}

Related(t, h) ==
  [topic |-> t, source |-> h.source, at |-> h.at, hits |-> h.hits, age |-> h.age]

\* Lists of up to two relations.
Lists2(histories) ==
  {<<>>} \cup {<<Related(t, h)>> : t \in MCTopics, h \in histories}
  \cup {<<Related(p[1], h), Related(p[2], g)>> :
          p \in {q \in MCTopics \X MCTopics : q[1] # q[2]},
          h \in histories, g \in histories}

Some(l, s, r) == [limit |-> l, strong |-> s, rising |-> r]
Besides(x, y) == [t1 |-> x, t2 |-> y, filtered |-> Some(2, 2, 2)]
Count(x, y) == [t1 |-> x, t2 |-> y, filtered |-> 5]
NoCount == [t1 |-> 0, t2 |-> 0, filtered |-> 0]

\* No counts, all of them, and one that is not cached, which the table has or has not.
Counts ==
  {[cached |-> NoCount, stored |-> NoCount],
   [cached |-> Count(9, 9), stored |-> Count(9, 9)],
   [cached |-> Count(4, 0), stored |-> Count(4, 9)],
   [cached |-> Count(4, 0), stored |-> Count(4, 0)]}

Backgrounds ==
  {Besides(x, y) : x \in {Some(0, 0, 1), Some(1, 1, 1)},
                   y \in {Some(0, 0, 0), Some(0, 2, 3), Some(1, 3, 3)}}

Gains == {[a |-> x, b |-> y] : x \in {"limit", "strong"}, y \in {"limit", "strong", "rising"}}

\* Whatever relations one stock has, in the main cases of heat; and whatever heat there
\* is, for stocks that are placed by heat.
MCInputs ==
  {[gain |-> Gains,
    relations |-> {[a |-> l, b |-> m] : l \in Lists2(Histories),
                                       m \in {<<>>, <<Related("t1", Seen(20, 1))>>}},
    others |-> {Besides(Some(0, 0, 1), Some(0, 2, 3)),
                Besides(Some(1, 1, 1), Some(0, 2, 3))},
    counts |-> {[cached |-> Count(9, 9), stored |-> Count(9, 9)],
                [cached |-> Count(4, 0), stored |-> Count(4, 9)],
                [cached |-> Count(4, 0), stored |-> Count(4, 0)]}],
   [gain |-> Gains,
    relations |-> {[a |-> l, b |-> m] : l \in Lists2({Seen(20, 1)}),
                                       m \in Lists2({Seen(20, 1)})},
    others |-> Backgrounds,
    counts |-> Counts]}

HeatIdle ==
  /\ gain = [s \in HeatStocks |-> "flat"]
  /\ relations = [s \in HeatStocks |-> <<>>]
  /\ others = Besides(Some(0, 0, 0), Some(0, 0, 0))
  /\ counts = [cached |-> NoCount, stored |-> NoCount]
  /\ judged = {}
  /\ results = [s \in HeatStocks |-> NoRelation]

QuoteIdle ==
  /\ prefix = "other"
  /\ preClose = 100
  /\ threshold = 110
  /\ price = 100
  /\ state = "None"

DayIdle ==
  /\ today = "weak" /\ day = 0 /\ sealed = 0 /\ strong = 0
  /\ filed = NoRow /\ tonight = NoRow
  /\ listed = TRUE /\ kept = [list |-> FALSE, rows |-> FALSE]

MCOwn == [s \in Codes |-> IF s = "s1" THEN {"x"} ELSE {}]

\* The configuration that is shipped, which has no retries, and two that have.
MCRetry ==
  {[retries |-> 0, initial |-> 0, multiplier |-> 0, max |-> 0],
   [retries |-> 3, initial |-> 0, multiplier |-> 2, max |-> 0],
   [retries |-> 3, initial |-> 500, multiplier |-> 2, max |-> 1500]}

ClientIdle ==
  /\ request = StockSTFeed
  /\ retry = [retries |-> 0, initial |-> 0, multiplier |-> 0, max |-> 0]
  /\ phase = "idle" /\ attempts = <<>> /\ delay = 0 /\ cancel = "no" /\ items = {}

MCAttributed == [d \in Dates |-> IF d = 1 THEN "a" ELSE "b"]

PartsInit ==
  /\ LLMInit /\ CountsInit /\ StockInit /\ DictInit /\ ColumnInit /\ SectorInit
  /\ \/ part = "quotes" /\ Init /\ HeatIdle /\ DayIdle /\ ClientIdle
     \/ part = "heat" /\ HeatInit /\ QuoteIdle /\ DayIdle /\ ClientIdle
     \/ part = "days" /\ DayInit /\ HeatIdle /\ QuoteIdle /\ ClientIdle
     \/ part = "client" /\ ClientInit /\ HeatIdle /\ QuoteIdle /\ DayIdle
     \/ part \in {"llm", "counts", "stocks", "dictionary", "column", "edits",
                 "sectors"}
        /\ HeatIdle /\ QuoteIdle /\ DayIdle /\ ClientIdle

\* The topics of past days are two parts: "column", of two editors and a job, with the
\* relations cached by editors only, and "edits", of one editor and a reader of relations.
tableVars == <<countVars, stockVars, dictVars>>
historyVars == <<clientVars, columnVars, sectorVars>>
judgeVars == <<vars, heatVars, llmVars, dayVars>>

PartsNext ==
  \/ /\ UNCHANGED historyVars
     /\ \/ part = "quotes" /\ Quote /\ UNCHANGED <<part, heatVars, llmVars, dayVars, tableVars>>
        \/ part = "heat" /\ HeatNext /\ UNCHANGED <<part, vars, llmVars, dayVars, tableVars>>
        \/ part = "llm" /\ LLMNext /\ UNCHANGED <<part, vars, heatVars, dayVars, tableVars>>
        \/ part = "days" /\ DayNext /\ UNCHANGED <<part, vars, heatVars, llmVars, tableVars>>
        \/ part = "counts" /\ CountsNext /\ UNCHANGED <<part, judgeVars, stockVars, dictVars>>
        \/ part = "stocks" /\ StockNext /\ UNCHANGED <<part, judgeVars, countVars, dictVars>>
        \/ part = "dictionary" /\ DictNext
           /\ UNCHANGED <<part, judgeVars, countVars, stockVars>>
  \/ /\ UNCHANGED <<part, judgeVars, tableVars>>
     /\ \/ part = "client" /\ ClientNext /\ UNCHANGED <<columnVars, sectorVars>>
        \/ part = "column" /\ ColumnNext /\ UNCHANGED <<browse, clientVars, sectorVars>>
        \/ part = "edits" /\ ColumnNext /\ UNCHANGED <<job, clientVars, sectorVars>>
           /\ desk'[CHOOSE e \in Desks : TRUE] = NoEdit
        \/ part = "sectors" /\ SectorNext /\ UNCHANGED <<clientVars, columnVars>>

PartsSpec == PartsInit /\ [][PartsNext]_<<part, judgeVars, tableVars, historyVars>>
==============================================================================
