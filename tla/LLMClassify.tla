----------------------------- MODULE LLMClassify -----------------------------
(***************************************************************************)
(* The answers of the LLM for one date: RunClassification of               *)
(* internal/service/classify/llm_classify.go, called by the monitor's      *)
(* goroutine and by /llm-classify/run-history, which may overlap; the      *)
(* cache and the table the answers go to; and what loadLLMResults of       *)
(* internal/service/snapshot/snapshot.go finds there when a snapshot is    *)
(* taken.                                                                  *)
(*                                                                         *)
(* An answer is [name, id]: the name of a topic, and whether the topic's   *)
(* id is known with it.  Only answers with an id are filed.                *)
(***************************************************************************)
EXTENDS Integers, FiniteSets

CONSTANTS
  Codes,    \* the stocks of the feed: limit-up, or more than 5% up
  Placed,   \* those an editor has placed, or seen with a topic within a week
  Names,    \* the names the LLM may answer
  Known,    \* those that are in the table of topics
  Own,      \* Own[s]: the names among the topics s is related to
  MaxRuns,  \* bound on runs of RunClassification
  MaxDeaths \* bound on ends of the process, panics included

ASSUME LLMAssumption ==
  /\ Placed \subseteq Codes
  /\ Known \subseteq Names /\ "none" \notin Names
  /\ Own \in [Codes -> SUBSET Known]

VARIABLES
  answers, \* the cached answer of each stock
  rows,    \* the stored one: a name
  calls,   \* the calls of RunClassification, see Idle
  begun,   \* how many there have been
  deaths,
  adrift   \* history: stocks whose stored answer the cache does not have with an id

llmVars == <<answers, rows, calls, begun, deaths, adrift>>

Callers == {"loop", "request"}
NoAnswer == [name |-> "none", id |-> FALSE]
Nothing == [s \in Codes |-> NoAnswer]
Idle == [at |-> "idle", limitUp |-> {}, strong |-> {}, found |-> Nothing]

LLMInit ==
  /\ answers = Nothing
  /\ rows = [s \in Codes |-> "none"]
  /\ calls = [c \in Callers |-> Idle]
  /\ begun = 0
  /\ deaths = 0
  /\ adrift = {}

Answered(found) == {s \in Codes : found[s] # NoAnswer}

\* Mutant: the results of the last run only.
Bug_Merged(results) == IF Answered(results) = {} THEN answers ELSE results

\* MergeClassificationResult
Merged(results) ==
  [s \in Codes |-> IF results[s] # NoAnswer THEN results[s] ELSE answers[s]]

\* filterIncremental: a stock is asked for once, and not at all if it is placed.
Left(group, existing) == (group \ Placed) \ Answered(existing)

-------------------------------------------------------------------------------
\* A call divides the stocks into two groups, and reads the cache.
Begin(c, limitUp) ==
  /\ calls[c].at = "idle"
  /\ begun < MaxRuns
  /\ begun' = begun + 1
  /\ calls' = [calls EXCEPT ![c] =
       [at |-> IF Answered(answers) = {} THEN "load" ELSE "ask",
        limitUp |-> Left(limitUp, answers),
        strong |-> Left(Codes \ limitUp, answers),
        found |-> Nothing]]
  /\ UNCHANGED <<answers, rows, deaths, adrift>>

\* The goroutine divides by the limit-up pool.
BeginLoop == \E limitUp \in SUBSET Codes : Begin("loop", limitUp)

\* The request divides by the exchange's list; if that cannot be had, all are strong.
BeginRequest == \E limitUp \in SUBSET Codes : Begin("request", limitUp)

\* loadFromDB: an answer that comes from the table has a name, but no id.
FromRows ==
  [s \in Codes |-> IF rows[s] = "none" THEN NoAnswer ELSE [name |-> rows[s], id |-> FALSE]]

\* Nothing is cached: the table may have answers, and may fail to give them.
LoadRows(c) ==
  /\ calls[c].at = "load"
  /\ \E found \in {FromRows, Nothing} :
       calls' = [calls EXCEPT ![c] =
         [at |-> "fill", found |-> found,
          limitUp |-> Left(@.limitUp, found), strong |-> Left(@.strong, found)]]
  /\ adrift' = adrift \cup Answered(FromRows)
  /\ UNCHANGED <<answers, rows, begun, deaths>>

\* These answers replace any that the other call has cached in the meantime.
FillCache(c) ==
  /\ calls[c].at = "fill"
  /\ answers' = Merged(calls[c].found)
  /\ adrift' = adrift \cup Answered(calls[c].found)
  /\ calls' = [calls EXCEPT ![c].at = "ask", ![c].found = Nothing]
  /\ UNCHANGED <<rows, begun, deaths>>

\* classifyBatch takes the first two of a group, also when there is just one.
Lonely(c) == Cardinality(calls[c].limitUp) = 1 \/ Cardinality(calls[c].strong) = 1

Asked(group) == IF group = {} THEN {{}} ELSE {two \in SUBSET group : Cardinality(two) = 2}

\* enrichLLMResults: the id comes from the stock's own relations, or else from the
\* table of topics, if the lookup succeeds and the topic is there.
WithId(s, name, lookup) ==
  [name |-> name, id |-> name \in Own[s] \/ (lookup /\ name \in Known)]

\* The LLM is asked about both groups.  Its answers may be missing, and it may answer
\* a name that is none of the stock's topics.
Ask(c) ==
  /\ calls[c].at = "ask"
  /\ ~Lonely(c)
  /\ \E asked \in Asked(calls[c].limitUp), also \in Asked(calls[c].strong) :
       \E answered \in SUBSET (asked \cup also), lookup \in BOOLEAN :
       \E name \in [answered -> Names] :
         calls' = [calls EXCEPT ![c] =
           IF answered = {} THEN Idle
           ELSE [Idle EXCEPT
                  !.at = "cache",
                  !.found = [s \in Codes |->
                    IF s \in answered THEN WithId(s, name[s], lookup) ELSE NoAnswer]]]
  /\ UNCHANGED <<answers, rows, begun, deaths, adrift>>

CacheAnswers(c) ==
  /\ calls[c].at = "cache"
  /\ answers' = Merged(calls[c].found)
  /\ adrift' = {s \in Codes : IF calls[c].found[s] = NoAnswer THEN s \in adrift
                              ELSE ~calls[c].found[s].id}
  /\ calls' = [calls EXCEPT ![c].at = "save"]
  /\ UNCHANGED <<rows, begun, deaths>>

\* saveToDB and UpsertBatch; a failure is logged.
SaveAnswers(c) ==
  /\ calls[c].at = "save"
  /\ \/ rows' = [s \in Codes |-> IF calls[c].found[s] # NoAnswer
                                 THEN calls[c].found[s].name ELSE rows[s]]
     \/ UNCHANGED rows
  /\ calls' = [calls EXCEPT ![c] = Idle]
  /\ UNCHANGED <<answers, begun, deaths, adrift>>

-------------------------------------------------------------------------------
\* The process ends, of a lonely group for one.
ProcessEnds ==
  /\ deaths < MaxDeaths
  /\ deaths' = deaths + 1
  /\ answers' = Nothing
  /\ calls' = [c \in Callers |-> Idle]
  /\ adrift' = {}
  /\ UNCHANGED <<rows, begun>>

\* The slice of a group that never had a second stock panics in the request itself,
\* where gin recovers; otherwise a nil quote panics in a goroutine.  The group before
\* the filter, which tells the two apart, is left out.
RequestRecovers ==
  /\ calls["request"].at = "ask"
  /\ Lonely("request")
  /\ calls' = [calls EXCEPT !["request"] = Idle]
  /\ UNCHANGED <<answers, rows, begun, deaths, adrift>>

LLMNext ==
  \/ BeginLoop \/ BeginRequest
  \/ \E c \in Callers :
       LoadRows(c) \/ FillCache(c) \/ Ask(c) \/ CacheAnswers(c) \/ SaveAnswers(c)
  \/ ProcessEnds \/ RequestRecovers

LLMSpec == LLMInit /\ [][LLMNext]_llmVars

-------------------------------------------------------------------------------
\* loadLLMResults: the ids in the cache; if there is none, the names in the table that
\* are topics.
LoadLLMResults(codes) ==
  LET cached == {s \in codes : answers[s].id}
      stored == {s \in codes : rows[s] \in Known}
  IN  IF cached # {} THEN [s \in cached |-> answers[s].name]
      ELSE [s \in stored |-> rows[s]]

\* When a snapshot is taken, no stock with a stored answer goes without: the cache,
\* once it has an id, is believed to have them all.  Between a restart and the next
\* answers this needs the table; after that, answers that came back from the table,
\* or could not be read from it, and answers whose topic could not be looked up have
\* no id, and these are the only ones that may be lost.
NoAnswerLost ==
  \A s \in Codes :
    rows[s] \in Known => s \in DOMAIN LoadLLMResults(Codes) \cup adrift
===============================================================================
