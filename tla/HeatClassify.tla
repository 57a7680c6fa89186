----------------------------- MODULE HeatClassify -----------------------------
(***************************************************************************)
(* Which topic a strong stock is shown under: one run of                   *)
(* ClassifyBySimpleHeat of internal/service/classify/heat_classify.go, on  *)
(* the relations and counts it has loaded, and beside it the choice of     *)
(* ClassifyStock (internal/pkg/attribution/recent_mode.go), which files    *)
(* the snapshot when an editor has changed a relation.                     *)
(*                                                                         *)
(* A relation of a stock is [topic, source, at, hits, age]: when it was    *)
(* last updated (0 if the time is lost, as in the copies this very code    *)
(* caches), and the days since the topic was last seen with the stock.     *)
(***************************************************************************)
EXTENDS Integers, Sequences, FiniteSets, Functions

CONSTANTS
  HeatStocks,   \* the stocks of the feed that are looked at one by one
  HeatTopics,
  Filtered,     \* topics of FilteredTopicNames and FilterTopics
  Undated,      \* a relation without a last_seen_date
  Inputs        \* what a run may start from, as records of sets: see HeatInit

Relation ==
  [topic : HeatTopics, source : STRING, at : Nat, hits : Nat, age : Int \cup {Undated}]

Tally == [limit : Nat, strong : Nat, rising : Nat]

\* The inputs are of their types; "none" stands for no topic.
ASSUME HeatAssumption ==
  /\ IsFiniteSet(HeatStocks)
  /\ "none" \notin HeatTopics
  /\ \A in \in Inputs :
       /\ in.gain \subseteq [HeatStocks -> {"limit", "strong", "rising", "flat"}]
       /\ in.relations \subseteq [HeatStocks -> Seq(Relation)]
       /\ in.others \subseteq [HeatTopics -> Tally]
       /\ in.counts \subseteq [cached : [HeatTopics -> Nat], stored : [HeatTopics -> Nat]]

VARIABLES
  gain,         \* "limit", "strong" (> 5%), "rising" (> 3%) or "flat"
  relations,    \* the relations of each stock, in the order of the table
  others,       \* the limit-up, strong and rising stocks each topic has besides
  counts,       \* how many stocks each topic has: cached and stored, 0 for no entry
  judged,       \* the stocks this run has been through
  results       \* the relation each of them got, if any

heatVars == <<gain, relations, others, counts, judged, results>>

NoRelation == [topic |-> "none"]

HeatInit ==
  /\ \E in \in Inputs :
       /\ gain \in in.gain
       /\ relations \in in.relations
       /\ others \in in.others
       /\ counts \in in.counts
  /\ judged = {}
  /\ results = [s \in HeatStocks |-> NoRelation]

-------------------------------------------------------------------------------
\* splitStocksForHeatClassification: who makes heat, and who gets a topic.
Rising == {s \in HeatStocks : gain[s] # "flat"}
Strong == {s \in HeatStocks : gain[s] \in {"limit", "strong"}}
LimitUp == {s \in HeatStocks : gain[s] = "limit"}

Lists(s, t) == \E i \in DOMAIN relations[s] : relations[s][i].topic = t

Counted(group, t) == Cardinality({s \in group : Lists(s, t)})

\* Without any count, in the cache or in the table, the counts are unavailable.
Unavailable == \A t \in HeatTopics : counts.cached[t] = 0

\* The cached count of a topic, or the one loaded because there is none.
Total(t) == IF counts.cached[t] # 0 THEN counts.cached[t] ELSE counts.stored[t]

\* collectTopicHeatStats and buildTopicHeatMap.
Stat(t) ==
  [limit |-> others[t].limit + Counted(LimitUp, t),
   strong |-> others[t].strong + Counted(Strong, t),
   rising |-> others[t].rising + Counted(Rising, t),
   total |-> Total(t)]

HeatMap ==
  {t \in HeatTopics \ Filtered :
     /\ Counted(Rising, t) > 0
     /\ Unavailable \/ Total(t) > 0}

\* The heat score is a fraction: limit-ups, strong stocks, and the participation of
\* the topic's stocks or, without counts, its rising stocks.
Numerator(x) ==
  IF Unavailable THEN 1000 * x.limit + 100 * x.strong + x.rising
  ELSE (1000 * x.limit + 100 * x.strong) * x.total + 100 * x.strong

Denominator(x) == IF Unavailable THEN 1 ELSE x.total

Participation(x) == IF Unavailable THEN 0 ELSE x.strong

\* How far a topic is ahead of another, in the order of the four comparisons.
Lead(t, u, preferLimitUp) ==
  LET x == Stat(t)
      y == Stat(u)
      limit == x.limit - y.limit
      strong == x.strong - y.strong
      share == Participation(x) * Denominator(y) - Participation(y) * Denominator(x)
      score == Numerator(x) * Denominator(y) - Numerator(y) * Denominator(x)
  IN  IF preferLimitUp THEN <<limit, strong, share, score>>
      ELSE <<score, strong, limit, share>>

\* Mutant: the topic that is behind replaces the best one.
Bug_ShouldReplace(t, best, preferLimitUp) ==
  LET lead == Lead(best, t, preferLimitUp)
  IN  \E i \in 1..4 : lead[i] > 0 /\ \A j \in 1..(i - 1) : lead[j] = 0

\* shouldReplacePickedTopic
ShouldReplace(t, best, preferLimitUp) ==
  LET lead == Lead(t, best, preferLimitUp)
  IN  \E i \in 1..4 : lead[i] > 0 /\ \A j \in 1..(i - 1) : lead[j] = 0

\* pickBestTopicBySimpleHeat: the relation picked among the first i, as a set of one or
\* none.
BestSoFar(rels, allowed, preferLimitUp) ==
  LET best[i \in 0..Len(rels)] ==
        IF i = 0 THEN {}
        ELSE IF /\ rels[i].topic \in HeatMap \cap allowed
                /\ \A b \in best[i - 1] :
                     ShouldReplace(rels[i].topic, b.topic, preferLimitUp)
             THEN {rels[i]} ELSE best[i - 1]
  IN  best

PickBest(rels, allowed, preferLimitUp) ==
  BestSoFar(rels, allowed, preferLimitUp)[Len(rels)]

-------------------------------------------------------------------------------
\* pickLatestManualRelation: among the first i, of those updated last, the first.
LatestSoFar(rels) ==
  LET latest[i \in 0..Len(rels)] ==
        IF i = 0 THEN {}
        ELSE IF rels[i].source = "manual" /\ \A l \in latest[i - 1] : rels[i].at > l.at
             THEN {rels[i]} ELSE latest[i - 1]
  IN  latest

PickManual(rels) == LatestSoFar(rels)[Len(rels)]

\* IsRecentTopic: a date to come counts as today's.
IsRecent(r) == r.age # Undated /\ r.age <= 7

\* Mutant: a recent topic has to have heat, as others do.
Bug_PickRecent(rels) ==
  LET recent == {r \in Range(rels) : r.topic \in HeatMap /\ IsRecent(r)}
  IN  {r \in recent : \A q \in recent : r.hits >= q.hits}

\* pickRecentTopic: any of the recent relations with the most hits.
PickRecent(rels) ==
  LET recent == {r \in Range(rels) : r.topic \notin Filtered /\ IsRecent(r)}
  IN  {r \in recent : \A q \in recent : r.hits >= q.hits}

\* Manual before recent before heat; what may be picked, as a set.
Pick(rels, byHeat) ==
  IF PickManual(rels) # {} THEN PickManual(rels)
  ELSE IF PickRecent(rels) # {} THEN PickRecent(rels)
  ELSE byHeat

Assigned == {results[s].topic : s \in LimitUp \cap judged} \ {"none"}

\* Mutant: the topics of limit-up stocks are no better than others.
Bug_ByHeatForStrong(rels) == PickBest(rels, HeatTopics, FALSE)

\* Topics limit-up stocks have been assigned first, then all of them.
ByHeatForStrong(rels) ==
  LET fromAssigned == PickBest(rels, Assigned, TRUE)
  IN  IF fromAssigned # {} THEN fromAssigned ELSE PickBest(rels, HeatTopics, FALSE)

Judge(s, picks) ==
  /\ s \notin judged
  /\ judged' = judged \cup {s}
  /\ IF picks = {} THEN UNCHANGED results
     ELSE \E r \in picks : results' = [results EXCEPT ![s] = r]
  /\ UNCHANGED <<gain, relations, others, counts>>

\* The two loops: limit-up stocks, and then the other strong ones.
ClassifyLimitUpStock(s) ==
  /\ s \in LimitUp
  /\ Judge(s, Pick(relations[s], PickBest(relations[s], HeatTopics, TRUE)))

ClassifyStrongStock(s) ==
  /\ s \in Strong \ LimitUp
  /\ LimitUp \subseteq judged
  /\ Judge(s, Pick(relations[s], ByHeatForStrong(relations[s])))

HeatNext == \E s \in HeatStocks : ClassifyLimitUpStock(s) \/ ClassifyStrongStock(s)

HeatSpec == HeatInit /\ [][HeatNext]_heatVars

-------------------------------------------------------------------------------
\* RecentStrategy: an undated relation counts as seen today.  Sorting is not stable:
\* of equals, any may come first.
Days(r) == IF r.age = Undated THEN 0 ELSE r.age

StaleDays == 15

Fresh(rels) ==
  LET all == Range(rels)
      newest == {r \in all : \A q \in all : Days(r) <= Days(q)}
  IN  {r \in newest : Days(r) <= StaleDays}

\* Of relations that are all stale, the one with the most hits, the newest of these,
\* unless its topic is filtered.
BestStale(rels) ==
  LET stale == {r \in Range(rels) : r.topic \notin Filtered}
      Before(q, r) == q.hits > r.hits \/ (q.hits = r.hits /\ Days(q) < Days(r))
  IN  {r \in stale : \A q \in stale : ~Before(q, r)}

\* Mutant: the date is looked at first.
Bug_Filed(rels) == IF Fresh(rels) # {} THEN Fresh(rels) ELSE PickManual(rels)

\* What ClassifyStock may give: without a winner, all relations, the first of which
\* is filed.
Filed(rels) ==
  CASE PickManual(rels) # {} -> PickManual(rels)
    [] PickManual(rels) = {} /\ Fresh(rels) # {} -> Fresh(rels)
    [] PickManual(rels) = {} /\ Fresh(rels) = {} /\ BestStale(rels) # {} -> BestStale(rels)
    [] OTHER -> IF rels = <<>> THEN {} ELSE {rels[1]}

-------------------------------------------------------------------------------
ByHeat(s) ==
  s \in judged /\ PickManual(relations[s]) = {} /\ PickRecent(relations[s]) = {}

\* A strong stock is left without a topic only if none of its relations is manual, and
\* those of unfiltered topics are neither recent nor of a topic that may have heat:
\* whatever is missing in the cached counts, whichever counts there are, a stock with
\* a manual, a recent or a countable relation is placed, a recent one even if its topic
\* has no heat.
EveryStrongStockPlaced ==
  \A s \in judged :
    (\E i \in DOMAIN relations[s] :
       LET r == relations[s][i]
       IN  \/ r.source = "manual"
           \/ r.topic \notin Filtered /\ IsRecent(r)
           \/ r.topic \notin Filtered
              /\ (Unavailable \/ counts.cached[r.topic] + counts.stored[r.topic] > 0)) =>
      results[s] # NoRelation

\* Heat puts a limit-up stock under a topic that no fewer limit-up stocks share than
\* any other topic it could be under, wherever that topic is in the list.
LeadersShareTopics ==
  \A s \in LimitUp :
    (ByHeat(s) /\ results[s] # NoRelation) =>
      \A t \in HeatMap : Lists(s, t) => Stat(t).limit <= Stat(results[s].topic).limit

\* A strong stock that shares a topic with a limit-up stock, the topic that one was
\* put under, is put under such a topic, whatever is hotter: followers go with
\* leaders, although the two are classified in two passes.
FollowersJoinLeaders ==
  \A s \in Strong \ LimitUp :
    (ByHeat(s) /\ \E t \in Assigned \cap HeatMap : Lists(s, t)) =>
      results[s].topic \in Assigned

\* Monitor and editor agree on a stock with a manual relation, and on one whose
\* relations are all dated and no filtered ones, if just one of them has been seen
\* within a week: the topic filed with the snapshot is the topic shown.
MonitorAgreesWithEditor ==
  \A s \in judged :
    LET all == Range(relations[s])
        plain == \A r \in all : r.topic \notin Filtered /\ r.age # Undated
    IN  (PickManual(relations[s]) # {}
         \/ (plain /\ Cardinality({r \in all : IsRecent(r)}) = 1)) =>
          Filed(relations[s]) = {results[s]}
===============================================================================
