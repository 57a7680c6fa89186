# A verification project for the stock pool monitor

The program watches the A-share market through a trading day. Every few seconds
its monitor fetches the quotes of the whole market, decides which stocks are
sealed at their limit-up price and which gain more than 5%, keeps these two pools
in an in-process cache, and classifies the stocks by topic; after the close it
stores a snapshot of the day's strong stocks in PostgreSQL. This directory holds
TLA+ models of that program, TLC runs that check them, and TLAPS proofs.

Paths below are relative to `src/`.

## 1. The system: components, state, operations

| Component | State | Operations | Talks to |
|---|---|---|---|
| limit detection (`internal/pkg/limiter`) | none; it maps the previous state of a stock and a quote to the next state | `DetectBoard`, `CalcLimitUpPrice`, `DetectLimitUp` | called by the tick and by the snapshot |
| monitor tick (`internal/service/monitor`, `.../quote_fetcher`) | `stockStates`, `tickMu`, the data of the last tick | `ProcessTick`, `ManualTick`, `ResetClassifiedToday` | reads tushare and the stock table, writes all the caches below |
| monitor lifecycle (same file, `internal/handler/monitor_handler.go`, `main.go`) | `running`, `cancelFunc`, the goroutines | `Start`, `Stop`, the two handlers | runs ticks and the LLM goroutine |
| in-process caches (`dal/cache`) | pools, first seal times, yesterday-strong pool, quotes, classification, all under one RW lock, all expiring at 23:59 | batch add and remove, set-if-absent, merge, read | every service |
| LLM classification (`internal/service/classify/llm_classify.go`, `sector_fetcher.go`) | its own result cache, the table `llm_classify_results`, a cache of sector changes | `RunClassification` every ten minutes, and by request | reads the last tick or the exchange's list, writes results a later tick merges and a snapshot files |
| heat classification (`.../heat_classify.go`, `classify.go`, `internal/pkg/attribution`) | relation and concept caches | `ClassifyBySimpleHeat`, `ClassifyStock` | called by tick, snapshot, topic sync |
| scheduler (`internal/scheduler`) | cron entries | pre-market init 9:00, closing snapshot 15:05, stock sync 18:00, topic counts 23:00, and triggers of each over HTTP | all of the above |
| snapshots (`internal/service/snapshot`, `dal/repo/snapshot_repo.go`, `internal/handler/snapshot_handler.go`) | `daily_stock_snapshot`, a read-through cache per date | `TakeSnapshot`, range, clean-up, reads | feeds tomorrow's yesterday-strong pool |
| pool view (`internal/service/pool`) | none; joins pools, quotes, first times, classification, and for a past day its snapshot | `Reclassify` | the frontend |
| stock-topic relations (`dal/repo/stock_topic_relation_repo.go`, `internal/service/topic`) | `stock_topic_relations`, the cached rows of each stock | manual add, delete, accumulate, replace, reads that fill the cache; an edit files the stock's snapshots anew | crawler, classification, snapshots |
| topic counts (`dal/repo/topic_stock_count_repo.go`) | `topic_stock_count`, one cached map | nightly recount, warm-up, reads that complete the map | heat classification |
| topics and dictionary (`dal/repo`, `internal/service/topic`) | tables, two cached copies of the dictionary | edits, lookups | crawler, frontend |
| crawler (`internal/service/crawler`) | `jiuyan_raw_data` | `CrawlWithParams` of a date, `RebuildTopicRelations` of a range | relations |
| stock sync (`internal/service/stock`, `dal/repo/stock_repo.go`) | `stock_basic`, the cached list of active stocks | merge of three feeds | who is monitored |
| vendor's client (`external/tushare`) | none | HTTP calls with retries, tables without a head made into items | everything above |
| hot spots, focus list, limit detail, news, frontend | a set in the process, or none | reads | |

How they interact: the services have no queue between them. They share the
process-wide cache, the tables, and a few fields under three mutexes (`mu`,
`tickMu`, `snapshotMu`); everything else is a race in which each step is one
critical section of the cache lock or one statement on a table.

Behaviours that are hard:

- a tick is a long sequence of small critical sections, and resets, reloads,
  other requests, the LLM goroutine and readers come in between;
- what a tick decides depends on states carried from tick to tick, which are
  reset at 9:00, by a trigger, and by any restart, while the pools may survive
  the former but not the latter;
- the feed hides stocks, so that a pool is patched and never rebuilt;
- starts and stops are requests that race with the loop that is leaving;
- a snapshot is a delete and an insert without a transaction, with the cache
  invalidated later, and the count of a day rests on the rows of the day before;
- relations are written to the table by one call and read back into the cache by the
  next, without a lock, while four kinds of readers fill the same cache;
- counts, the dictionary and the list of stocks are each cached as a whole, by whoever
  has read the table last, and dropped by writers in one step or two;
- a view joins five reads taken at five moments, and shows numbers of days that the
  night counts again from other data;
- the monitor's and the editor's choice of a topic are two pieces of code;
- a call of the vendor may be tried again while its caller leaves;
- runs of the LLM that overlap fetch the pages of the sectors outside the lock of their
  cache;
- hits are added to by crawls and replaced by rebuilds, and nothing records which
  dates a number has in it;
- the limit price is computed in doubles and truncated, and compared with prices
  that the exchange rounds.

What makes each component correct, and the property that says so:

- *tick*: no stock in both pools, not in the middle of a tick either
  (`PoolsDisjoint`); a sealed stock has a time (`SealedHaveFirstTime`), which is
  never replaced (`FirstTimeKept`); the pools agree with the quotes they are
  joined with (`PoolsMatchCachedQuotes`); after a tick they show what it saw,
  whatever else happened (`LastTickShown`); they catch up with the market
  (`PoolsConverge`); and all in all a reader can take a tick for a single look at
  the market (`PromiseKept`);
- *LLM*: its results are used (`LLMResultsUsed`), and found when a snapshot is taken
  (`NoAnswerLost`); what a run is told of the sectors is never older than what
  somebody was told before (`ChangesNeverGoBack`);
- *heat*: no stock that could be placed is left out (`EveryStrongStockPlaced`), limit-up
  stocks gather (`LeadersShareTopics`) and others join them (`FollowersJoinLeaders`); the
  editor comes to the same topic (`MonitorAgreesWithEditor`);
- *pool view*: a stock is shown where it is, and twice or not at all only if it moved
  meanwhile (`SettledShown`, `ShownTwiceOnlyIfTorn`); its days are not overstated
  (`LiveNeverOverstated`) and are those that are filed (`LiveIsFiled`); a past day shows
  the topic an edit has given, if no cached relations misled it (`EditShown`);
- *topic counts*: a run has the counts there are (`RunsHaveCounts`), of today
  (`CountsAreOfToday`);
- *stock sync, dictionary*: columns of one sync (`ColumnsOfOneSync`), cached copies that
  follow the table (`MonitorListCurrent`, `DictionaryCurrent`);
- *vendor's client*: a caller is told what has happened (`CallerIsTold`);
- *lifecycle*: one loop (`OneLoop`), a truthful flag (`FlagIsTrue`), no loop out
  of reach (`LoopsCanBeStopped`), a stop that stops (`StopStops`);
- *limit detection*: neither truncation nor rounding misses or invents a seal
  (`LimitIsSealed`, `SealedIsNearLimit`), and the feed shows every sealed stock
  (`SealedIsFetched`);
- *snapshots*: counts are never too high (`NeverOverstated`), no row is missing
  (`SnapshotsComplete`), the cache is current (`CacheCurrent`), a range is an
  unbroken count (`RangeIsChained`);
- *relations and crawler*: the cache follows the table (`RelationsCurrent`), hits are
  what the raw data says (`HitsMatchRaw`), an editor's manual relation is kept,
  answered, and decides the topic of the snapshot (`ManualPrevails`).

## 2. The modules

`LimitDetect`: the pure part of `limit_calc.go`, in whole fen and percents. A
quote amounts to one of four classes: `limit`, `strong` (5% and not sealed),
`weak`, and `nopre` (no previous close, for which the percentage is infinite and
the detection is skipped). `CalcLimitUpPrice` is the *set* of results the double
arithmetic can give: `int(...)` truncates, and when the exact product is a whole
fen the double may lie just below it.

`QuoteStream`: a stock through a day of prices, with the exchange's own limit
price (rounded half up). It ties the classes `PoolMonitor` takes as given to the
prices they come from.

`PoolMonitor`: `ProcessTick` and its surroundings. One action per critical section:
`StartTick` (lock, fetch, load the stocks, cache the quotes), `TickFails` (the
early returns), for each quote in any order `ReadPrevState` and `JudgeStock`
(`stockStates` is read and written outside the lock that protects a reset, so the
two accesses are two steps), `EndDetection`, the four batches, `MergeLLM`,
`MergeHeat`, `PublishTick`. Beside it run other tickers, `PreMarketInit` (9:00, or
triggered), `TriggerLoadYesterdayStrongPool`, `LLMStart`, `LLMFinish` and
`LLMPanics`, the market, the hours (`MarketOpens`, `MarketCloses`, `NewDay`, where
the caches expire and the monitor's fields do not) and `Restart`.

| `PoolMonitor` | code |
|---|---|
| `stockStates`, `tickMu` | the fields of `MonitorServiceImpl` |
| `tick[t]` | the local variables of `ProcessTick`: the date, the quotes, and per stock the branch the loop took, from which the four code lists of the batches are made |
| `limitUp`, `above5`, `firstLimit`, `yStrong` | keys `pool:limit_up:`, `pool:above5:`, `first_limit:`, `pool:yesterday_strong:` |
| `quoteCache`, `classif` | keys `rt:quotes`, `cache:classification_result:`; of a classification only who made it |
| `llmResults`, `llmTable`, `llmRun` | the LLM's result cache, its table, its goroutine |
| `last` | `lastDate`, `lastQuotes` (and the stock map and set made from them) |

`PoolPromise`: what the pools promise, without batches, states or locks: a look at
the market files every stock it sees. `PoolMonitor` implements it under the
refinement mapping at its end, in which a tick under way counts as the look it
will have been, from the fetch on.

`MonitorLifecycle`: the running flag, the cancel function, and one loop with one
context per call of `Start` that gets past the flag. `Patient` says whether
operators wait for a loop to leave and a stop to be served before they ask for a
start, and for a start to come in before they ask for a stop.

`SnapshotStore`, `MCSnapshotStore`: the table, the read-through cache, jobs that take one date
or a range, a clean-up, readers. `job[t]` is the local state of `TakeSnapshot` and
of the handler around it. `behind`, `done`, `blind` and `alone` are history that only
properties read. `MCSnapshotStore` gives the strong stocks of each date.

`RelationStore`, `MCRelationStore`: the relations of a stock, with everybody who writes
or reads them. A call is a record `client[c]` whose `pc` names the next access to the
table or the cache:

| `RelationStore` | code |
|---|---|
| `table`, `raw` | `stock_topic_relations` and `jiuyan_raw_data`, the stock's rows |
| `cache` | the stock's entry of key `cache:stock_topics` |
| `filed` | `topic_id` of the stock's snapshot |
| `AddManualRelation`, `DeleteRelation`, then `Classify`, `FileSnapshot`, `Answer` | `StockTopicRelationService`, `SyncStockSnapshots`, the handlers |
| `CrawlWithParams`, `AccumulateHits` | raw rows are saved; then checked, and relations accumulated |
| `RebuildTopicRelations`, `ReplaceHits` | raw rows are read; then relations replaced |
| `RefreshRead`, `RefreshFill` | `refreshTsCodes`, after every write but a delete |
| `BeginRead`, `GetCached`, `GetStored`, `FillCache` | `GetByTsCode` and its batch, and the second write-back of classification |
| `behind`, `counted`, `others`, `bound`, `blind` | history that only properties read |

`MCRelationStore` lists the stock under two names of one topic on one date, and under
two topics on the other.

`PoolView` extends `PoolMonitor` by one request of `reclassifyToday`: `ViewPools` (the two
reads of the pools, of which the limit-up pool is first), `ViewClassification`,
`ViewJoin` (stock rows and quotes), `ViewFirstTimes` and the answer. Between any two of
them every step of the monitor may come. `settled` and `torn` are history.

`HeatClassify`: one run of `ClassifyBySimpleHeat`. `Stat`, `HeatMap`, `ShouldReplace` and
`PickBest` are the functions of the file, on the lists of relations the code goes
through: a loop that keeps the best so far is a recursive function of the position
(`BestSoFar`, `LatestSoFar`). Limit-up stocks are gone through first, in any order, and
then the strong ones, which prefer the topics that are `Assigned`. `Filed` is what
`ClassifyStock` makes of the same relations. `others` counts the stocks of the feed that
are not looked at one by one.

`LLMClassify`: two calls of `RunClassification`, in the loop and on request. A call is a
record whose `at` is the next access: `Begin` (cache and division), `LoadRows` and
`FillCache` (a cache without answers is filled from the table), `Ask`, `CacheAnswers`,
`SaveAnswers`. `LoadLLMResults` is what `snapshot.go` makes of cache and table. `PoolMonitor`
has the same call in fewer steps, against the ticks.

`SectorFetcher`: the cache of sector changes a run asks for. `FetchSectorChanges` is the
first look, `FetchPage` and `PageFails` are one page each, and `StoreSectors` is the
second look, with the lock. `sectors` is the map with `cacheTime`, known by when its first
page was asked for; `told` is history. Time passes while pages are awaited, for each page
no longer than the client's timeout; `SectorAssumption` is what the constants of the code
have, five pages of ten seconds and a cache of ten minutes (of which a comment,
`sector_fetcher.go:49`, says 60 seconds).

`DayCounts`: the numbers of days of one stock, by `LiveTimes`, `LiveDays`, `CarriedDays`
and `PastDays` of `pool_service.go`, and by `FiledTimes` and `FiledDays` of `snapshot.go`;
beside them the days there really were.

`TopicColumn`: the column `topic_id` of one stock's snapshots, with the jobs that write it
(`ClassifyCandidate` to `DropRows`), the edits that write it again row by row
(`FindRows`, `PlaceRow`, `UpdateRow`, `DropRow`), and the views of past days that cache
it. It is where snapshots and relations meet: `manual` has the times of the stock's
manual relations in the table, `known` is the list of them that is cached, and
`ClassifyStock` (`Placements`) goes by the cached one. An add writes the table and
refreshes the cache (`AddManualRelation`, `RefreshRelations`). A delete writes the table
and warms the cache up by a read through it (`DeleteRelation`, `WarmUp`): a list that is
cached stays, with the deleted relation, and if that is the latest manual one, all rows
are filed under its topic again. Readers cache what they have read before
(`BrowseStored`, `FillRelations`), heat classification without the times that tell which
is the latest (`BrowseCached`, `LoadStockTopics`).

`TopicCounts`, `StockBasic`, `TopicDictionary`: a table, its cached copy, and everybody who
reads and writes them, one step per access. A value is the number of the edit, or of
the state of the vendor's data, it comes from.

`TushareClient`: `doRequest` (`Attempt`, `WaitEnds`, `WaitCancelled`, `CallerLeaves`) and the
six calls in use, each with the columns it asks for and the cells it reads (`Feeds`).

`MCParts` puts the modules that share no state into one run: each of its behaviours is
one of `QuoteStream`, `HeatClassify`, `LLMClassify`, `DayCounts`, `TopicCounts`, `StockBasic`,
`TopicDictionary`, `TushareClient`, `TopicColumn`, `SectorFetcher`; `TopicColumn` in two
parts, with two editors and a job (*column*), and with one editor and a reader of
relations (*edits*). It has the inputs of heat and the configurations of retries.

`PoolMonitorProofs`, `MonitorLifecycleProofs`, `RelationStoreProofs`, `SnapshotStoreProofs`,
`HeatProofs`, `CacheProofs` (dictionary, stocks, topic counts, topic column),
`AnswerProofs` (quotes, numbers of days, LLM, sectors, vendor's client) and `ViewProofs`:
the theorems.

### What is abstracted

- Dates after today in `?date=` are left out. `IsYesterdayStrong` is read per stock
  during the fetch; the fetch is one step. So are the reset and the load of
  `preMarketInit`, and a write of a stock's state with its first seal time.
- A gain of exactly 5.00% is in the above-5% pool but is not `> 5` for heat and LLM;
  the class `strong` stands for both.
- In `PoolMonitor`, which stocks heat classification finds a topic for is a constant
  (`HasTopics`); its errors are the empty result. `HeatClassify` says which topic it is.
  An LLM answer names stocks it was asked about; the text of questions and
  answers, in which the sectors are put, is left out. `LLMClassify` has one date, for which
  `run-history` is the request.
- A process that dies, by `Restart` or by the panic of the LLM goroutine, is started
  again by a supervisor. The LLM table is all of this part that survives.
- In `PoolMonitor`, a stock is monitored (in `stock_basic`, active, not ST) or not for the
  whole behaviour; `StockBasic` has the sync that changes it.
- Snapshot dates are trading days; the clean-up counts 30 calendar days and the model
  `Keep` trading days. A range of one date is left out, as is the key of the
  limit-up rows, which is filled and invalidated in the same places as the key of all
  rows. In `RelationStore` the stock has one snapshot, whose topic is `filed` and which
  only edits write; `TopicColumn` has the snapshots of several days, and
  `TakeSnapshot`'s own write. Of the relations it has the manual ones, with their times
  but of topics that are none of Jiuyan's; those of Jiuyan stay, and come to a topic given
  by the day where there is no manual one. Its editors read the table and cache the rows
  in one step, where `RelationStore` has two.
- Heat has topics and counts in place of shares of them: the ratios that are compared
  are compared as fractions, and what depends on the order of a Go map, or on a random
  number, is any of the equals.
- The market value shown is left out. The live view multiplies the stored value by
  today's move, and its comment takes the stored one for yesterday's
  (`pool_service.go:326`); after the sync of 18:00 it is today's already.
- The expiry of caches at 23:59 is one step. An entry written later than that lives a
  minute, which the models let be a day, and one written in the nanosecond of 23:59
  (`cache.go:35`) a day, which they do not have.
- Relations are those of one stock: calls on many stocks read and write each of them
  as they do the one, in one statement or one critical section. Of a row only
  `hit_count` and whether `source` is manual are kept; names, categories, dates seen,
  and the time that tells which of several manual relations is the latest are not (but in
  `TopicColumn`), so that any manual one may be chosen. What attribution chooses when there is none is any
  related topic. The dictionary is constant.
- A call of the vendor meets outcomes, not bytes: no answer, a status, a body that is not
  JSON, an error code, a table. The rows of a table differ in their number of cells and
  in whether their numbers are numbers.
- `CrawlDate`, `CrawlToday`, `CrawlHistory`, `ClassifyStockBatch`, `Update`, `Delete` and
  `Merge` of topics, `GetLimitUp` and `GetAbove5` of the pools, and the three concept
  calls of the client are called by nothing, and left out.

## 3. The runs

| Run | Module | Question | Bounds |
|---|---|---|---|
| `pool_day` | `PoolMonitor` | are the pools right at every moment of two days, when operators leave the triggers alone? | two stocks of which one is monitored, the loop, 2 days, 2 moves, 1 failure or restart |
| `pool_ops` | `PoolView` | what still holds with two tickers, resets and reloads in trading hours, ticks for another date, and what does a view show then? | 1 stock, 2 tickers, 2 days, 1 move, no failure, 1 view at a time |
| `pool_live` | `PoolMonitor` | do the pools catch up with the market? | 1 stock, 2 tickers, 1 day, 2 moves, 1 failure, LLM with its panic |
| `pool_llm` | `PoolMonitor` | do LLM results get used, also with resets and reloads in trading hours? | 2 monitored stocks, one group or two, 1 failure |
| `parts` | `MCParts` | what do the ten parts promise that share no state? | see below |
| `lifecycle` | `MonitorLifecycle` | do races of start and stop keep one reachable loop? | main, 3 starts, 2 stops, patient operators |
| `snapshots` | `MCSnapshotStore` | do concurrent jobs, readers and failures keep rows, counts and cache right? | 2 stocks, 3 dates, 2 jobs at once, 1 reader, 1 failure or restart |
| `relations` | `MCRelationStore` | do edits, crawls, rebuilds and readers of a stock keep cache, hits and manual relations right? | 3 names of 2 topics, 2 dates, 2 calls at once, 3 in all, 1 failure or restart |
| `pool_stale` | `PoolMonitor` | finding, below | 1 stock |
| `pool_heat` | `PoolMonitor` | finding, below | 2 stocks, no move |
| `lifecycle_started` | `MonitorLifecycle` | finding, below | 2 starts, 2 stops, impatient operators |
| `snapshot_lost` | `MCSnapshotStore` | finding, below | 1 job at a time, 1 failure |

Why the bounds are enough to matter. A stock passes through the tick on its own:
stocks meet only in the batches, which are set operations, and in the LLM's groups,
for which `pool_llm` has two. Two days meet the states of yesterday; two moves seal
and open a stock, and with the arbitrary market of `Init` seal, open and hide it or
seal it again. One failure can fall in any step; `pool_ops` has none,
because its properties are about a day that goes on: a restart empties the pools, the
first times and what a view has begun, and a tick that fails has only cached quotes.
Two tickers give every overlap of two
ticks a lock could fail to prevent. Three dates give a chain of counts, a date without
candidates, and a clean-up that deletes the first while the last is taken; two jobs
interleave in every way. `snapshots` uses the symmetry of the two takers, which is
sound because the properties do not tell them apart and are all invariants; so does
`relations` with its callers. Three calls of which two overlap give every race of a
write with a write or a read and one more call that meets what it left: a crawl
repeated, a rebuild after an overlap, an edit of a stale entry.
Deadlock is not checked where the bounds, the end of the last day, or the end of a run
or a call really stop the system.

The bounds of `parts`: *quotes*, all boards, every price up to the limit, closes on both
sides of each rounding. *Heat*, two stocks and three topics, of which one is filtered;
one stock with any list of up to two relations, manual, fresh, recent, stale or undated,
in two backgrounds, and two stocks placed by heat in any background and with any
counts, cached or not. *LLM*, four stocks, of which one is placed already, so that a
group may have none, one, two or more than the two that are asked about; three runs and
one end of the process. *Days*, five days, on each of which the stock may be anything
and the snapshot be taken or not, with its data or not. *Counts*, two topics, two calls
at once and three in all, two edits, one night or restart: a run that meets a recount and
a second run. *Stocks*, two syncs and a reader at once, two changes of the data between
them, an expiry or a restart. *Dictionary*, two editors and two lookups at once, three
edits. *Client*, the shipped configuration, which has no retries and no delays, and two
that have three, with and without delay. *Column*, two days, two topics an editor may
give, two editors at once, a job, a view, and two writes in all: two edits that overlap
or follow each other, an add and its delete, or an edit and a job. *Edits*, the same with
one editor and a reader of relations instead of a job. *Sectors*, two askers, two pages of one tick of time each,
a cache that lives three, and five ticks in all, with restarts: two fetches that overlap
in every way, and a second round after the cache has grown old.

Fairness. `PoolMonitor`: a tick that has begun goes on (its goroutine runs; no step
waits), and the loop's timer fires again and again, so that it takes `tickMu` if it
is free again and again: Go's mutex hands the lock to a waiter that has waited for
1ms. The market opens at its hour. Nothing makes the LLM, a request, a move or the
end of a session happen. `MonitorLifecycle`: goroutines run, handlers go on once begun, and a
`select` that finds the context done again and again takes that case at some time,
since Go picks among ready cases at random (strong fairness of `LoopEnds`).

### Findings

Four runs check a sentence of the repository that the code does not keep.

1. `pool_stale`: a stock that falls below 5% disappears from the feed, and nothing
   takes it out of the above-5% pool (`migrations/009_create_daily_stock_pool.sql:31`
   calls pool 2 the pool of gains above 5%).
2. `pool_heat`: heat classification does not fill gaps (`monitor.go:239`), it
   replaces the LLM result merged one step before.
3. `lifecycle_started`: `/monitor/start` answers "monitor started" and the loop ends
   with the request (`monitor_handler.go:28`).
4. `snapshot_lost`: the old rows are deleted before the new ones are in
   (`snapshot.go:264-270`), so a failure loses the date.

Hazards that are real and for which a property is stated around the window, not over
it: `FlagIsTrue` for patient operators only (a start between a stop and the end of
the old loop loses the flag, `monitor.go:342`); `CacheCurrent` for dates nobody
was reading while they changed (`snapshot_repo.go:67`; such an entry stays stale
until it expires); `RelationsCurrent` but for a change nobody has cached yet and
somebody else is between reading and caching (`stock_topic_relation_repo.go:94`, `:161`,
`classify.go:82`), for a delete of a cached relation, whose warm-up reads the old entry
(`stock_topic_relation_repo.go:137`), and for a refresh that fails; `HitsMatchRaw` for
topics whose hits no repeated or failed crawl, no edit, and no rebuild that overlaps a
crawl or covers only some dates has disturbed since; `ManualPrevails` for an editor who
is alone with readers and crawls, and whose cache is not behind. `DictionaryCurrent`,
`MonitorListCurrent` and `EditShown` name the same window for their caches, of a reader
between reading and caching; two edits of a stock at once, or an edit and a snapshot
job, may leave rows under the older topic, since the job's upsert does not write
`topic_id` (`snapshot_dao.go:45`). `EditShown` also leaves out an edit that went by
cached relations which name another topic than the table's. A delete of the latest manual
relation always does when the stock is cached (`stock_topic_relation_repo.go:137`,
`classify.go:31`): with nobody else at work, the rows it should file anew keep the
deleted topic, until an edit that finds the cache right. So may an edit in
the middle of which a reader caches what it has read before, or heat classification its
copies without times (`heat_classify.go:450`), of which the first counts as the latest. `CountsAreOfToday` but for a call that began
yesterday; the warm-up after a recount finds the old map and leaves it
(`topic_stock_count_repo.go`), so that a recount by request is not seen until 23:59.
`NoAnswerLost` but for answers that came back from the table or whose topic could not be
looked up, which have no id: a snapshot, once the cache has any id, does not look for
them in the table. An add by hand of a
relation Jiuyan has already stays one of Jiuyan's (`stock_topic_relation_dao.go:62`),
although `migrations/006_create_stock_topic_relations.sql:30` gives manual relations
the highest priority.

## 4. What is proved

For every value of the constants, from the named assumptions on them only (each module
declares its own, such as `PoolMonitorAssumption`, `LifecycleAssumption`,
`RelationAssumption`, `LLMAssumption`, `HeatAssumption`, `SectorAssumption`,
`RetryAssumption`):

- `TypeCorrect`: `Spec => []TypeOK`. `TypeOK` is not inductive: that pools hold
  monitored stocks only rests on `VerdictsOnMonitored`, what the tick under way has
  judged.
- `NeverInBothPools`, `SealedAreDated`: from the inductive invariant `IInv`
  (`PoolsAreInductive`), assuming that operators leave the triggers alone. Its
  parts: who holds `tickMu` (`LockInv`), the date of a tick and of what
  exists (`DayInv`), that the state a stock was read with is still its state
  (`ReadInv`, which fails when a reset comes in between, hence the assumption), that a
  sealed or opened state has a first time (`FirstInv`), that verdicts agree with states
  and pools (`VerdictInv`, `PoolInv`), and what each batch has left to do
  (`BatchInv`). A stock moves from the limit-up pool to the other because its state says
  it was sealed; the invariant says that the state is never wrong about that.
- `FirstTimesAreKept`: an action property; it needs `TypeOK` only, and holds whatever
  operators do.
- `LimitIsAlwaysSealed`, `SealedIsAlwaysNearLimit`, `SealedIsAlwaysFetched`: for every
  previous close of at least 20 fen, from bounds on the quotients of the limit prices.
- `AtMostOneLoop`, `FlagTellsTheTruth`, `NoOrphanLoop`: for any number of requests of
  patient operators. The strengthening adds who may be on the way in or out at the
  same time (`NoStartWhileLeaving`).
- `RelationsAreTyped`: no write leaves a relation without hits; it rests on the
  finiteness of the names, and on lemmas of what each write does to the rows. No run
  checks it.
- `RelationsStayCurrent`: `RelationsCurrent` says what the cache is, which is not
  inductive, since a refresh may cache what it read long ago. `HoldersAreCurrent` adds
  that rows about to be cached are those of the table unless `behind` is raised. Each
  action then either changes the table (lemma `TableChanges`), or neither table nor
  cache (`NothingChanges`), or fills the cache.
- `ManualAlwaysPrevails`: from the beginning of an editor's call (`Editing`), the table
  keeps the relation, the cache from the refresh on has it and no manual relation the
  table has not, or is behind, and so have the rows the editor reads (`Prevails`). That
  nobody else files the snapshot or writes over the source in between rests on what
  calls know of each other (`CallsKnown`).
- `HitsAlwaysMatch`: with `Owed`, what crawls under way have yet to add, a set whose
  cardinality changes by the listings of one date (`OwedByOne`), as that of the raw rows
  does (`DateAdds`), since a date is there wholly or not at all (`WholeDates`).
- `LastTickIsShown`: `Spec => []LastTickShown`, operators included. What the pools show
  when a tick is over is not inductive; `ShownInv` adds what the batches a tick is through
  with have done to the pools of its own date (`DoneInv`), that a verdict is that of the
  quote the tick has (`QuoteInv`), and that no tick is of a day to come (`DatesInv`).
- `PoolsMatchQuotes`, when operators leave the triggers alone: `MatchInv` follows a member
  of a pool whose quote the tick under way has just replaced to the batch that takes it
  out (`TickCached`, `MembersCached`).
- `TheTickImplementsThePromise`: `Spec => PromiseKept`, the refinement of `PoolPromise`,
  under the same assumption. `PromiseInv` (no time and no verdict without a quote:
  `TimesInv`, `SkipInv`) lets every action be mapped in a lemma of its own: the start of a
  tick is the look (`StartIsLook`), the steps of its loop and its batches stutter
  (`StepStutters`, `PublishStutters`), a restart and a new day forget (`EndIsForget`).
- `TwiceOnlyIfTorn`, `SettledIsShown`, of the view over any ticks and operators: what it
  has read of the first pool is there still, or has moved and is torn (`TornKnown`), and
  what is settled is read as it is (`SettledRead`).
- `CountsNeverOverstated`: a count is made from rows somebody has read, perhaps long ago,
  of a cache somebody else has filled; `Honest` therefore says of all rows there are,
  stored, cached, held by a reader or by a job, that they claim no more days than there
  were.
- `CacheIsCurrent`: `Held` says that rows about to be cached are the table's, or their
  date is behind.
- `StoredDatesComplete`: a date that is done has its rows, or a job has deleted them and
  is going to put them in again (`Kept`).
- `RangesChain`: of a range that is alone, the dates it is through with follow each from
  the one before, and the one it is at will (`Chained`).
- `DictionaryIsCurrent`, `ListIsCurrent`: who is about to cache a copy has the table's, or
  knows to be late (`LookupsCurrent`, `ReadersCurrent`).
- `NoMixedColumns`: no list, stored, cached or on its way, has anything older than its
  names (`AllCoherent`), since each sync asks for the names first.
- `EveryRunHasCounts`: no row of `topic_stock_count` goes away, so that what a run has
  found in a copy of the map it has counts for, and what it has not it loads
  (`CallsHaveCounts`). `CachedCountsOfToday`: `CallsFresh`, of what a run is about to put
  back.
- `EditsAreShown`: an edit that is `clear`, alone and misled by nothing, has filed the days
  it is through with, since the cached relations place the stock as those of the table do
  from its refresh or warm-up on (`ClearIsRight`, `PlacedAlike`), and these days stay so
  until the next edit or job (`EditedIsRight`); a
  cached row is the table's, or somebody is about to drop it, or it is outdated
  (`PagesFollow`), and so is what a view holds (`ViewsFollow`).
- `NeverMoreDaysShown`, `ShownDaysAreFiled`: from `DayInv`, that yesterday's row is
  yesterday's or too low, and today's is what the live view would say.
- `AnswersAreFound`: once the table has been asked or the cache has answers, each stored
  answer has an id in the cache or is adrift (`LLMInv`).
- `EndsAreTold`: as long as a call goes on, no attempt was final (`Trying`); that each cell
  is read from the column it is named for is the lemmas `FeedsMeant` and `ItemsMeant`.
- `StrongStocksArePlaced`, `LeadersGather`, `FollowersFollow`, `MonitorAndEditorAgree`: for
  any number of stocks and topics, any counts, and lists of relations of any length, from
  the invariant `HeatInv` (`HeatInvHolds`). What a loop over a list returns is shown by
  induction on the position (`BestIsFound`, `BestHasMostLimitUps`, `LatestIsFound`), and so
  is that of recent relations one has the most hits (`RecentIsFound`), without which a
  stock whose only relation is recent might get none. The
  library's induction theorems cannot be used, since they take an operator; instead, the
  positions where a statement fails are a set of numbers, which has a least one
  (`LeastNumber`, `SetInduction`). That a recursive function over positions exists is
  shown in the same way (`LoopExists`). What a stock has been given stays right because
  heat does not change in a run, and `Assigned` does not once the limit-up stocks are done
  (`LimitUpsComeFirst`), before any other stock is judged.
- `SectorsNeverGoBack`, `SectorsAreRecent`: `SectorInv` says that a fetch takes no longer
  than its pages may (`FetchesAreShort`) and that what is cached is the newest anybody
  was told. Whoever stores a map therefore began its fetch after the one before was
  cached, or else would have found the cache fresh: this is where
  `PageCount * PageTimeout < SectorTTL` is needed. `SectorsAreRecent` is proved only.

Only model-checked:

- liveness (`PoolsConverge`, `LLMResultsUsed`, `StopStops`), which is out of the prover's
  reach. Every invariant of a passing run, and every property of its steps, is stated by
  a theorem.

## 5. Not modelled

- *Hot spots* (`internal/service/hot_spot`, `external/news`): the search of news for words
  on request. It keeps no state and shares none, and `extractor.go`, `matcher.go` and
  `manager.go` are called by nothing.
- *Focus list*: a set in the process, added to and removed from in one critical section
  each; nothing else reads it.
- *Limit detail* (`internal/service/limitdetail`): passes a list of the vendor's on to the
  view; its refresh and its cache are called by nothing.
- *Configuration, logging, routing, middleware*. A fact that matters to the models, which
  have both cases of it: `config/config.example.yaml` has no retry section and no timeout
  for the vendor's client, and `RetryConfig` has only `yaml` tags
  (`config/config.go:125`), which viper does not look at. A client so configured
  has no retries, no delay, and no time limit of its own, so that a fetch that hangs keeps
  `tickMu`. `TushareClient` is checked with that configuration and with others;
  `PoolMonitor`'s fairness assumes that a fetch ends.
- *Of the view*: grouping and sorting of the answer, and market values. *Of the LLM*: the
  text of questions and answers. *Of the crawler*: fetching and parsing pages, and the
  table of topics, edited row by row.
- *The limit-up rows' own cache key* of snapshots, filled and dropped where the key of all
  rows is, and *the warm-up of stock names*, which nothing but texts depends on.
- *Code nothing calls*: `dal/redis`, `internal/scheduler/ticker.go`, `daily_task.go`, and
  what section 2 names.
- *The frontend.*

What would come next: a composition of `StockBasic` with `PoolMonitor`, so that who is
monitored changes in the evening; and one of `TopicCounts` with `RelationStore`, whose
rows the recounts count.
