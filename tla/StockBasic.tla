------------------------------ MODULE StockBasic ------------------------------
(***************************************************************************)
(* The list of stocks: SyncStockBasic of internal/service/stock merges     *)
(* three feeds of the vendor into stock_basic, at 18:00 and by request;    *)
(* dal/repo/stock_repo.go caches the active ones for the monitor's ticks   *)
(* and the pre-market job.                                                 *)
(*                                                                         *)
(* A list is [basic, st, mv]: which state of the vendor's data the names,  *)
(* the ST marks and the market values in it are from, or 0 where the feed  *)
(* had nothing, which is no mark and no value for any stock.               *)
(***************************************************************************)
EXTENDS Integers

CONSTANTS
  Syncs,      \* concurrent calls of SyncStockBasic
  Readers,    \* concurrent ticks and pre-market jobs
  MaxChanges, \* bound on changes of the vendor's data
  MaxSyncs,   \* bound on calls of SyncStockBasic
  MaxGaps   \* bound on expiries and restarts

ASSUME StockAssumption == MaxChanges \in Nat /\ MaxSyncs \in Nat /\ MaxGaps \in Nat

VARIABLES
  feed,   \* the state of the vendor's data
  stored, \* stock_basic
  active, \* the cached list, or NoList
  sync,   \* [at, got] of each call
  reader, \* [at, list, again, late] of each reader
  synced, \* how many calls there have been
  gaps,
  late    \* history: the cached list is from before a write that was through when it was cached

stockVars == <<feed, stored, active, sync, reader, synced, gaps, late>>

Lost == 0
NoList == [basic |-> 0, st |-> 0, mv |-> 0]
NoSync == [at |-> "idle", got |-> NoList]
Resting == [at |-> "idle", list |-> NoList, again |-> FALSE, late |-> FALSE]

StockInit ==
  /\ feed = 1
  /\ stored = [basic |-> 1, st |-> 1, mv |-> 1]
  /\ active = NoList
  /\ sync = [c \in Syncs |-> NoSync]
  /\ reader = [r \in Readers |-> Resting]
  /\ synced = 0
  /\ gaps = 0
  /\ late = FALSE

FeedChanges ==
  /\ feed <= MaxChanges
  /\ feed' = feed + 1
  /\ UNCHANGED <<stored, active, sync, reader, synced, gaps, late>>

-------------------------------------------------------------------------------
\* At 18:00, or by request.
SyncBasic(c) ==
  /\ sync[c].at = "idle"
  /\ synced < MaxSyncs
  /\ synced' = synced + 1

\* StockBasic: without it there is no sync.
FetchBasic(c) ==
  /\ SyncBasic(c)
  /\ sync' = [sync EXCEPT ![c] = [at |-> "st", got |-> [NoList EXCEPT !.basic = feed]]]
  /\ UNCHANGED <<feed, stored, active, reader, gaps, late>>

\* StockST: a failure, or an answer without data, marks no stock.
FetchST(c) ==
  /\ sync[c].at = "st"
  /\ \E st \in {feed, Lost} :
       sync' = [sync EXCEPT ![c].at = "mv", ![c].got.st = st]
  /\ UNCHANGED <<feed, stored, active, reader, synced, gaps, late>>

\* DailyBasic: also a date without trading, or not closed yet, has no values.
FetchDaily(c) ==
  /\ sync[c].at = "mv"
  /\ \E mv \in {feed, Lost} :
       sync' = [sync EXCEPT ![c].at = "upsert", ![c].got.mv = mv]
  /\ UNCHANGED <<feed, stored, active, reader, synced, gaps, late>>

\* Mutant: columns without data are left as they are.
Bug_Upserted(got) ==
  [basic |-> got.basic,
   st |-> IF got.st = Lost THEN stored.st ELSE got.st,
   mv |-> IF got.mv = Lost THEN stored.mv ELSE got.mv]

\* Every column is assigned, in one transaction.
Upserted(got) == got

Upsert(c) ==
  /\ sync[c].at = "upsert"
  /\ stored' = Upserted(sync[c].got)
  /\ sync' = [sync EXCEPT ![c].at = "clear"]
  /\ reader' = [r \in Readers |->
       [reader[r] EXCEPT !.late = @ \/ reader[r].at \in {"fill", "set"}]]
  /\ UNCHANGED <<feed, active, synced, gaps, late>>

\* A write that fails is not followed by the invalidation.
UpsertFails(c) ==
  /\ sync[c].at = "upsert"
  /\ sync' = [sync EXCEPT ![c] = NoSync]
  /\ UNCHANGED <<feed, stored, active, reader, synced, gaps, late>>

\* Mutant: the list of all stocks is cleared, that of the active ones is not.
Bug_Cleared == active

\* ClearActiveStocks
Cleared == NoList

Invalidate(c) ==
  /\ sync[c].at = "clear"
  /\ active' = Cleared
  /\ late' = FALSE
  /\ sync' = [sync EXCEPT ![c] = NoSync]
  /\ UNCHANGED <<feed, stored, reader, synced, gaps>>

-------------------------------------------------------------------------------
\* GetActiveStocks: a tick is content with the cached list, the pre-market job caches
\* whatever it gets once more.
GetActiveStocks(r) ==
  /\ reader[r].at = "idle"
  /\ \E again \in BOOLEAN :
       /\ active = NoList \/ again
       /\ reader' = [reader EXCEPT ![r] =
            [at |-> IF active = NoList THEN "read" ELSE "set",
             list |-> active, again |-> again,
             late |-> late \/ \E c \in Syncs : sync[c].at = "clear"]]
  /\ UNCHANGED <<feed, stored, active, sync, synced, gaps, late>>

ReadStocks(r) ==
  /\ reader[r].at = "read"
  /\ reader' = [reader EXCEPT ![r].at = "fill", ![r].list = stored, ![r].late = FALSE]
  /\ UNCHANGED <<feed, stored, active, sync, synced, gaps, late>>

\* SetActiveStocks, by the repository and then by the job.
SetActiveStocks(r) ==
  /\ reader[r].at \in {"fill", "set"}
  /\ active' = reader[r].list
  /\ late' = reader[r].late
  /\ reader' = [reader EXCEPT ![r] =
       IF @.at = "fill" /\ @.again THEN [@ EXCEPT !.at = "set"] ELSE Resting]
  /\ UNCHANGED <<feed, stored, sync, synced, gaps>>

Expires ==
  /\ gaps < MaxGaps
  /\ gaps' = gaps + 1
  /\ active' = NoList
  /\ late' = FALSE
  /\ UNCHANGED <<feed, stored, sync, reader, synced>>

ProcessRestarts ==
  /\ gaps < MaxGaps
  /\ gaps' = gaps + 1
  /\ active' = NoList
  /\ late' = FALSE
  /\ sync' = [c \in Syncs |-> NoSync]
  /\ reader' = [r \in Readers |-> Resting]
  /\ UNCHANGED <<feed, stored, synced>>

StockNext ==
  \/ FeedChanges
  \/ \E c \in Syncs :
       FetchBasic(c) \/ FetchST(c) \/ FetchDaily(c) \/ Upsert(c) \/ UpsertFails(c)
       \/ Invalidate(c)
  \/ \E r \in Readers : GetActiveStocks(r) \/ ReadStocks(r) \/ SetActiveStocks(r)
  \/ Expires \/ ProcessRestarts

StockSpec == StockInit /\ [][StockNext]_stockVars

-------------------------------------------------------------------------------
\* Nothing in a list is older than its names: a feed that fails leaves its columns
\* without a value, and never with that of an earlier sync, or of another one that runs
\* at the same time.
ColumnsOfOneSync ==
  \A list \in {stored, active} :
    /\ list.st # Lost => list.st >= list.basic
    /\ list.mv # Lost => list.mv >= list.basic

\* The monitor's list is that of the table, or a sync is about to clear it, or it was
\* read before a sync was through and cached after: by a tick that missed the cache, or by
\* the pre-market job, which caches again what it has got.
MonitorListCurrent ==
  \/ active \in {NoList, stored}
  \/ late
  \/ \E c \in Syncs : sync[c].at = "clear"
===============================================================================
