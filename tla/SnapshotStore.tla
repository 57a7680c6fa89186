---------------------------- MODULE SnapshotStore ----------------------------
(***************************************************************************)
(* The daily snapshots: TakeSnapshot of internal/service/snapshot, the     *)
(* closing job and the two trigger requests that run it, the clean-up of   *)
(* old dates, and the read-through cache of dal/repo/snapshot_repo.go.     *)
(*                                                                         *)
(* A snapshot of a date has a row for each stock that closed 5% up, with   *)
(* the number of days in a row it has done so, counted from the row of the *)
(* trading day before.  Database and cache are changed by separate steps,  *)
(* no step is in a transaction with another, and every caller runs in a    *)
(* goroutine of its own.  Dates are trading days, numbered.                *)
(***************************************************************************)
EXTENDS Integers, FiniteSets

CONSTANTS
  Stocks,
  Miss,       \* no entry in the cache
  LastDate,   \* dates are 1..LastDate
  Strong,     \* the stocks 5% up at the close of each date
  Keep,       \* a clean-up for date d deletes what is Keep days older (30)
  Takers,     \* who takes snapshots: the closing job and trigger requests
  Readers,    \* who reads them through the cache
  MaxJobs,    \* snapshot jobs modelled
  MaxFaults   \* failed database calls and restarts

Dates == 1..LastDate
NoDate == 0

ASSUME SnapshotAssumption ==
  /\ LastDate \in Nat \ {0}
  /\ Strong \in [Dates -> SUBSET Stocks]
  /\ Keep \in Nat \ {0}
  /\ Takers \cap Readers = {}
  /\ MaxJobs \in Nat
  /\ MaxFaults \in Nat

\* The rows of a date: consecutive_strong_days by stock, 0 where there is no row.
Rows == [Stocks -> 0..LastDate]
NoRows == [s \in Stocks |-> 0]

ASSUME MissAssumption == Miss \notin Rows

VARIABLES
  db,      \* daily_stock_snapshot, by date
  cache,   \* snapshot:data:<date>: rows, or Miss
  job,     \* the local variables of each taker
  read,    \* the local variables of each reader
  jobs,    \* jobs begun so far
  done,    \* dates a job has stored and no clean-up deleted since (history)
  behind,  \* dates whose table changed between a read of it and the caching of
           \* what was read, so that the cache may have kept old rows (history)
  faults

vars == <<db, cache, job, read, jobs, done, behind, faults>>

\* history: a read of yesterday's rows has failed during the job, or has found
\* cached ones of a date that is behind (blind); no other job has been under way
\* since it began (alone).
IdleJob ==
  [pc |-> "idle", kind |-> "closing", from |-> NoDate, to |-> NoDate,
   date |-> NoDate, yesterday |-> NoRows, failed |-> {}, blind |-> FALSE,
   alone |-> TRUE]

IdleRead == [pc |-> "idle", date |-> NoDate, rows |-> NoRows]

Init ==
  /\ db = [d \in Dates |-> NoRows]
  /\ cache = [d \in Dates |-> Miss]
  /\ job = [t \in Takers |-> IdleJob]
  /\ read = [r \in Readers |-> IdleRead]
  /\ jobs = 0
  /\ done = {}
  /\ behind = {}
  /\ faults = 0

NoJob == \A t \in Takers : job[t].pc = "idle"

\* The dates somebody has read from the table and not yet cached.
BeingRead ==
  {read[r].date : r \in {r \in Readers : read[r].pc = "fill"}}
    \cup {job[t].date - 1 : t \in {t \in Takers : job[t].pc = "fill"}}

\* Cached rows that were behind are gone, unless more of them are on their way.
CaughtUp(dates) == behind \ (dates \ BeingRead)

MayFail == faults < MaxFaults

Stored(rows) == {s \in Stocks : rows[s] # 0}

-------------------------------------------------------------------------------
\* Where a job goes when the snapshot of a date has been taken, or has failed:
\* to the next trading day of the range, and to the end after the last.
NextDate(j, ok) ==
  LET over == [j EXCEPT !.failed = IF ok THEN @ ELSE @ \cup {j.date}]
  IN  CASE j.date < j.to -> [over EXCEPT !.date = @ + 1, !.pc = "fetch"]
        [] j.date = j.to -> [over EXCEPT !.pc = "end"]

\* The closing job and a trigger request take one date, a range request several
\* (a range of one date is left out).
BeginJob(t) ==
  /\ job[t].pc = "idle"
  /\ jobs < MaxJobs
  /\ jobs' = jobs + 1
  /\ \E kind \in {"closing", "request", "range"}, from \in Dates, to \in Dates :
       /\ from <= to
       /\ from < to <=> kind = "range"
       /\ job' = [u \in Takers |->
            CASE u = t -> [IdleJob EXCEPT !.pc = "fetch", !.kind = kind, !.from = from,
                                          !.to = to, !.date = from, !.alone = NoJob]
              [] u # t /\ job[u].pc # "idle" -> [job[u] EXCEPT !.alone = FALSE]
              [] OTHER -> job[u]]
  /\ UNCHANGED <<db, cache, read, done, behind, faults>>

\* Steps 1 to 6: quotes, limit list, market values, classification.  Without a
\* candidate nothing is written, and what was there before stays.
FetchCandidates(t) ==
  /\ job[t].pc = "fetch"
  /\ \/ /\ job' = [job EXCEPT ![t] = IF Strong[@.date] = {} THEN NextDate(@, TRUE)
                                     ELSE [@ EXCEPT !.pc = "yesterday"]]
        /\ UNCHANGED faults
     \/ /\ MayFail
        /\ faults' = faults + 1
        /\ job' = [job EXCEPT ![t] = NextDate(@, FALSE)]
  /\ UNCHANGED <<db, cache, read, jobs, done, behind>>

\* Mutant: the rows of the date itself are read.
Bug_YesterdayOf(d) == d

YesterdayOf(d) == d - 1

\* Step 7, GetByDate of the trading day before: a hit, or a read of the table.
\* An error of that read is dropped, and leaves no rows to count from.
ReadYesterday(t) ==
  LET d == YesterdayOf(job[t].date)
  IN  /\ job[t].pc = "yesterday"
      /\ \/ /\ d = NoDate
            /\ job' = [job EXCEPT ![t].pc = "delete", ![t].yesterday = NoRows]
            /\ UNCHANGED faults
         \/ /\ d \in Dates /\ cache[d] # Miss
            /\ job' = [job EXCEPT ![t].pc = "delete", ![t].yesterday = cache[d],
                                  ![t].blind = @ \/ d \in behind]
            /\ UNCHANGED faults
         \/ /\ d \in Dates /\ cache[d] = Miss
            /\ job' = [job EXCEPT ![t].pc = "fill", ![t].yesterday = db[d]]
            /\ UNCHANGED faults
         \/ /\ d \in Dates /\ cache[d] = Miss
            /\ MayFail
            /\ faults' = faults + 1
            /\ job' = [job EXCEPT ![t].pc = "delete", ![t].yesterday = NoRows,
                                  ![t].blind = TRUE]
      /\ UNCHANGED <<db, cache, read, jobs, done, behind>>

FillYesterday(t) ==
  /\ job[t].pc = "fill"
  /\ cache' = [cache EXCEPT ![YesterdayOf(job[t].date)] = job[t].yesterday]
  /\ job' = [job EXCEPT ![t].pc = "delete"]
  /\ UNCHANGED <<db, read, jobs, done, behind, faults>>

\* Step 8: the rows of the new snapshot.
NewRows(d, yesterday) ==
  [s \in Stocks |-> IF s \in Strong[d] THEN yesterday[s] + 1 ELSE 0]

\* Mutant: the comparison of the clean-up in the delete of one date.
Bug_DeleteRows(t) ==
  /\ job[t].pc = "delete"
  /\ db' = [d \in Dates |-> IF d <= job[t].date THEN NoRows ELSE db[d]]
  /\ job' = [job EXCEPT ![t].pc = "invalidateDeleted"]
  /\ UNCHANGED <<cache, read, jobs, done, behind, faults>>

\* Step 9, DeleteByDate: the rows, and then the cached ones.
DeleteRows(t) ==
  /\ job[t].pc = "delete"
  /\ \/ /\ db' = [db EXCEPT ![job[t].date] = NoRows]
        /\ behind' = behind \cup ({job[t].date} \cap BeingRead)
        /\ job' = [job EXCEPT ![t].pc = "invalidateDeleted"]
        /\ UNCHANGED faults
     \/ /\ MayFail
        /\ faults' = faults + 1
        /\ job' = [job EXCEPT ![t] = NextDate(@, FALSE)]
        /\ UNCHANGED <<db, behind>>
  /\ UNCHANGED <<cache, read, jobs, done>>

InvalidateDeleted(t) ==
  /\ job[t].pc = "invalidateDeleted"
  /\ cache' = [cache EXCEPT ![job[t].date] = Miss]
  /\ behind' = CaughtUp({job[t].date})
  /\ job' = [job EXCEPT ![t].pc = "insert"]
  /\ UNCHANGED <<db, read, jobs, done, faults>>

\* The upsert: rows another job has put in in between are overwritten.
Upsert(old, new) == [s \in Stocks |-> IF new[s] # 0 THEN new[s] ELSE old[s]]

\* Step 10, InsertBatch: all rows in one transaction, and then the cached ones.
InsertRows(t) ==
  /\ job[t].pc = "insert"
  /\ \/ /\ db' = [db EXCEPT ![job[t].date] =
                    Upsert(@, NewRows(job[t].date, job[t].yesterday))]
        /\ behind' = behind \cup ({job[t].date} \cap BeingRead)
        /\ done' = done \cup {job[t].date}
        /\ job' = [job EXCEPT ![t].pc = "invalidateInserted"]
        /\ UNCHANGED faults
     \/ /\ MayFail
        /\ faults' = faults + 1
        /\ job' = [job EXCEPT ![t] = NextDate(@, FALSE)]
        /\ UNCHANGED <<db, done, behind>>
  /\ UNCHANGED <<cache, read, jobs>>

\* Mutant: InsertBatch leaves the cache alone.
Bug_InvalidateInserted(t) ==
  /\ job[t].pc = "invalidateInserted"
  /\ job' = [job EXCEPT ![t] = NextDate(@, TRUE)]
  /\ UNCHANGED <<db, cache, read, jobs, done, behind, faults>>

InvalidateInserted(t) ==
  /\ job[t].pc = "invalidateInserted"
  /\ cache' = [cache EXCEPT ![job[t].date] = Miss]
  /\ behind' = CaughtUp({job[t].date})
  /\ job' = [job EXCEPT ![t] = NextDate(@, TRUE)]
  /\ UNCHANGED <<db, read, jobs, done, faults>>

\* A range cleans up whatever has failed, a single request if it has not failed.
Cleans(j) == j.kind = "range" \/ (j.kind = "request" /\ j.failed = {})

Old(j) == {d \in Dates : d <= j.to - Keep}

\* cleanupSnapshotsByBaseDate; its error is part of the answer, and all there is.
EndJob(t) ==
  /\ job[t].pc = "end"
  /\ \/ /\ Cleans(job[t])
        /\ db' = [d \in Dates |-> IF d \in Old(job[t]) THEN NoRows ELSE db[d]]
        /\ done' = done \ Old(job[t])
        /\ behind' = behind \cup (Old(job[t]) \cap BeingRead)
        /\ job' = [job EXCEPT ![t].pc = "invalidateOld"]
        /\ UNCHANGED faults
     \/ /\ ~Cleans(job[t])
        /\ job' = [job EXCEPT ![t] = IdleJob]
        /\ UNCHANGED <<db, done, behind, faults>>
     \/ /\ Cleans(job[t])
        /\ MayFail
        /\ faults' = faults + 1
        /\ job' = [job EXCEPT ![t] = IdleJob]
        /\ UNCHANGED <<db, done, behind>>
  /\ UNCHANGED <<cache, read, jobs>>

InvalidateOld(t) ==
  /\ job[t].pc = "invalidateOld"
  /\ cache' = [d \in Dates |-> IF d \in Old(job[t]) THEN Miss ELSE cache[d]]
  /\ behind' = CaughtUp(Old(job[t]))
  /\ job' = [job EXCEPT ![t] = IdleJob]
  /\ UNCHANGED <<db, read, jobs, done, faults>>

-------------------------------------------------------------------------------
\* GetByDate of anybody else: a miss reads the table, and caches what it read.
ReadRows(r) ==
  /\ read[r].pc = "idle"
  /\ \E d \in Dates :
       /\ cache[d] = Miss
       /\ read' = [read EXCEPT ![r] = [pc |-> "fill", date |-> d, rows |-> db[d]]]
  /\ UNCHANGED <<db, cache, job, jobs, done, behind, faults>>

FillRows(r) ==
  /\ read[r].pc = "fill"
  /\ cache' = [cache EXCEPT ![read[r].date] = read[r].rows]
  /\ read' = [read EXCEPT ![r] = IdleRead]
  /\ UNCHANGED <<db, job, jobs, done, behind, faults>>

\* At 23:59 every key of the cache expires.
CacheExpires ==
  /\ cache # [d \in Dates |-> Miss]
  /\ cache' = [d \in Dates |-> Miss]
  /\ behind' = CaughtUp(Dates)
  /\ UNCHANGED <<db, job, read, jobs, done, faults>>

\* The process dies and is started again: the table is all that is left.
Restart ==
  /\ MayFail
  /\ faults' = faults + 1
  /\ cache' = [d \in Dates |-> Miss]
  /\ job' = [t \in Takers |-> IdleJob]
  /\ read' = [r \in Readers |-> IdleRead]
  /\ behind' = {}
  /\ UNCHANGED <<db, jobs, done>>

JobStep(t) ==
  \/ FetchCandidates(t) \/ ReadYesterday(t) \/ FillYesterday(t)
  \/ DeleteRows(t) \/ InvalidateDeleted(t)
  \/ InsertRows(t) \/ InvalidateInserted(t)
  \/ EndJob(t) \/ InvalidateOld(t)

Next ==
  \/ \E t \in Takers : BeginJob(t) \/ JobStep(t)
  \/ \E r \in Readers : ReadRows(r) \/ FillRows(r)
  \/ CacheExpires \/ Restart

Spec == Init /\ [][Next]_vars

-------------------------------------------------------------------------------
\* On date d the stock has been strong for n days in a row, or longer.
StrongFor(d, s, n) == n <= d /\ \A e \in d - n + 1..d : s \in Strong[e]

\* A row never claims more strong days than there were, in the table or in the
\* cache: not after a second snapshot of a date, not with two jobs on the same
\* dates, not after failures and restarts, not from a stale cache entry.
NeverOverstated ==
  \A d \in Dates, s \in Stocks :
    /\ StrongFor(d, s, db[d][s])
    /\ cache[d] # Miss => StrongFor(d, s, cache[d][s])

\* What is cached is what is in the table, unless a job that has changed the table
\* is about to invalidate it, or changed it while a reader was between reading
\* the table and caching what it read: readers may come at any other time, also
\* between the delete and the insert of a job.
CacheCurrent ==
  \A d \in Dates \ behind :
    \/ cache[d] \in {Miss, db[d]}
    \/ \E t \in Takers :
         \/ job[t].pc \in {"invalidateDeleted", "invalidateInserted"} /\ job[t].date = d
         \/ job[t].pc = "invalidateOld" /\ d \in Old(job[t])

\* As long as nothing fails, a date that has been stored and not cleaned up has
\* all its rows when no job is under way, whichever jobs have worked on it at the
\* same time.
SnapshotsComplete ==
  (NoJob /\ faults = 0) => \A d \in done : Stored(db[d]) = Strong[d]

\* A range request, on its own, rebuilds an unbroken count: each of its dates counts on
\* from the date before it, as the same request has just stored it and whatever
\* readers have cached in the meantime.
RangeIsChained ==
  \A t \in Takers :
    (job[t].pc = "end" /\ job[t].alone /\ job[t].failed = {} /\ ~job[t].blind) =>
      \A d \in job[t].from..job[t].to :
        db[d] = NewRows(d, IF d = 1 THEN NoRows ELSE db[d - 1])

-------------------------------------------------------------------------------
\* "Replace existing records only after the new snapshot is fully prepared": a
\* snapshot is replaced, and never lost.
SnapshotsReplaced == NoJob => \A d \in done : Stored(db[d]) = Strong[d]
===============================================================================
