------------------------- MODULE SnapshotStoreProofs -------------------------
(***************************************************************************)
(* Proofs about SnapshotStore for any stocks, dates, takers, readers and   *)
(* numbers of jobs and faults: the counts claim no more than there was,    *)
(* the cache is current but for the window behind stands for, no row is    *)
(* missing as long as nothing fails, and a range chains its dates.         *)
(***************************************************************************)
EXTENDS SnapshotStore, TLAPS

Days == 0..LastDate

SnapRows == [Stocks -> Nat]

\* The steps of a job that hold the rows of the day before.
Holding == {"fill", "delete", "invalidateDeleted", "insert"}

JobSteps ==
  Holding \cup {"idle", "fetch", "yesterday", "invalidateInserted", "end", "invalidateOld"}

Locals ==
  [pc : JobSteps, kind : {"closing", "request", "range"}, from : Days, to : Days,
   date : Days, yesterday : SnapRows, failed : SUBSET Dates, blind : BOOLEAN,
   alone : BOOLEAN]

\* A job that has begun works on a date of its range; it reads rows of a day
\* before only when there is one.
InRange(j) ==
  j.pc # "idle" =>
    /\ j.from \in Dates /\ j.to \in Dates /\ j.date \in j.from..j.to
    /\ j.pc \in {"end", "invalidateOld"} => j.date = j.to
    /\ j.pc = "fill" => j.date - 1 \in Dates

Types ==
  /\ db \in [Dates -> SnapRows]
  /\ cache \in [Dates -> SnapRows \cup {Miss}]
  /\ job \in [Takers -> Locals]
  /\ \A t \in Takers : InRange(job[t])
  /\ read \in [Readers -> [pc : {"idle", "fill"}, date : Days, rows : SnapRows]]
  /\ \A r \in Readers : read[r].pc = "fill" => read[r].date \in Dates
  /\ done \subseteq Dates
  /\ behind \subseteq Dates
  /\ faults \in Nat

\* A step of a job changes the local variables of that job and of no other.
Moves(t) ==
  /\ job' \in [Takers -> Locals]
  /\ \A u \in Takers \ {t} : job'[u] = job[u]

\* The parts of a job most steps leave alone.
SameRange(j, k) ==
  /\ k.kind = j.kind /\ k.from = j.from /\ k.to = j.to /\ k.alone = j.alone

\* The job k is j with the snapshot of its date over, as NextDate leaves it.
Over(j, k, ok) ==
  /\ SameRange(j, k)
  /\ k.blind = j.blind /\ k.yesterday = j.yesterday
  /\ k.failed = IF ok THEN j.failed ELSE j.failed \cup {j.date}
  /\ \/ j.date < j.to /\ k.date = j.date + 1 /\ k.pc = "fetch"
     \/ j.date = j.to /\ k.date = j.date /\ k.pc = "end"

\* The job k is j but for the history of who else works.
SameBut(j, k) ==
  /\ k.pc = j.pc /\ k.kind = j.kind /\ k.from = j.from /\ k.to = j.to /\ k.date = j.date
  /\ k.yesterday = j.yesterday /\ k.failed = j.failed /\ k.blind = j.blind

\* The job k is j at another step of the same date.
Steps(j, k, pc) ==
  /\ SameRange(j, k)
  /\ k.pc = pc /\ k.date = j.date /\ k.failed = j.failed

-------------------------------------------------------------------------------
LEMMA NoRowsTyped == NoRows \in SnapRows /\ \A s \in Stocks : NoRows[s] = 0
BY DEF NoRows, SnapRows

LEMMA IdleJobTyped == IdleJob \in Locals /\ IdleJob.pc = "idle"
BY NoRowsTyped, SnapshotAssumption DEF IdleJob, Locals, JobSteps, Holding, Days, NoDate

LEMMA IdleReadTyped ==
  IdleRead \in [pc : {"idle", "fill"}, date : Days, rows : SnapRows] /\ IdleRead.pc = "idle"
BY NoRowsTyped, SnapshotAssumption DEF IdleRead, Days, NoDate

\* What NextDate does, field by field.
LEMMA NextDateFields ==
  ASSUME NEW j \in Locals, InRange(j), j.pc # "idle", NEW ok \in BOOLEAN
  PROVE  NextDate(j, ok) \in Locals /\ Over(j, NextDate(j, ok), ok)
<1> DEFINE over == [j EXCEPT !.failed = IF ok THEN @ ELSE @ \cup {j.date}]
<1>n. LastDate \in Nat
  BY SnapshotAssumption
<1>r. /\ j.from \in 1..LastDate /\ j.to \in 1..LastDate /\ j.date \in j.from..j.to
      /\ j.failed \in SUBSET (1..LastDate)
  BY DEF InRange, Dates, Locals
<1>i. j.date \in Int /\ j.to \in Int /\ j.date <= j.to /\ j.date \in 1..LastDate
  BY <1>n, <1>r
<1>1. /\ over \in Locals /\ SameRange(j, over) /\ over.blind = j.blind
      /\ over.yesterday = j.yesterday /\ over.date = j.date
      /\ over.failed = IF ok THEN j.failed ELSE j.failed \cup {j.date}
  <2>1. j.failed \in SUBSET Dates /\ j.failed \cup {j.date} \in SUBSET Dates
    BY <1>r, <1>i DEF Dates
  <2> QED
    BY <2>1 DEF Locals, SameRange
<1> HIDE DEF over
<1>2. CASE j.date < j.to
  <2>1. NextDate(j, ok) = [over EXCEPT !.date = @ + 1, !.pc = "fetch"]
    BY <1>2, <1>i DEF NextDate, over
  <2>2. j.date + 1 \in Days
    BY <1>2, <1>r, <1>n DEF Days
  <2>3. NextDate(j, ok) = [over EXCEPT !.date = j.date + 1, !.pc = "fetch"]
    BY <1>1, <2>1 DEF Locals
  <2>4. NextDate(j, ok) \in Locals
    BY <1>1, <2>2, <2>3 DEF Locals, JobSteps
  <2>5. Over(j, NextDate(j, ok), ok)
    BY <1>1, <1>2, <2>3 DEF Locals, SameRange, Over
  <2> QED
    BY <2>4, <2>5
<1>3. CASE j.date = j.to
  <2>1. NextDate(j, ok) = [over EXCEPT !.pc = "end"]
    BY <1>3, <1>i DEF NextDate, over
  <2> QED
    BY <1>1, <1>3, <2>1 DEF Locals, SameRange, Over, JobSteps
<1> QED
  BY <1>2, <1>3, <1>i

LEMMA NewRowsTyped ==
  ASSUME NEW d \in Dates, NEW rows \in SnapRows
  PROVE  NewRows(d, rows) \in SnapRows
BY DEF NewRows, SnapRows

LEMMA UpsertTyped ==
  ASSUME NEW old \in SnapRows, NEW new \in SnapRows
  PROVE  Upsert(old, new) \in SnapRows
BY DEF Upsert, SnapRows

-------------------------------------------------------------------------------
(***************************************************************************)
(* What each step does to the job that takes it, field by field.           *)
(***************************************************************************)
LEMMA BeginMoves ==
  ASSUME Types, NEW t \in Takers, BeginJob(t)
  PROVE  /\ job' \in [Takers -> Locals]
         /\ job[t].pc = "idle"
         /\ job'[t].pc = "fetch" /\ InRange(job'[t])
         /\ job'[t].date = job'[t].from
         /\ job'[t].alone => NoJob
         /\ \A u \in Takers \ {t} :
              /\ SameBut(job[u], job'[u])
              /\ job[u].pc # "idle" => ~job'[u].alone
         /\ UNCHANGED <<db, cache, read, done, behind, faults>>
<1> PICK kind \in {"closing", "request", "range"}, from \in Dates, to \in Dates :
      /\ from <= to
      /\ job' = [u \in Takers |->
            CASE u = t -> [IdleJob EXCEPT !.pc = "fetch", !.kind = kind, !.from = from,
                                          !.to = to, !.date = from, !.alone = NoJob]
              [] u # t /\ job[u].pc # "idle" -> [job[u] EXCEPT !.alone = FALSE]
              [] OTHER -> job[u]]
  BY DEF BeginJob
<1> DEFINE new == [IdleJob EXCEPT !.pc = "fetch", !.kind = kind, !.from = from,
                                  !.to = to, !.date = from, !.alone = NoJob]
<1>1. job'[t] = new
  OBVIOUS
<1>2. \A u \in Takers \ {t} : job'[u] \in {job[u], [job[u] EXCEPT !.alone = FALSE]}
  OBVIOUS
<1>3. \A u \in Takers \ {t} :
        job[u].pc # "idle" => job'[u] = [job[u] EXCEPT !.alone = FALSE]
  OBVIOUS
<1>d. from \in Days /\ to \in Days
  BY SnapshotAssumption DEF Dates, Days
<1>b. NoJob \in BOOLEAN
  BY DEF NoJob
<1>4. /\ new \in Locals /\ new.pc = "fetch" /\ new.from = from /\ new.to = to
      /\ new.date = from
  BY IdleJobTyped, <1>d, <1>b DEF Locals, JobSteps
<1>5. new.alone = NoJob
  BY IdleJobTyped DEF Locals
<1> HIDE DEF new
<1>6. InRange(new)
  BY <1>4, SnapshotAssumption DEF InRange, Dates
<1>7. \A u \in Takers : job[u] \in Locals
  BY DEF Types
<1>8. \A u \in Takers \ {t} : job'[u] \in Locals /\ SameBut(job[u], job'[u])
  <2> SUFFICES ASSUME NEW u \in Takers \ {t}
               PROVE  job'[u] \in Locals /\ SameBut(job[u], job'[u])
    OBVIOUS
  <2>1. job[u] \in Locals /\ job'[u] \in {job[u], [job[u] EXCEPT !.alone = FALSE]}
    BY <1>2, <1>7
  <2>2. CASE job'[u] = job[u]
    BY <2>1, <2>2 DEF SameBut
  <2>3. CASE job'[u] = [job[u] EXCEPT !.alone = FALSE]
    BY <2>1, <2>3 DEF SameBut, Locals
  <2> QED
    BY <2>1, <2>2, <2>3
<1>9. \A u \in Takers \ {t} : job[u].pc # "idle" => ~job'[u].alone
  BY <1>3, <1>7 DEF Locals
<1>10. job' \in [Takers -> Locals]
  <2>1. \A u \in Takers : job'[u] \in Locals
    BY <1>1, <1>4, <1>8
  <2>2. job' = [u \in Takers |-> job'[u]]
    OBVIOUS
  <2> QED
    BY <2>1, <2>2
<1> QED
  BY <1>1, <1>4, <1>5, <1>6, <1>8, <1>9, <1>10 DEF BeginJob

LEMMA JobMoves ==
  ASSUME Types, NEW t \in Takers, NEW new \in Locals, job' = [job EXCEPT ![t] = new]
  PROVE  Moves(t) /\ job'[t] = new
BY DEF Moves, Types

\* A step of a job at another step of the same date.
LEMMA StepFields ==
  ASSUME Types, NEW t \in Takers, NEW pc \in JobSteps, NEW rows \in SnapRows,
         NEW blind \in BOOLEAN,
         job' = [job EXCEPT ![t] = [job[t] EXCEPT !.pc = pc, !.yesterday = rows,
                                                  !.blind = blind]]
  PROVE  /\ Moves(t) /\ Steps(job[t], job'[t], pc)
         /\ job'[t].yesterday = rows /\ job'[t].blind = blind
<1> DEFINE k == [job[t] EXCEPT !.pc = pc, !.yesterday = rows, !.blind = blind]
<1>1. job[t] \in Locals
  BY DEF Types
<1>2. k \in Locals /\ k.pc = pc /\ k.yesterday = rows /\ k.blind = blind
  BY <1>1 DEF Locals
<1>3. Steps(job[t], k, pc)
  BY <1>1 DEF Locals, Steps, SameRange
<1>4. job' = [job EXCEPT ![t] = k]
  OBVIOUS
<1> HIDE DEF k
<1> QED
  BY <1>2, <1>3, <1>4, JobMoves

LEMMA StepsOn ==
  ASSUME Types, NEW t \in Takers, NEW pc \in JobSteps, job' = [job EXCEPT ![t].pc = pc]
  PROVE  /\ Moves(t) /\ Steps(job[t], job'[t], pc)
         /\ job'[t].yesterday = job[t].yesterday /\ job'[t].blind = job[t].blind
BY DEF Types, Moves, Locals, Steps, SameRange

LEMMA EndsDate ==
  ASSUME Types, NEW t \in Takers, job[t].pc # "idle", NEW ok \in BOOLEAN,
         job' = [job EXCEPT ![t] = NextDate(@, ok)]
  PROVE  /\ Moves(t) /\ Over(job[t], job'[t], ok)
         /\ job'[t].yesterday = job[t].yesterday
<1>j. job[t] \in Locals /\ InRange(job[t])
  BY DEF Types
<1>1. NextDate(job[t], ok) \in Locals /\ Over(job[t], NextDate(job[t], ok), ok)
  BY <1>j, NextDateFields
<1>2. Moves(t) /\ job'[t] = NextDate(job[t], ok)
  BY <1>1, JobMoves
<1> QED
  BY <1>1, <1>2 DEF Over

LEMMA FetchMoves ==
  ASSUME Types, NEW t \in Takers, FetchCandidates(t)
  PROVE  /\ Moves(t) /\ job[t].pc = "fetch"
         /\ UNCHANGED <<db, cache, read, done, behind>>
         /\ job'[t].yesterday = job[t].yesterday
         /\ \/ /\ Strong[job[t].date] = {} /\ Over(job[t], job'[t], TRUE)
               /\ UNCHANGED faults
            \/ /\ Steps(job[t], job'[t], "yesterday") /\ job'[t].blind = job[t].blind
               /\ UNCHANGED faults
            \/ Over(job[t], job'[t], FALSE) /\ faults' = faults + 1
<1>j. job[t] \in Locals /\ InRange(job[t])
  BY DEF Types
<1>1. ASSUME job' = [job EXCEPT ![t] = NextDate(@, TRUE)], job[t].pc = "fetch"
      PROVE  Moves(t) /\ Over(job[t], job'[t], TRUE) /\ job'[t].yesterday = job[t].yesterday
  BY <1>1, <1>j, EndsDate
<1>2. ASSUME job' = [job EXCEPT ![t] = NextDate(@, FALSE)], job[t].pc = "fetch"
      PROVE  Moves(t) /\ Over(job[t], job'[t], FALSE) /\ job'[t].yesterday = job[t].yesterday
  BY <1>2, <1>j, EndsDate
<1>3. ASSUME job' = [job EXCEPT ![t] = [@ EXCEPT !.pc = "yesterday"]]
      PROVE  /\ Moves(t) /\ Steps(job[t], job'[t], "yesterday")
             /\ job'[t].yesterday = job[t].yesterday /\ job'[t].blind = job[t].blind
  <2>1. "yesterday" \in JobSteps
    BY DEF JobSteps
  <2> QED
    BY <1>3, <2>1, StepsOn
<1> QED
  BY <1>1, <1>2, <1>3 DEF FetchCandidates

LEMMA ReadYesterdayMoves ==
  ASSUME Types, NEW t \in Takers, ReadYesterday(t)
  PROVE  /\ Moves(t) /\ job[t].pc = "yesterday"
         /\ UNCHANGED <<db, cache, read, done, behind>>
         /\ job[t].blind => job'[t].blind
         /\ \/ /\ Steps(job[t], job'[t], "delete")
               /\ job[t].date = 1 /\ job'[t].yesterday = NoRows
               /\ UNCHANGED faults
            \/ /\ Steps(job[t], job'[t], "delete")
               /\ job[t].date - 1 \in Dates
               /\ cache[job[t].date - 1] # Miss
               /\ job'[t].yesterday = cache[job[t].date - 1]
               /\ job[t].date - 1 \in behind => job'[t].blind
               /\ UNCHANGED faults
            \/ /\ Steps(job[t], job'[t], "fill")
               /\ job[t].date - 1 \in Dates
               /\ job'[t].yesterday = db[job[t].date - 1]
               /\ UNCHANGED faults
            \/ /\ Steps(job[t], job'[t], "delete")
               /\ job'[t].yesterday = NoRows /\ job'[t].blind
               /\ faults' = faults + 1
<1>j. job[t] \in Locals /\ InRange(job[t])
  BY DEF Types
<1>p. job[t].pc = "yesterday"
  BY DEF ReadYesterday
<1>r. /\ LastDate \in Nat /\ job[t].date \in 1..LastDate
      /\ db \in [Dates -> SnapRows] /\ cache \in [Dates -> SnapRows \cup {Miss}]
      /\ job[t].blind \in BOOLEAN
  BY <1>j, <1>p, SnapshotAssumption DEF InRange, Dates, Types, Locals
<1> DEFINE d == job[t].date - 1
           New(pc, rows, blind) ==
             [job[t] EXCEPT !.pc = pc, !.yesterday = rows, !.blind = blind]
<1>d. d = NoDate <=> job[t].date = 1
  BY <1>r DEF NoDate
<1>n. ASSUME NEW pc \in JobSteps, NEW rows \in SnapRows, NEW blind \in BOOLEAN,
             job' = [job EXCEPT ![t] = New(pc, rows, blind)]
      PROVE  /\ Moves(t) /\ Steps(job[t], job'[t], pc)
             /\ job'[t].yesterday = rows /\ job'[t].blind = blind
  BY <1>n, StepFields
<1>s. {"delete", "fill"} \subseteq JobSteps
  BY DEF JobSteps, Holding
<1>1. CASE /\ d = NoDate
           /\ job' = [job EXCEPT ![t].pc = "delete", ![t].yesterday = NoRows]
           /\ UNCHANGED faults
  <2>1. job' = [job EXCEPT ![t] = New("delete", NoRows, job[t].blind)]
    BY <1>1, <1>j DEF Types, Locals
  <2>2. /\ Moves(t) /\ Steps(job[t], job'[t], "delete")
        /\ job'[t].yesterday = NoRows /\ job'[t].blind = job[t].blind
    <3> HIDE DEF New
    <3> QED
      BY <1>n, <1>r, <1>s, <2>1, NoRowsTyped
  <2>3. UNCHANGED <<db, cache, read, done, behind, faults>>
    BY <1>1 DEF ReadYesterday
  <2> QED
    BY <1>1, <1>d, <1>p, <2>2, <2>3
<1>2. CASE /\ d \in Dates /\ cache[d] # Miss
           /\ job' = [job EXCEPT ![t].pc = "delete", ![t].yesterday = cache[d],
                                 ![t].blind = @ \/ d \in behind]
           /\ UNCHANGED faults
  <2> DEFINE blind == job[t].blind \/ d \in behind
  <2>1. job' = [job EXCEPT ![t] = New("delete", cache[d], blind)]
    BY <1>2, <1>j DEF Types, Locals
  <2>2. cache[d] \in SnapRows /\ blind \in BOOLEAN
    BY <1>2, <1>r
  <2>3. /\ Moves(t) /\ Steps(job[t], job'[t], "delete")
        /\ job'[t].yesterday = cache[d] /\ job'[t].blind = blind
    <3> HIDE DEF blind, d, New
    <3> QED
      BY <1>n, <1>s, <2>1, <2>2
  <2>4. UNCHANGED <<db, cache, read, done, behind>>
    BY DEF ReadYesterday
  <2>5. (job[t].blind => job'[t].blind) /\ (d \in behind => job'[t].blind)
    BY <2>3
  <2> QED
    BY <1>2, <1>p, <2>3, <2>4, <2>5
<1>3. CASE /\ d \in Dates /\ cache[d] = Miss
           /\ job' = [job EXCEPT ![t].pc = "fill", ![t].yesterday = db[d]]
           /\ UNCHANGED faults
  <2>1. job' = [job EXCEPT ![t] = New("fill", db[d], job[t].blind)]
    BY <1>3, <1>j DEF Types, Locals
  <2>2. /\ Moves(t) /\ Steps(job[t], job'[t], "fill")
        /\ job'[t].yesterday = db[d] /\ job'[t].blind = job[t].blind
    <3>1. db[d] \in SnapRows
      BY <1>3, <1>r
    <3> HIDE DEF New, d
    <3> QED
      BY <1>n, <1>r, <1>s, <2>1, <3>1
  <2>3. UNCHANGED <<db, cache, read, done, behind, faults>>
    BY <1>3 DEF ReadYesterday
  <2> QED
    BY <1>3, <1>p, <2>2, <2>3
<1>4. CASE /\ faults' = faults + 1
           /\ job' = [job EXCEPT ![t].pc = "delete", ![t].yesterday = NoRows,
                                 ![t].blind = TRUE]
  <2>1. job' = [job EXCEPT ![t] = New("delete", NoRows, TRUE)]
    BY <1>4, <1>j DEF Types, Locals
  <2> QED
    BY <1>4, <1>n, <1>p, <1>s, <2>1, NoRowsTyped DEF ReadYesterday
<1> QED
  BY <1>1, <1>2, <1>3, <1>4 DEF ReadYesterday, YesterdayOf

LEMMA FillYesterdayMoves ==
  ASSUME Types, NEW t \in Takers, FillYesterday(t)
  PROVE  /\ Moves(t) /\ job[t].pc = "fill" /\ job[t].date - 1 \in Dates
         /\ UNCHANGED <<db, read, done, behind, faults>>
         /\ cache' = [cache EXCEPT ![job[t].date - 1] = job[t].yesterday]
         /\ Steps(job[t], job'[t], "delete")
         /\ job'[t].yesterday = job[t].yesterday /\ job'[t].blind = job[t].blind
<1>j. job[t] \in Locals /\ InRange(job[t])
  BY DEF Types
<1>s. "delete" \in JobSteps
  BY DEF JobSteps, Holding
<1>1. job' = [job EXCEPT ![t] = [@ EXCEPT !.pc = "delete"]]
  BY DEF FillYesterday
<1>2. /\ Moves(t) /\ Steps(job[t], job'[t], "delete")
      /\ job'[t].yesterday = job[t].yesterday /\ job'[t].blind = job[t].blind
  BY <1>1, <1>s, StepsOn
<1> QED
  BY <1>2, <1>j DEF FillYesterday, YesterdayOf, InRange

LEMMA DeleteMoves ==
  ASSUME Types, NEW t \in Takers, DeleteRows(t)
  PROVE  /\ Moves(t) /\ job[t].pc = "delete"
         /\ UNCHANGED <<cache, read, done>>
         /\ job'[t].yesterday = job[t].yesterday /\ job'[t].blind = job[t].blind
         /\ \/ /\ db' = [db EXCEPT ![job[t].date] = NoRows]
               /\ behind' = behind \cup ({job[t].date} \cap BeingRead)
               /\ Steps(job[t], job'[t], "invalidateDeleted")
               /\ UNCHANGED faults
            \/ /\ Over(job[t], job'[t], FALSE) /\ faults' = faults + 1
               /\ UNCHANGED <<db, behind>>
<1>j. job[t] \in Locals /\ InRange(job[t])
  BY DEF Types
<1>s. "invalidateDeleted" \in JobSteps
  BY DEF JobSteps, Holding
<1>1. ASSUME job' = [job EXCEPT ![t].pc = "invalidateDeleted"]
      PROVE  /\ Moves(t) /\ Steps(job[t], job'[t], "invalidateDeleted")
             /\ job'[t].yesterday = job[t].yesterday /\ job'[t].blind = job[t].blind
  BY <1>1, <1>s, StepsOn
<1>2. ASSUME job' = [job EXCEPT ![t] = NextDate(@, FALSE)], job[t].pc = "delete"
      PROVE  /\ Moves(t) /\ Over(job[t], job'[t], FALSE)
             /\ job'[t].yesterday = job[t].yesterday /\ job'[t].blind = job[t].blind
  BY <1>2, <1>j, EndsDate DEF Over
<1> QED
  BY <1>1, <1>2 DEF DeleteRows

LEMMA InvalidateDeletedMoves ==
  ASSUME Types, NEW t \in Takers, InvalidateDeleted(t)
  PROVE  /\ Moves(t) /\ job[t].pc = "invalidateDeleted"
         /\ UNCHANGED <<db, read, done, faults>>
         /\ cache' = [cache EXCEPT ![job[t].date] = Miss]
         /\ behind' = CaughtUp({job[t].date})
         /\ Steps(job[t], job'[t], "insert")
         /\ job'[t].yesterday = job[t].yesterday /\ job'[t].blind = job[t].blind
<1>j. job[t] \in Locals /\ InRange(job[t])
  BY DEF Types
<1>s. "insert" \in JobSteps
  BY DEF JobSteps, Holding
<1>1. job' = [job EXCEPT ![t] = [@ EXCEPT !.pc = "insert"]]
  BY DEF InvalidateDeleted
<1>2. /\ Moves(t) /\ Steps(job[t], job'[t], "insert")
      /\ job'[t].yesterday = job[t].yesterday /\ job'[t].blind = job[t].blind
  BY <1>1, <1>s, StepsOn
<1> QED
  BY <1>2, <1>j DEF InvalidateDeleted

LEMMA InsertMoves ==
  ASSUME Types, NEW t \in Takers, InsertRows(t)
  PROVE  /\ Moves(t) /\ job[t].pc = "insert"
         /\ UNCHANGED <<cache, read>>
         /\ job'[t].yesterday = job[t].yesterday /\ job'[t].blind = job[t].blind
         /\ \/ /\ db' = [db EXCEPT ![job[t].date] =
                           Upsert(@, NewRows(job[t].date, job[t].yesterday))]
               /\ behind' = behind \cup ({job[t].date} \cap BeingRead)
               /\ done' = done \cup {job[t].date}
               /\ Steps(job[t], job'[t], "invalidateInserted")
               /\ UNCHANGED faults
            \/ /\ Over(job[t], job'[t], FALSE) /\ faults' = faults + 1
               /\ UNCHANGED <<db, done, behind>>
<1>j. job[t] \in Locals /\ InRange(job[t])
  BY DEF Types
<1>s. "invalidateInserted" \in JobSteps
  BY DEF JobSteps, Holding
<1>1. ASSUME job' = [job EXCEPT ![t].pc = "invalidateInserted"]
      PROVE  /\ Moves(t) /\ Steps(job[t], job'[t], "invalidateInserted")
             /\ job'[t].yesterday = job[t].yesterday /\ job'[t].blind = job[t].blind
  BY <1>1, <1>s, StepsOn
<1>2. ASSUME job' = [job EXCEPT ![t] = NextDate(@, FALSE)], job[t].pc = "insert"
      PROVE  /\ Moves(t) /\ Over(job[t], job'[t], FALSE)
             /\ job'[t].yesterday = job[t].yesterday /\ job'[t].blind = job[t].blind
  BY <1>2, <1>j, EndsDate DEF Over
<1> QED
  BY <1>1, <1>2 DEF InsertRows

LEMMA InvalidateInsertedMoves ==
  ASSUME Types, NEW t \in Takers, InvalidateInserted(t)
  PROVE  /\ Moves(t) /\ job[t].pc = "invalidateInserted"
         /\ UNCHANGED <<db, read, done, faults>>
         /\ cache' = [cache EXCEPT ![job[t].date] = Miss]
         /\ behind' = CaughtUp({job[t].date})
         /\ Over(job[t], job'[t], TRUE)
         /\ job'[t].yesterday = job[t].yesterday
<1>j. job[t] \in Locals /\ InRange(job[t])
  BY DEF Types
<1>1. /\ Moves(t) /\ Over(job[t], job'[t], TRUE)
      /\ job'[t].yesterday = job[t].yesterday
  BY <1>j, EndsDate DEF InvalidateInserted
<1> QED
  BY <1>1 DEF InvalidateInserted

LEMMA EndMoves ==
  ASSUME Types, NEW t \in Takers, EndJob(t)
  PROVE  /\ Moves(t) /\ job[t].pc = "end"
         /\ UNCHANGED <<cache, read>>
         /\ \/ /\ db' = [d \in Dates |-> IF d \in Old(job[t]) THEN NoRows ELSE db[d]]
               /\ done' = done \ Old(job[t])
               /\ behind' = behind \cup (Old(job[t]) \cap BeingRead)
               /\ Steps(job[t], job'[t], "invalidateOld")
               /\ Old(job'[t]) = Old(job[t])
               /\ UNCHANGED faults
            \/ /\ job'[t] = IdleJob /\ faults' \in {faults, faults + 1}
               /\ UNCHANGED <<db, done, behind>>
<1>j. job[t] \in Locals /\ InRange(job[t])
  BY DEF Types
<1>s. "invalidateOld" \in JobSteps
  BY DEF JobSteps
<1>1. ASSUME job' = [job EXCEPT ![t].pc = "invalidateOld"]
      PROVE  Moves(t) /\ Steps(job[t], job'[t], "invalidateOld") /\ Old(job'[t]) = Old(job[t])
  <2>1. Moves(t) /\ Steps(job[t], job'[t], "invalidateOld")
    BY <1>1, <1>s, StepsOn
  <2> QED
    BY <2>1 DEF Steps, SameRange, Old
<1>2. ASSUME job' = [job EXCEPT ![t] = IdleJob]
      PROVE  Moves(t) /\ job'[t] = IdleJob
  BY <1>2, IdleJobTyped, JobMoves
<1> QED
  BY <1>1, <1>2 DEF EndJob

LEMMA InvalidateOldMoves ==
  ASSUME Types, NEW t \in Takers, InvalidateOld(t)
  PROVE  /\ Moves(t) /\ job[t].pc = "invalidateOld"
         /\ UNCHANGED <<db, read, done, faults>>
         /\ cache' = [d \in Dates |-> IF d \in Old(job[t]) THEN Miss ELSE cache[d]]
         /\ behind' = CaughtUp(Old(job[t]))
         /\ job'[t] = IdleJob
<1>1. Moves(t) /\ job'[t] = IdleJob
  BY IdleJobTyped, JobMoves DEF InvalidateOld
<1> QED
  BY <1>1 DEF InvalidateOld

-------------------------------------------------------------------------------
LEMMA OverInRange ==
  ASSUME NEW j \in Locals, NEW k \in Locals, NEW ok, InRange(j), j.pc # "idle", Over(j, k, ok)
  PROVE  InRange(k)
<1>1. /\ LastDate \in Nat /\ j.from \in 1..LastDate /\ j.to \in 1..LastDate
      /\ j.date \in j.from..j.to
  BY SnapshotAssumption DEF InRange, Dates
<1> QED
  BY <1>1 DEF Over, SameRange, InRange, Dates

LEMMA StepsInRange ==
  ASSUME NEW j \in Locals, NEW k \in Locals, NEW pc, InRange(j), j.pc # "idle",
         Steps(j, k, pc), pc \notin {"end", "fill"},
         pc = "invalidateOld" => j.pc = "end"
  PROVE  InRange(k)
BY DEF Steps, SameRange, InRange

LEMMA TypesInit == Init => Types
<1> SUFFICES ASSUME Init PROVE Types
  OBVIOUS
<1>1. job \in [Takers -> Locals] /\ \A t \in Takers : InRange(job[t])
  BY IdleJobTyped DEF Init, InRange
<1>2. /\ read \in [Readers -> [pc : {"idle", "fill"}, date : Days, rows : SnapRows]]
      /\ \A r \in Readers : read[r].pc # "fill"
  BY IdleReadTyped DEF Init
<1>3. db \in [Dates -> SnapRows] /\ cache \in [Dates -> SnapRows \cup {Miss}]
  BY NoRowsTyped DEF Init
<1> QED
  BY <1>1, <1>2, <1>3 DEF Init, Types

LEMMA TypesNext == Types /\ [Next]_vars => Types'
<1> SUFFICES ASSUME Types, [Next]_vars PROVE Types'
  OBVIOUS
<1>r. /\ db \in [Dates -> SnapRows] /\ cache \in [Dates -> SnapRows \cup {Miss}]
      /\ \A t \in Takers : job[t] \in Locals /\ InRange(job[t])
      /\ read \in [Readers -> [pc : {"idle", "fill"}, date : Days, rows : SnapRows]]
      /\ \A r \in Readers : read[r].pc = "fill" => read[r].date \in Dates
      /\ done \subseteq Dates /\ behind \subseteq Dates /\ faults \in Nat
  BY DEF Types
<1>u. \A dates : CaughtUp(dates) \subseteq Dates
  BY <1>r DEF CaughtUp
<1>d. \A t \in Takers : job[t].pc # "idle" => job[t].date \in Dates
  BY <1>r, SnapshotAssumption DEF InRange, Dates
\* A step of a job: it is enough that it leaves the job in its range.
<1>j. ASSUME NEW t \in Takers, Moves(t), InRange(job'[t]), UNCHANGED read,
             db' \in [Dates -> SnapRows], cache' \in [Dates -> SnapRows \cup {Miss}],
             done' \subseteq Dates, behind' \subseteq Dates, faults' \in Nat
      PROVE  Types'
  <2>1. \A u \in Takers : InRange(job'[u])
    BY <1>j, <1>r DEF Moves
  <2> QED
    BY <1>j, <1>r, <2>1 DEF Types, Moves, InRange
<1>o. ASSUME NEW t \in Takers, NEW ok, Moves(t), job[t].pc # "idle", Over(job[t], job'[t], ok)
      PROVE  job'[t] \in Locals /\ InRange(job'[t])
  BY <1>o, <1>r, OverInRange DEF Moves
<1>s. ASSUME NEW t \in Takers, NEW pc, Moves(t), job[t].pc # "idle",
             pc \notin {"end", "fill", "invalidateOld"}, Steps(job[t], job'[t], pc)
      PROVE  job'[t] \in Locals /\ InRange(job'[t])
  BY <1>s, <1>r, StepsInRange DEF Moves
<1>1. ASSUME NEW t \in Takers, BeginJob(t) PROVE Types'
  <2>1. \A u \in Takers : InRange(job'[u])
    BY <1>1, <1>r, BeginMoves DEF SameBut, InRange
  <2>2. /\ job' \in [Takers -> Locals]
        /\ UNCHANGED <<db, cache, read, done, behind, faults>>
    BY <1>1, BeginMoves
  <2> QED
    BY <1>r, <2>1, <2>2 DEF Types, InRange
<1>2. ASSUME NEW t \in Takers, FetchCandidates(t) PROVE Types'
  <2>1. job'[t] \in Locals /\ InRange(job'[t])
    BY <1>2, <1>o, <1>s, FetchMoves
  <2>2. /\ Moves(t) /\ UNCHANGED <<db, cache, read, done, behind>>
        /\ faults' \in {faults, faults + 1}
    BY <1>2, FetchMoves
  <2> QED
    BY <1>j, <1>r, <2>1, <2>2
<1>3. ASSUME NEW t \in Takers, ReadYesterday(t) PROVE Types'
  <2>1. job'[t] \in Locals /\ InRange(job'[t])
    <3>1. CASE Steps(job[t], job'[t], "delete")
      BY <1>3, <1>r, <3>1, ReadYesterdayMoves, StepsInRange DEF Moves
    <3>2. CASE Steps(job[t], job'[t], "fill") /\ job[t].date - 1 \in Dates
      BY <1>3, <1>r, <3>2, ReadYesterdayMoves DEF Moves, Steps, SameRange, InRange
    <3> QED
      BY <1>3, <3>1, <3>2, ReadYesterdayMoves
  <2> QED
    BY <1>3, <1>j, <1>r, <2>1, ReadYesterdayMoves
<1>4. ASSUME NEW t \in Takers, FillYesterday(t) PROVE Types'
  <2>1. job'[t] \in Locals /\ InRange(job'[t])
    BY <1>4, <1>r, FillYesterdayMoves, StepsInRange DEF Moves
  <2>2. cache' \in [Dates -> SnapRows \cup {Miss}]
    BY <1>4, <1>r, FillYesterdayMoves DEF Locals
  <2> QED
    BY <1>4, <1>j, <1>r, <2>1, <2>2, FillYesterdayMoves
<1>5. ASSUME NEW t \in Takers, DeleteRows(t) PROVE Types'
  <2>1. job'[t] \in Locals /\ InRange(job'[t])
    BY <1>5, <1>o, <1>s, DeleteMoves
  <2>2. db' \in [Dates -> SnapRows] /\ behind' \subseteq Dates /\ faults' \in Nat
    <3>1. CASE UNCHANGED <<db, behind>> /\ faults' = faults + 1
      BY <1>r, <3>1
    <3>2. CASE /\ db' = [db EXCEPT ![job[t].date] = NoRows] /\ UNCHANGED faults
               /\ behind' = behind \cup ({job[t].date} \cap BeingRead)
      <4>1. job[t].date \in Dates
        BY <1>5, <1>d, DeleteMoves
      <4> QED
        BY <1>r, <3>2, <4>1, NoRowsTyped
    <3> QED
      BY <1>5, <3>1, <3>2, DeleteMoves
  <2> QED
    BY <1>5, <1>j, <1>r, <2>1, <2>2, DeleteMoves
<1>6. ASSUME NEW t \in Takers, InvalidateDeleted(t) PROVE Types'
  <2>1. job'[t] \in Locals /\ InRange(job'[t])
    BY <1>6, <1>s, InvalidateDeletedMoves
  <2>2. cache' \in [Dates -> SnapRows \cup {Miss}]
    BY <1>6, <1>r, InvalidateDeletedMoves
  <2> QED
    BY <1>6, <1>j, <1>r, <1>u, <2>1, <2>2, InvalidateDeletedMoves
<1>7. ASSUME NEW t \in Takers, InsertRows(t) PROVE Types'
  <2>1. job'[t] \in Locals /\ InRange(job'[t])
    BY <1>7, <1>o, <1>s, InsertMoves
  <2>2. job[t].date \in Dates
    BY <1>7, <1>d, InsertMoves
  <2>3. Upsert(db[job[t].date], NewRows(job[t].date, job[t].yesterday)) \in SnapRows
    BY <1>r, <2>2, NewRowsTyped, UpsertTyped DEF Locals
  <2>4. /\ db' \in [Dates -> SnapRows] /\ behind' \subseteq Dates
        /\ done' \subseteq Dates /\ faults' \in Nat
    <3>1. CASE UNCHANGED <<db, done, behind>> /\ faults' = faults + 1
      BY <1>r, <3>1
    <3>2. CASE /\ db' = [db EXCEPT ![job[t].date] =
                            Upsert(@, NewRows(job[t].date, job[t].yesterday))]
               /\ behind' = behind \cup ({job[t].date} \cap BeingRead)
               /\ done' = done \cup {job[t].date} /\ UNCHANGED faults
      BY <1>r, <2>2, <2>3, <3>2
    <3> QED
      BY <1>7, <3>1, <3>2, InsertMoves
  <2> QED
    BY <1>7, <1>j, <1>r, <2>1, <2>4, InsertMoves
<1>8. ASSUME NEW t \in Takers, InvalidateInserted(t) PROVE Types'
  <2>1. job'[t] \in Locals /\ InRange(job'[t])
    BY <1>8, <1>r, InvalidateInsertedMoves, OverInRange DEF Moves
  <2>2. cache' \in [Dates -> SnapRows \cup {Miss}]
    BY <1>8, <1>r, InvalidateInsertedMoves
  <2> QED
    BY <1>8, <1>j, <1>r, <1>u, <2>1, <2>2, InvalidateInsertedMoves
<1>9. ASSUME NEW t \in Takers, EndJob(t) PROVE Types'
  <2>1. job'[t] \in Locals /\ InRange(job'[t])
    <3>1. CASE Steps(job[t], job'[t], "invalidateOld")
      BY <1>9, <1>r, <3>1, EndMoves, StepsInRange DEF Moves
    <3>2. CASE job'[t] = IdleJob
      BY <3>2, IdleJobTyped DEF InRange
    <3> QED
      BY <1>9, <3>1, <3>2, EndMoves
  <2>2. /\ db' \in [Dates -> SnapRows] /\ behind' \subseteq Dates
        /\ done' \subseteq Dates /\ faults' \in Nat
    <3>1. CASE UNCHANGED <<db, done, behind>> /\ faults' \in {faults, faults + 1}
      BY <1>r, <3>1
    <3>2. CASE /\ db' = [d \in Dates |-> IF d \in Old(job[t]) THEN NoRows ELSE db[d]]
               /\ done' = done \ Old(job[t])
               /\ behind' = behind \cup (Old(job[t]) \cap BeingRead) /\ UNCHANGED faults
      <4>1. Old(job[t]) \subseteq Dates
        BY DEF Old
      <4> QED
        BY <1>r, <3>2, <4>1, NoRowsTyped
    <3> QED
      BY <1>9, <3>1, <3>2, EndMoves
  <2> QED
    BY <1>9, <1>j, <1>r, <2>1, <2>2, EndMoves
<1>10. ASSUME NEW t \in Takers, InvalidateOld(t) PROVE Types'
  <2>1. job'[t] \in Locals /\ InRange(job'[t])
    BY <1>10, InvalidateOldMoves, IdleJobTyped DEF InRange
  <2>2. cache' \in [Dates -> SnapRows \cup {Miss}]
    BY <1>10, <1>r, InvalidateOldMoves
  <2> QED
    BY <1>10, <1>j, <1>r, <1>u, <2>1, <2>2, InvalidateOldMoves
<1>11. ASSUME NEW r \in Readers, ReadRows(r) PROVE Types'
  <2>1. PICK d \in Dates :
          read' = [read EXCEPT ![r] = [pc |-> "fill", date |-> d, rows |-> db[d]]]
    BY <1>11 DEF ReadRows
  <2>2. d \in Days
    BY <2>1, SnapshotAssumption DEF Dates, Days
  <2> QED
    BY <1>11, <1>r, <2>1, <2>2 DEF ReadRows, Types, InRange
<1>12. ASSUME NEW r \in Readers, FillRows(r) PROVE Types'
  <2>1. cache' \in [Dates -> SnapRows \cup {Miss}]
    BY <1>12, <1>r DEF FillRows
  <2>2. /\ read' \in [Readers -> [pc : {"idle", "fill"}, date : Days, rows : SnapRows]]
        /\ \A q \in Readers : read'[q].pc = "fill" => read'[q].date \in Dates
    BY <1>12, <1>r, IdleReadTyped DEF FillRows
  <2> QED
    BY <1>12, <1>r, <2>1, <2>2 DEF FillRows, Types, InRange
<1>13. CASE CacheExpires
  BY <1>13, <1>r, <1>u DEF CacheExpires, Types, InRange
<1>14. CASE Restart
  <2>1. job' \in [Takers -> Locals] /\ \A t \in Takers : InRange(job'[t])
    BY <1>14, IdleJobTyped DEF Restart, InRange
  <2>2. /\ read' \in [Readers -> [pc : {"idle", "fill"}, date : Days, rows : SnapRows]]
        /\ \A r \in Readers : read'[r].pc # "fill"
    BY <1>14, IdleReadTyped DEF Restart
  <2> QED
    BY <1>14, <1>r, <2>1, <2>2 DEF Restart, Types, InRange
<1>15. CASE UNCHANGED vars
  BY <1>15, <1>r DEF vars, Types, InRange
<1> QED
  BY <1>1, <1>2, <1>3, <1>4, <1>5, <1>6, <1>7, <1>8, <1>9, <1>10, <1>11, <1>12, <1>13,
     <1>14, <1>15 DEF Next, JobStep

THEOREM TypesHold == Spec => []Types
<1> QED
  BY TypesInit, TypesNext, PTL DEF Spec

-------------------------------------------------------------------------------
(***************************************************************************)
(* The cache.  It is current because what is about to be cached is, but    *)
(* for the dates that are behind.                                          *)
(***************************************************************************)
\* What somebody has read and is about to cache is what is in the table, or its
\* date is behind.
Held ==
  /\ \A r \in Readers :
       read[r].pc = "fill" =>
         read[r].date \in behind \/ read[r].rows = db[read[r].date]
  /\ \A t \in Takers :
       job[t].pc = "fill" =>
         job[t].date - 1 \in behind \/ job[t].yesterday = db[job[t].date - 1]

Invalidates(j, d) ==
  \/ j.pc \in {"invalidateDeleted", "invalidateInserted"} /\ j.date = d
  \/ j.pc = "invalidateOld" /\ d \in Old(j)

LEMMA CurrentIs ==
  CacheCurrent <=> \A d \in Dates \ behind :
                     cache[d] \in {Miss, db[d]} \/ \E t \in Takers : Invalidates(job[t], d)
BY DEF CacheCurrent, Invalidates

LEMMA CurrentStays ==
  ASSUME CacheCurrent, NEW t \in Takers, Moves(t),
         \A d \in Dates \ behind' :
           \/ cache'[d] \in {Miss, db'[d]}
           \/ Invalidates(job'[t], d)
           \/ /\ d \notin behind /\ cache'[d] = cache[d] /\ db'[d] = db[d]
              /\ ~Invalidates(job[t], d)
  PROVE  CacheCurrent'
<1>1. ASSUME NEW d \in Dates \ behind'
      PROVE  cache'[d] \in {Miss, db'[d]} \/ \E u \in Takers : Invalidates(job'[u], d)
  <2>1. CASE /\ d \notin behind /\ cache'[d] = cache[d] /\ db'[d] = db[d]
             /\ ~Invalidates(job[t], d)
    <3>1. CASE cache[d] \in {Miss, db[d]}
      BY <2>1, <3>1
    <3>2. CASE \E u \in Takers : Invalidates(job[u], d)
      <4>1. PICK u \in Takers : Invalidates(job[u], d)
        BY <3>2
      <4>2. u # t /\ job'[u] = job[u]
        BY <2>1, <4>1 DEF Moves
      <4> QED
        BY <4>1, <4>2
    <3> QED
      BY <2>1, <3>1, <3>2, CurrentIs
  <2> QED
    BY <1>1, <2>1
<1>2. (\A d \in Dates \ behind' :
         cache'[d] \in {Miss, db'[d]} \/ \E u \in Takers : Invalidates(job'[u], d))
        => CacheCurrent'
  BY DEF CacheCurrent, Invalidates
<1> QED
  BY <1>1, <1>2

LEMMA CurrentUntouched ==
  ASSUME CacheCurrent, NEW t \in Takers, Moves(t), UNCHANGED <<db, cache, behind>>,
         \A d : ~Invalidates(job[t], d)
  PROVE  CacheCurrent'
<1>1. \A d \in Dates \ behind' :
        /\ d \notin behind /\ cache'[d] = cache[d] /\ db'[d] = db[d]
        /\ ~Invalidates(job[t], d)
  OBVIOUS
<1> QED
  BY <1>1, CurrentStays

LEMMA InvalidatedOne ==
  ASSUME CacheCurrent, NEW t \in Takers, Moves(t), UNCHANGED db, NEW e \in Dates,
         cache \in [Dates -> SnapRows \cup {Miss}],
         cache' = [cache EXCEPT ![e] = Miss], behind' = CaughtUp({e}),
         \A d : Invalidates(job[t], d) => d = e
  PROVE  CacheCurrent'
<1>1. \A d \in Dates \ behind' :
        \/ cache'[d] = Miss
        \/ /\ d \notin behind /\ cache'[d] = cache[d] /\ db'[d] = db[d]
           /\ ~Invalidates(job[t], d)
  BY DEF CaughtUp
<1> QED
  BY <1>1, CurrentStays

LEMMA BeingReadDates == Types => BeingRead \subseteq Dates
BY DEF Types, BeingRead, InRange

LEMMA HeldStays ==
  ASSUME Held, NEW t \in Takers, Moves(t), UNCHANGED read,
         \A d \in BeingRead : db'[d] = db[d] \/ d \in behind',
         \A d \in BeingRead : d \in behind => d \in behind',
         job'[t].pc = "fill" =>
           job'[t].date - 1 \in behind' \/ job'[t].yesterday = db'[job'[t].date - 1]
  PROVE  Held'
<1>1. ASSUME NEW r \in Readers, read'[r].pc = "fill"
      PROVE  read'[r].date \in behind' \/ read'[r].rows = db'[read'[r].date]
  <2>1. read'[r] = read[r] /\ read[r].date \in BeingRead
    BY <1>1 DEF BeingRead
  <2> QED
    BY <1>1, <2>1 DEF Held
<1>2. ASSUME NEW u \in Takers, job'[u].pc = "fill"
      PROVE  job'[u].date - 1 \in behind' \/ job'[u].yesterday = db'[job'[u].date - 1]
  <2>1. CASE u = t
    BY <1>2, <2>1
  <2>2. CASE u # t
    <3>1. job'[u] = job[u]
      BY <2>2 DEF Moves
    <3>2. job[u].date - 1 \in BeingRead
      BY <1>2, <3>1 DEF BeingRead
    <3> QED
      BY <1>2, <3>1, <3>2 DEF Held
  <2> QED
    BY <2>1, <2>2
<1> QED
  BY <1>1, <1>2 DEF Held

LEMMA CacheInit == Init => CacheCurrent /\ Held
<1> SUFFICES ASSUME Init PROVE CacheCurrent /\ Held
  OBVIOUS
<1>1. CacheCurrent
  BY DEF Init, CacheCurrent
<1>2. Held
  BY IdleJobTyped, IdleReadTyped DEF Init, Held
<1> QED
  BY <1>1, <1>2

LEMMA CacheNext == Types /\ CacheCurrent /\ Held /\ [Next]_vars => CacheCurrent' /\ Held'
<1> SUFFICES ASSUME Types, CacheCurrent, Held, [Next]_vars PROVE CacheCurrent' /\ Held'
  OBVIOUS
<1>r. /\ db \in [Dates -> SnapRows] /\ cache \in [Dates -> SnapRows \cup {Miss}]
      /\ \A t \in Takers : job[t] \in Locals /\ InRange(job[t])
      /\ behind \subseteq Dates
  BY DEF Types
<1>d. \A t \in Takers : job[t].pc # "idle" => job[t].date \in Dates
  BY <1>r, SnapshotAssumption DEF InRange, Dates
<1>c. \A dates : /\ CaughtUp(dates) \subseteq behind
                 /\ behind \ CaughtUp(dates) \subseteq dates
                 /\ behind \cap BeingRead \subseteq CaughtUp(dates)
  BY DEF CaughtUp
<1>1. ASSUME NEW t \in Takers, BeginJob(t) PROVE CacheCurrent' /\ Held'
  <2>1. \A u \in Takers : \/ SameBut(job[u], job'[u])
                          \/ u = t /\ job[u].pc = "idle" /\ job'[u].pc = "fetch"
    BY <1>1, BeginMoves
  <2>2. UNCHANGED <<db, cache, read, behind>>
    BY <1>1, BeginMoves
  <2>3. CacheCurrent'
    BY <2>1, <2>2 DEF CacheCurrent, SameBut, Old
  <2>4. Held'
    BY <2>1, <2>2 DEF Held, SameBut
  <2> QED
    BY <2>3, <2>4
<1>2. ASSUME NEW t \in Takers, FetchCandidates(t) PROVE CacheCurrent' /\ Held'
  <2>1. /\ Moves(t) /\ UNCHANGED <<db, cache, read, behind>>
        /\ \A d : ~Invalidates(job[t], d)
        /\ job'[t].pc # "fill"
    BY <1>2, FetchMoves DEF Invalidates, Over, Steps
  <2> QED
    BY <2>1, CurrentUntouched, HeldStays
<1>3. ASSUME NEW t \in Takers, ReadYesterday(t) PROVE CacheCurrent' /\ Held'
  <2>1. /\ Moves(t) /\ UNCHANGED <<db, cache, read, behind>>
        /\ \A d : ~Invalidates(job[t], d)
    BY <1>3, ReadYesterdayMoves DEF Invalidates
  <2>2. job'[t].pc = "fill" => job'[t].yesterday = db[job'[t].date - 1]
    BY <1>3, ReadYesterdayMoves DEF Steps
  <2>3. CacheCurrent'
    BY <2>1, CurrentUntouched
  <2>4. Held'
    BY <2>1, <2>2, HeldStays
  <2> QED
    BY <2>3, <2>4
<1>4. ASSUME NEW t \in Takers, FillYesterday(t) PROVE CacheCurrent' /\ Held'
  <2> DEFINE e == job[t].date - 1
  <2>1. /\ Moves(t) /\ UNCHANGED <<db, read, behind>>
        /\ cache' = [cache EXCEPT ![e] = job[t].yesterday] /\ e \in Dates
        /\ \A d : ~Invalidates(job[t], d)
        /\ job'[t].pc # "fill"
        /\ job[t].pc = "fill"
    BY <1>4, FillYesterdayMoves DEF Invalidates, Steps
  <2>2. e \in behind \/ job[t].yesterday = db[e]
    BY <2>1 DEF Held
  <2> HIDE DEF e
  <2>3. \A d \in Dates \ behind' : \/ cache'[d] \in {Miss, db'[d]}
                                   \/ d \notin behind /\ cache'[d] = cache[d]
    BY <1>r, <2>1, <2>2
  <2>4. CacheCurrent'
    BY <2>1, <2>3, CurrentStays
  <2>5. Held'
    BY <2>1, HeldStays
  <2> QED
    BY <2>4, <2>5
<1>5. ASSUME NEW t \in Takers, DeleteRows(t) PROVE CacheCurrent' /\ Held'
  <2>1. CASE UNCHANGED <<db, behind>> /\ Over(job[t], job'[t], FALSE)
    <3>1. /\ Moves(t) /\ UNCHANGED <<db, cache, read, behind>>
          /\ \A d : ~Invalidates(job[t], d)
          /\ job'[t].pc # "fill"
      BY <1>5, <2>1, DeleteMoves DEF Invalidates, Over
    <3> QED
      BY <3>1, CurrentUntouched, HeldStays
  <2>2. CASE /\ db' = [db EXCEPT ![job[t].date] = NoRows]
             /\ behind' = behind \cup ({job[t].date} \cap BeingRead)
             /\ Steps(job[t], job'[t], "invalidateDeleted")
    <3>1. /\ Moves(t) /\ UNCHANGED <<cache, read>>
          /\ \A d : ~Invalidates(job[t], d)
          /\ Invalidates(job'[t], job[t].date)
          /\ job'[t].pc # "fill"
      BY <1>5, <2>2, DeleteMoves DEF Invalidates, Steps
    <3>2. \A d \in Dates : d = job[t].date \/ db'[d] = db[d]
      BY <1>r, <2>2
    <3>3. CacheCurrent'
      BY <2>2, <3>1, <3>2, CurrentStays
    <3>4. \A d \in BeingRead : db'[d] = db[d] \/ d \in behind'
      BY <1>r, <2>2, <1>5, <1>d, DeleteMoves
    <3>5. Held'
      BY <2>2, <3>1, <3>4, HeldStays
    <3> QED
      BY <3>3, <3>5
  <2> QED
    BY <1>5, <2>1, <2>2, DeleteMoves
<1>6. ASSUME NEW t \in Takers, InvalidateDeleted(t) PROVE CacheCurrent' /\ Held'
  <2>1. /\ Moves(t) /\ UNCHANGED <<db, read>>
        /\ cache' = [cache EXCEPT ![job[t].date] = Miss]
        /\ behind' = CaughtUp({job[t].date})
        /\ job[t].date \in Dates
        /\ \A d : Invalidates(job[t], d) => d = job[t].date
        /\ job'[t].pc # "fill"
    BY <1>6, <1>d, InvalidateDeletedMoves DEF Invalidates, Steps
  <2>2. CacheCurrent'
    BY <1>r, <1>c, <2>1, InvalidatedOne
  <2>3. Held'
    BY <1>c, <2>1, HeldStays
  <2> QED
    BY <2>2, <2>3
<1>7. ASSUME NEW t \in Takers, InsertRows(t) PROVE CacheCurrent' /\ Held'
  <2>1. CASE UNCHANGED <<db, behind>> /\ Over(job[t], job'[t], FALSE)
    <3>1. /\ Moves(t) /\ UNCHANGED <<db, cache, read, behind>>
          /\ \A d : ~Invalidates(job[t], d)
          /\ job'[t].pc # "fill"
      BY <1>7, <2>1, InsertMoves DEF Invalidates, Over
    <3> QED
      BY <3>1, CurrentUntouched, HeldStays
  <2>2. CASE /\ db' = [db EXCEPT ![job[t].date] =
                          Upsert(@, NewRows(job[t].date, job[t].yesterday))]
             /\ behind' = behind \cup ({job[t].date} \cap BeingRead)
             /\ Steps(job[t], job'[t], "invalidateInserted")
    <3>1. /\ Moves(t) /\ UNCHANGED <<cache, read>>
          /\ \A d : ~Invalidates(job[t], d)
          /\ Invalidates(job'[t], job[t].date)
          /\ job'[t].pc # "fill"
      BY <1>7, <2>2, InsertMoves DEF Invalidates, Steps
    <3>2. \A d \in Dates : d = job[t].date \/ db'[d] = db[d]
      BY <1>r, <2>2
    <3>3. CacheCurrent'
      BY <2>2, <3>1, <3>2, CurrentStays
    <3>4. \A d \in BeingRead : db'[d] = db[d] \/ d \in behind'
      BY <1>r, <2>2, <1>7, <1>d, InsertMoves
    <3>5. Held'
      BY <2>2, <3>1, <3>4, HeldStays
    <3> QED
      BY <3>3, <3>5
  <2> QED
    BY <1>7, <2>1, <2>2, InsertMoves
<1>8. ASSUME NEW t \in Takers, InvalidateInserted(t) PROVE CacheCurrent' /\ Held'
  <2>1. /\ Moves(t) /\ UNCHANGED <<db, read>>
        /\ cache' = [cache EXCEPT ![job[t].date] = Miss]
        /\ behind' = CaughtUp({job[t].date})
        /\ job[t].date \in Dates
        /\ \A d : Invalidates(job[t], d) => d = job[t].date
        /\ job'[t].pc # "fill"
    BY <1>8, <1>d, InvalidateInsertedMoves DEF Invalidates, Over
  <2>2. CacheCurrent'
    BY <1>r, <1>c, <2>1, InvalidatedOne
  <2>3. Held'
    BY <1>c, <2>1, HeldStays
  <2> QED
    BY <2>2, <2>3
<1>9. ASSUME NEW t \in Takers, EndJob(t) PROVE CacheCurrent' /\ Held'
  <2>1. CASE UNCHANGED <<db, behind>> /\ job'[t] = IdleJob
    <3>1. /\ Moves(t) /\ UNCHANGED <<db, cache, read, behind>>
          /\ \A d : ~Invalidates(job[t], d)
          /\ job'[t].pc # "fill"
      BY <1>9, <2>1, EndMoves, IdleJobTyped DEF Invalidates
    <3> QED
      BY <3>1, CurrentUntouched, HeldStays
  <2>2. CASE /\ db' = [d \in Dates |-> IF d \in Old(job[t]) THEN NoRows ELSE db[d]]
             /\ behind' = behind \cup (Old(job[t]) \cap BeingRead)
             /\ Steps(job[t], job'[t], "invalidateOld")
             /\ Old(job'[t]) = Old(job[t])
    <3>1. /\ Moves(t) /\ UNCHANGED <<cache, read>>
          /\ \A d : ~Invalidates(job[t], d)
          /\ \A d \in Old(job[t]) : Invalidates(job'[t], d)
          /\ job'[t].pc # "fill"
      BY <1>9, <2>2, EndMoves DEF Invalidates, Steps
    <3>2. \A d \in Dates : d \in Old(job[t]) \/ db'[d] = db[d]
      BY <1>r, <2>2
    <3>3. CacheCurrent'
      BY <2>2, <3>1, <3>2, CurrentStays
    <3>4. BeingRead \subseteq Dates
      BY BeingReadDates
    <3>5. \A d \in BeingRead : db'[d] = db[d] \/ d \in behind'
      BY <2>2, <3>2, <3>4
    <3>6. Held'
      BY <2>2, <3>1, <3>5, HeldStays
    <3> QED
      BY <3>3, <3>6
  <2> QED
    BY <1>9, <2>1, <2>2, EndMoves
<1>10. ASSUME NEW t \in Takers, InvalidateOld(t) PROVE CacheCurrent' /\ Held'
  <2>1. /\ Moves(t) /\ UNCHANGED <<db, read>>
        /\ cache' = [d \in Dates |-> IF d \in Old(job[t]) THEN Miss ELSE cache[d]]
        /\ behind' = CaughtUp(Old(job[t]))
        /\ \A d : Invalidates(job[t], d) => d \in Old(job[t])
        /\ job'[t].pc # "fill"
    BY <1>10, InvalidateOldMoves, IdleJobTyped DEF Invalidates
  <2>2. \A d \in Dates \ behind' : \/ cache'[d] = Miss
                                   \/ /\ d \notin behind /\ cache'[d] = cache[d]
                                      /\ ~Invalidates(job[t], d)
    BY <1>c, <2>1
  <2>3. CacheCurrent'
    BY <2>1, <2>2, CurrentStays
  <2>4. Held'
    BY <1>c, <2>1, HeldStays
  <2> QED
    BY <2>3, <2>4
<1>11. ASSUME NEW r \in Readers, ReadRows(r) PROVE CacheCurrent' /\ Held'
  <2>1. PICK d \in Dates :
          read' = [read EXCEPT ![r] = [pc |-> "fill", date |-> d, rows |-> db[d]]]
    BY <1>11 DEF ReadRows
  <2>2. UNCHANGED <<db, cache, job, behind>>
    BY <1>11 DEF ReadRows
  <2>3. \A q \in Readers : read'[q] = read[q] \/ read'[q].rows = db[read'[q].date]
    BY <2>1 DEF Types
  <2>4. Held'
    BY <2>2, <2>3 DEF Held
  <2> QED
    BY <2>2, <2>4 DEF CacheCurrent, Old
<1>12. ASSUME NEW r \in Readers, FillRows(r) PROVE CacheCurrent' /\ Held'
  <2>1. /\ read[r].pc = "fill" /\ read[r].date \in Dates
        /\ cache' = [cache EXCEPT ![read[r].date] = read[r].rows]
        /\ UNCHANGED <<db, job, behind>>
    BY <1>12 DEF FillRows, Types
  <2>2. read[r].date \in behind \/ read[r].rows = db[read[r].date]
    BY <2>1 DEF Held
  <2>3. \A d \in Dates \ behind : cache'[d] = cache[d] \/ cache'[d] = db[d]
    BY <1>r, <2>1, <2>2
  <2>4. CacheCurrent'
    BY <2>1, <2>3 DEF CacheCurrent, Old
  <2>5. \A q \in Readers : read'[q] = read[q] \/ read'[q].pc = "idle"
    BY <1>12, IdleReadTyped DEF FillRows, Types
  <2>6. Held'
    BY <2>1, <2>5 DEF Held
  <2> QED
    BY <2>4, <2>6
<1>13. CASE CacheExpires
  <2>1. CacheCurrent'
    BY <1>13 DEF CacheExpires, CacheCurrent
  <2>2. UNCHANGED <<db, job, read>> /\ behind' = CaughtUp(Dates)
    BY <1>13 DEF CacheExpires
  <2>3. Held'
    BY <1>c, <2>2 DEF Held, BeingRead
  <2> QED
    BY <2>1, <2>3
<1>14. CASE Restart
  <2>1. CacheCurrent'
    BY <1>14 DEF Restart, CacheCurrent
  <2>2. Held'
    BY <1>14, IdleJobTyped, IdleReadTyped DEF Restart, Held
  <2> QED
    BY <2>1, <2>2
<1>15. CASE UNCHANGED vars
  BY <1>15 DEF vars, CacheCurrent, Held, Old
<1> QED
  BY <1>1, <1>2, <1>3, <1>4, <1>5, <1>6, <1>7, <1>8, <1>9, <1>10, <1>11, <1>12, <1>13,
     <1>14, <1>15 DEF Next, JobStep

\* Whatever readers, jobs, failures and restarts do, and for any number of each:
\* what GetByDate finds in the cache is what is in the table, but for dates a job
\* is about to invalidate and those behind stands for.
THEOREM CacheIsCurrent == Spec => []CacheCurrent
<1>1. Init => Types /\ CacheCurrent /\ Held
  BY TypesInit, CacheInit
<1>2. (Types /\ CacheCurrent /\ Held) /\ [Next]_vars => (Types /\ CacheCurrent /\ Held)'
  BY TypesNext, CacheNext
<1> QED
  BY <1>1, <1>2, PTL DEF Spec

-------------------------------------------------------------------------------
(***************************************************************************)
(* The counts.                                                             *)
(***************************************************************************)
\* The rows, as rows of date d, claim no more strong days than there were.
Claims(d, rows) == \A s \in Stocks : StrongFor(d, s, rows[s])

\* True of all rows there are: stored, cached, read and about to be cached, and
\* taken for the day before by a job.
Honest ==
  /\ \A d \in Dates : Claims(d, db[d]) /\ (cache[d] # Miss => Claims(d, cache[d]))
  /\ \A r \in Readers : read[r].pc = "fill" => Claims(read[r].date, read[r].rows)
  /\ \A t \in Takers : job[t].pc \in Holding => Claims(job[t].date - 1, job[t].yesterday)

LEMMA NoRowsClaimNothing ==
  ASSUME NEW d \in Nat
  PROVE  Claims(d, NoRows)
BY NoRowsTyped DEF Claims, StrongFor

LEMMA NewRowsClaim ==
  ASSUME NEW d \in Dates, NEW rows \in SnapRows, Claims(d - 1, rows)
  PROVE  Claims(d, NewRows(d, rows))
<1> SUFFICES ASSUME NEW s \in Stocks PROVE StrongFor(d, s, NewRows(d, rows)[s])
  BY DEF Claims
<1>n. LastDate \in Nat /\ d \in 1..LastDate /\ rows[s] \in Nat
  BY SnapshotAssumption DEF Dates, SnapRows
<1>1. CASE s \notin Strong[d]
  <2>1. NewRows(d, rows)[s] = 0
    BY <1>1 DEF NewRows
  <2> QED
    BY <1>n, <2>1 DEF StrongFor
<1>2. CASE s \in Strong[d]
  <2>1. NewRows(d, rows)[s] = rows[s] + 1
    BY <1>2 DEF NewRows
  <2>2. rows[s] <= d - 1 /\ \A e \in (d - 1) - rows[s] + 1..d - 1 : s \in Strong[e]
    BY DEF Claims, StrongFor
  <2>3. rows[s] + 1 <= d
    BY <1>n, <2>2
  <2>4. ASSUME NEW e \in d - (rows[s] + 1) + 1..d PROVE s \in Strong[e]
    <3>1. e = d \/ e \in (d - 1) - rows[s] + 1..d - 1
      BY <1>n
    <3> QED
      BY <1>2, <2>2, <3>1
  <2> QED
    BY <2>1, <2>3, <2>4 DEF StrongFor
<1> QED
  BY <1>1, <1>2

LEMMA UpsertClaims ==
  ASSUME NEW d, NEW old, NEW new, Claims(d, old), Claims(d, new)
  PROVE  Claims(d, Upsert(old, new))
<1>1. \A s \in Stocks : Upsert(old, new)[s] \in {old[s], new[s]}
  BY DEF Upsert
<1> QED
  BY <1>1 DEF Claims

LEMMA HonestStays ==
  ASSUME Honest, NEW t \in Takers, Moves(t), UNCHANGED read,
         \A d \in Dates : db'[d] = db[d] \/ Claims(d, db'[d]),
         \A d \in Dates : cache'[d] \in {cache[d], Miss} \/ Claims(d, cache'[d]),
         job'[t].pc \in Holding => Claims(job'[t].date - 1, job'[t].yesterday)
  PROVE  Honest'
<1>1. \A d \in Dates : Claims(d, db'[d]) /\ (cache'[d] # Miss => Claims(d, cache'[d]))
  BY DEF Honest
<1>2. \A u \in Takers : job'[u].pc \in Holding => Claims(job'[u].date - 1, job'[u].yesterday)
  BY DEF Honest, Moves
<1> QED
  BY <1>1, <1>2 DEF Honest, Claims, StrongFor

LEMMA HonestInit == Init => Honest
<1> SUFFICES ASSUME Init PROVE Honest
  OBVIOUS
<1>1. \A d \in Dates : Claims(d, NoRows)
  BY NoRowsClaimNothing, SnapshotAssumption DEF Dates
<1> QED
  BY <1>1, IdleJobTyped, IdleReadTyped DEF Init, Honest, Holding

LEMMA HonestNext == Types /\ Honest /\ [Next]_vars => Honest'
<1> SUFFICES ASSUME Types, Honest, [Next]_vars PROVE Honest'
  OBVIOUS
<1>r. /\ db \in [Dates -> SnapRows] /\ cache \in [Dates -> SnapRows \cup {Miss}]
      /\ \A t \in Takers : job[t] \in Locals /\ InRange(job[t])
  BY DEF Types
<1>d. \A t \in Takers : job[t].pc # "idle" => /\ job[t].date \in Dates
                                              /\ job[t].date - 1 \in Nat
  BY <1>r, SnapshotAssumption DEF InRange, Dates
<1>z. \A d \in Dates : Claims(d, NoRows)
  BY NoRowsClaimNothing, SnapshotAssumption DEF Dates
<1>h. \A t \in Takers : job[t].pc \in Holding => Claims(job[t].date - 1, job[t].yesterday)
  BY DEF Honest
<1>o. ASSUME NEW t \in Takers, NEW ok, Over(job[t], job'[t], ok) PROVE job'[t].pc \notin Holding
  BY <1>o DEF Over, Holding
<1>1. ASSUME NEW t \in Takers, BeginJob(t) PROVE Honest'
  <2>1. \A u \in Takers : SameBut(job[u], job'[u]) \/ job'[u].pc \notin Holding
    BY <1>1, BeginMoves DEF Holding
  <2>2. UNCHANGED <<db, cache, read>>
    BY <1>1, BeginMoves
  <2> QED
    BY <2>1, <2>2 DEF Honest, SameBut, Claims, StrongFor
<1>2. ASSUME NEW t \in Takers, FetchCandidates(t) PROVE Honest'
  <2>1. job'[t].pc \notin Holding
    BY <1>2, <1>o, FetchMoves DEF Steps, Holding
  <2> QED
    BY <1>2, <2>1, FetchMoves, HonestStays
<1>3. ASSUME NEW t \in Takers, ReadYesterday(t) PROVE Honest'
  <2>1. /\ Moves(t) /\ UNCHANGED <<db, cache, read>>
        /\ job'[t].date = job[t].date /\ job[t].pc # "idle"
    BY <1>3, ReadYesterdayMoves DEF Steps
  <2>2. job[t].date - 1 \in Dates =>
          /\ Claims(job[t].date - 1, db[job[t].date - 1])
          /\ cache[job[t].date - 1] # Miss =>
               Claims(job[t].date - 1, cache[job[t].date - 1])
    BY DEF Honest
  <2>3. Claims(job[t].date - 1, NoRows)
    BY <1>d, <2>1, NoRowsClaimNothing
  <2>4. Claims(job[t].date - 1, job'[t].yesterday)
    BY <1>3, <2>2, <2>3, ReadYesterdayMoves
  <2> QED
    BY <2>1, <2>4, HonestStays
<1>4. ASSUME NEW t \in Takers, FillYesterday(t) PROVE Honest'
  <2>1. /\ Moves(t) /\ UNCHANGED <<db, read>> /\ job[t].date - 1 \in Dates
        /\ cache' = [cache EXCEPT ![job[t].date - 1] = job[t].yesterday]
        /\ job'[t].date = job[t].date /\ job'[t].yesterday = job[t].yesterday
        /\ job[t].pc \in Holding
    BY <1>4, FillYesterdayMoves DEF Steps, Holding
  <2>2. Claims(job[t].date - 1, job[t].yesterday)
    BY <1>h, <2>1
  <2>3. \A d \in Dates : cache'[d] = cache[d] \/ Claims(d, cache'[d])
    BY <1>r, <2>1, <2>2
  <2> QED
    BY <2>1, <2>2, <2>3, HonestStays
<1>5. ASSUME NEW t \in Takers, DeleteRows(t) PROVE Honest'
  <2>1. /\ Moves(t) /\ UNCHANGED <<cache, read>> /\ job[t].pc \in Holding
        /\ job'[t].yesterday = job[t].yesterday
        /\ job'[t].pc \in Holding => job'[t].date = job[t].date
    BY <1>5, <1>o, DeleteMoves DEF Steps, Holding
  <2>2. \A d \in Dates : db'[d] \in {db[d], NoRows}
    BY <1>5, <1>r, DeleteMoves
  <2> QED
    BY <1>h, <1>z, <2>1, <2>2, HonestStays
<1>6. ASSUME NEW t \in Takers, InvalidateDeleted(t) PROVE Honest'
  <2>1. /\ Moves(t) /\ UNCHANGED <<db, read>> /\ job[t].pc \in Holding
        /\ job'[t].yesterday = job[t].yesterday /\ job'[t].date = job[t].date
    BY <1>6, InvalidateDeletedMoves DEF Steps, Holding
  <2>2. \A d \in Dates : cache'[d] \in {cache[d], Miss}
    BY <1>6, <1>r, InvalidateDeletedMoves
  <2> QED
    BY <1>h, <2>1, <2>2, HonestStays
<1>7. ASSUME NEW t \in Takers, InsertRows(t) PROVE Honest'
  <2>1. /\ Moves(t) /\ UNCHANGED <<cache, read>> /\ job[t].pc \in Holding
        /\ job[t].date \in Dates /\ job[t].yesterday \in SnapRows
        /\ job'[t].pc \notin Holding
    BY <1>7, <1>d, <1>o, <1>r, InsertMoves DEF Steps, Holding, Locals
  <2> DEFINE new == NewRows(job[t].date, job[t].yesterday)
  <2>2. Claims(job[t].date, new)
    BY <1>h, <2>1, NewRowsClaim
  <2>3. Claims(job[t].date, db[job[t].date])
    BY <2>1 DEF Honest
  <2> HIDE DEF new
  <2>4. Claims(job[t].date, Upsert(db[job[t].date], new))
    BY <2>2, <2>3, UpsertClaims
  <2>5. \/ UNCHANGED db
        \/ db' = [db EXCEPT ![job[t].date] = Upsert(@, new)]
    BY <1>7, InsertMoves DEF new
  <2>6. \A d \in Dates : db'[d] = db[d] \/ Claims(d, db'[d])
    BY <1>r, <2>1, <2>4, <2>5
  <2> QED
    BY <2>1, <2>6, HonestStays
<1>8. ASSUME NEW t \in Takers, InvalidateInserted(t) PROVE Honest'
  <2>1. Moves(t) /\ UNCHANGED <<db, read>> /\ job'[t].pc \notin Holding
    BY <1>8, <1>o, InvalidateInsertedMoves
  <2>2. \A d \in Dates : cache'[d] \in {cache[d], Miss}
    BY <1>8, <1>r, InvalidateInsertedMoves
  <2> QED
    BY <2>1, <2>2, HonestStays
<1>9. ASSUME NEW t \in Takers, EndJob(t) PROVE Honest'
  <2>1. /\ Moves(t) /\ UNCHANGED <<cache, read>>
        /\ job'[t].pc \notin Holding
    BY <1>9, EndMoves, IdleJobTyped DEF Steps, Holding
  <2>2. \A d \in Dates : db'[d] \in {db[d], NoRows}
    BY <1>9, <1>r, EndMoves
  <2> QED
    BY <1>z, <2>1, <2>2, HonestStays
<1>10. ASSUME NEW t \in Takers, InvalidateOld(t) PROVE Honest'
  <2>1. Moves(t) /\ UNCHANGED <<db, read>> /\ job'[t].pc \notin Holding
    BY <1>10, InvalidateOldMoves, IdleJobTyped DEF Holding
  <2>2. \A d \in Dates : cache'[d] \in {cache[d], Miss}
    BY <1>10, InvalidateOldMoves
  <2> QED
    BY <2>1, <2>2, HonestStays
<1>11. ASSUME NEW r \in Readers, ReadRows(r) PROVE Honest'
  <2>1. PICK d \in Dates :
          read' = [read EXCEPT ![r] = [pc |-> "fill", date |-> d, rows |-> db[d]]]
    BY <1>11 DEF ReadRows
  <2>2. UNCHANGED <<db, cache, job>>
    BY <1>11 DEF ReadRows
  <2>3. \A q \in Readers : \/ read'[q] = read[q]
                           \/ read'[q].date = d /\ read'[q].rows = db[d]
    BY <2>1 DEF Types
  <2>4. \A q \in Readers : read'[q].pc = "fill" => Claims(read'[q].date, read'[q].rows)
    BY <2>3 DEF Honest
  <2> QED
    BY <2>2, <2>4 DEF Honest, Claims, StrongFor
<1>12. ASSUME NEW r \in Readers, FillRows(r) PROVE Honest'
  <2>1. /\ read[r].pc = "fill" /\ read[r].date \in Dates
        /\ cache' = [cache EXCEPT ![read[r].date] = read[r].rows]
        /\ UNCHANGED <<db, job>>
    BY <1>12 DEF FillRows, Types
  <2>2. Claims(read[r].date, read[r].rows)
    BY <2>1 DEF Honest
  <2>3. \A d \in Dates : cache'[d] # Miss => Claims(d, cache'[d])
    BY <1>r, <2>1, <2>2 DEF Honest
  <2>4. \A q \in Readers : read'[q] = read[q] \/ read'[q].pc = "idle"
    BY <1>12, IdleReadTyped DEF FillRows, Types
  <2>5. \A q \in Readers : read'[q].pc = "fill" => Claims(read'[q].date, read'[q].rows)
    BY <2>4 DEF Honest
  <2> QED
    BY <2>1, <2>3, <2>5 DEF Honest, Claims, StrongFor
<1>13. CASE CacheExpires
  BY <1>13 DEF CacheExpires, Honest, Claims, StrongFor
<1>14. CASE Restart
  <2>1. /\ UNCHANGED db /\ cache' = [d \in Dates |-> Miss]
        /\ \A t \in Takers : job'[t].pc \notin Holding
        /\ \A r \in Readers : read'[r].pc # "fill"
    BY <1>14, IdleJobTyped, IdleReadTyped DEF Restart, Holding
  <2> QED
    BY <2>1 DEF Honest, Claims, StrongFor
<1>15. CASE UNCHANGED vars
  BY <1>15 DEF vars, Honest, Claims, StrongFor
<1> QED
  BY <1>1, <1>2, <1>3, <1>4, <1>5, <1>6, <1>7, <1>8, <1>9, <1>10, <1>11, <1>12, <1>13,
     <1>14, <1>15 DEF Next, JobStep

\* No row claims more strong days in a row than there were, in the table or in the
\* cache, whatever jobs overlap, fail or are cut off, and however old what a job
\* has found in the cache is: a job may count on too few days, never too many.
THEOREM CountsNeverOverstated == Spec => []NeverOverstated
<1>1. Honest => NeverOverstated
  BY DEF Honest, NeverOverstated, Claims
<1>2. Init => Types /\ Honest
  BY TypesInit, HonestInit
<1>3. (Types /\ Honest) /\ [Next]_vars => (Types /\ Honest)'
  BY TypesNext, HonestNext
<1> QED
  BY <1>1, <1>2, <1>3, PTL DEF Spec

-------------------------------------------------------------------------------
(***************************************************************************)
(* The rows.                                                               *)
(***************************************************************************)
Rewrites(j, d) == j.pc \in {"invalidateDeleted", "insert"} /\ j.date = d

\* A date that has been stored has its rows, or a job has deleted them to put in
\* new ones: one that can only be kept from it by a failure.
Kept ==
  faults = 0 =>
    \A d \in done : Stored(db[d]) = Strong[d] \/ \E t \in Takers : Rewrites(job[t], d)

LEMMA StoredAreStrong ==
  ASSUME Types, Honest, NEW d \in Dates
  PROVE  Stored(db[d]) \subseteq Strong[d]
<1> SUFFICES ASSUME NEW s \in Stored(db[d]) PROVE s \in Strong[d]
  OBVIOUS
<1>1. s \in Stocks /\ db[d][s] \in Nat \ {0} /\ d \in Int
  BY DEF Stored, Types, SnapRows, Dates
<1>2. StrongFor(d, s, db[d][s])
  BY <1>1 DEF Honest, Claims
<1> QED
  BY <1>1, <1>2 DEF StrongFor

LEMMA InsertCompletes ==
  ASSUME NEW d \in Dates, NEW old \in SnapRows, NEW yesterday \in SnapRows,
         Stored(old) \subseteq Strong[d]
  PROVE  Stored(Upsert(old, NewRows(d, yesterday))) = Strong[d]
<1> DEFINE new == NewRows(d, yesterday)
<1>1. \A s \in Stocks : /\ s \in Strong[d] => new[s] # 0
                        /\ s \notin Strong[d] => new[s] = 0
  BY DEF NewRows, SnapRows
<1>2. \A s \in Stocks : s \notin Strong[d] => old[s] = 0
  BY DEF Stored
<1>3. Strong[d] \subseteq Stocks
  BY SnapshotAssumption
<1> HIDE DEF new
<1>4. \A s \in Stocks : Upsert(old, new)[s] # 0 <=> s \in Strong[d]
  BY <1>1, <1>2 DEF Upsert
<1> QED
  BY <1>3, <1>4 DEF Stored, new

LEMMA KeptStays ==
  ASSUME Kept, NEW t \in Takers, Moves(t), faults' = 0 => faults = 0,
         faults' = 0 =>
           \A d \in done' :
             \/ Stored(db'[d]) = Strong[d]
             \/ Rewrites(job'[t], d)
             \/ d \in done /\ db'[d] = db[d] /\ ~Rewrites(job[t], d)
  PROVE  Kept'
<1> SUFFICES ASSUME faults' = 0, NEW d \in done', d \in done, db'[d] = db[d],
                    ~Rewrites(job[t], d)
             PROVE  Stored(db'[d]) = Strong[d] \/ \E u \in Takers : Rewrites(job'[u], d)
  BY DEF Kept, Rewrites, Stored
<1>1. CASE \E u \in Takers : Rewrites(job[u], d)
  BY <1>1 DEF Moves
<1>2. CASE Stored(db[d]) = Strong[d]
  BY <1>2 DEF Stored
<1> QED
  BY <1>1, <1>2 DEF Kept

LEMMA KeptNext == Types /\ Honest /\ Kept /\ [Next]_vars => Kept'
<1> SUFFICES ASSUME Types, Honest, Kept, [Next]_vars PROVE Kept'
  OBVIOUS
<1>r. /\ db \in [Dates -> SnapRows] /\ faults \in Nat /\ done \subseteq Dates
      /\ \A t \in Takers : job[t] \in Locals /\ InRange(job[t])
  BY DEF Types
<1>d. \A t \in Takers : job[t].pc # "idle" => job[t].date \in Dates
  BY <1>r, SnapshotAssumption DEF InRange, Dates
<1>f. faults + 1 # 0
  BY <1>r
\* A step that is neither a failure nor a change of the table or of what a job
\* that has deleted does next.
<1>q. ASSUME NEW t \in Takers, Moves(t), UNCHANGED <<db, done>>,
             \/ faults' = faults + 1
             \/ UNCHANGED faults /\ \A d : Rewrites(job[t], d) => Rewrites(job'[t], d)
      PROVE  Kept'
  BY <1>f, <1>q, KeptStays
<1>1. ASSUME NEW t \in Takers, BeginJob(t) PROVE Kept'
  <2>1. \A u \in Takers : SameBut(job[u], job'[u]) \/ job[u].pc = "idle"
    BY <1>1, BeginMoves
  <2>2. UNCHANGED <<db, done, faults>>
    BY <1>1, BeginMoves
  <2> QED
    BY <2>1, <2>2 DEF Kept, SameBut, Rewrites, Stored
<1>2. ASSUME NEW t \in Takers, FetchCandidates(t) PROVE Kept'
  <2>1. \A d : ~Rewrites(job[t], d)
    BY <1>2, FetchMoves DEF Rewrites
  <2> QED
    BY <1>2, <1>q, <2>1, FetchMoves
<1>3. ASSUME NEW t \in Takers, ReadYesterday(t) PROVE Kept'
  <2>1. \A d : ~Rewrites(job[t], d)
    BY <1>3, ReadYesterdayMoves DEF Rewrites
  <2> QED
    BY <1>3, <1>q, <2>1, ReadYesterdayMoves
<1>4. ASSUME NEW t \in Takers, FillYesterday(t) PROVE Kept'
  <2>1. \A d : ~Rewrites(job[t], d)
    BY <1>4, FillYesterdayMoves DEF Rewrites
  <2> QED
    BY <1>4, <1>q, <2>1, FillYesterdayMoves
<1>5. ASSUME NEW t \in Takers, DeleteRows(t) PROVE Kept'
  <2>1. CASE UNCHANGED db /\ faults' = faults + 1
    BY <1>5, <1>q, <2>1, DeleteMoves
  <2>2. CASE /\ db' = [db EXCEPT ![job[t].date] = NoRows] /\ UNCHANGED faults
             /\ Steps(job[t], job'[t], "invalidateDeleted")
    <3>1. Moves(t) /\ UNCHANGED done /\ \A d : ~Rewrites(job[t], d)
      BY <1>5, DeleteMoves DEF Rewrites
    <3>2. \A d \in done : db'[d] = db[d] \/ Rewrites(job'[t], d)
      BY <1>r, <2>2 DEF Rewrites, Steps
    <3> QED
      BY <2>2, <3>1, <3>2, KeptStays
  <2> QED
    BY <1>5, <2>1, <2>2, DeleteMoves
<1>6. ASSUME NEW t \in Takers, InvalidateDeleted(t) PROVE Kept'
  <2>1. \A d : Rewrites(job[t], d) => Rewrites(job'[t], d)
    BY <1>6, InvalidateDeletedMoves DEF Rewrites, Steps
  <2> QED
    BY <1>6, <1>q, <2>1, InvalidateDeletedMoves
<1>7. ASSUME NEW t \in Takers, InsertRows(t) PROVE Kept'
  <2>1. CASE UNCHANGED <<db, done>> /\ faults' = faults + 1
    BY <1>7, <1>q, <2>1, InsertMoves
  <2>2. CASE /\ db' = [db EXCEPT ![job[t].date] =
                          Upsert(@, NewRows(job[t].date, job[t].yesterday))]
             /\ done' = done \cup {job[t].date} /\ UNCHANGED faults
    <3>1. /\ Moves(t) /\ job[t].date \in Dates /\ job[t].yesterday \in SnapRows
          /\ \A d : Rewrites(job[t], d) => d = job[t].date
      BY <1>7, <1>d, <1>r, InsertMoves DEF Rewrites, Locals
    <3>2. Stored(db'[job[t].date]) = Strong[job[t].date]
      BY <1>r, <2>2, <3>1, StoredAreStrong, InsertCompletes
    <3>3. \A d \in done' : \/ d = job[t].date
                           \/ d \in done /\ db'[d] = db[d] /\ ~Rewrites(job[t], d)
      BY <1>r, <2>2, <3>1
    <3> QED
      BY <2>2, <3>1, <3>2, <3>3, KeptStays
  <2> QED
    BY <1>7, <2>1, <2>2, InsertMoves
<1>8. ASSUME NEW t \in Takers, InvalidateInserted(t) PROVE Kept'
  <2>1. \A d : ~Rewrites(job[t], d)
    BY <1>8, InvalidateInsertedMoves DEF Rewrites
  <2> QED
    BY <1>8, <1>q, <2>1, InvalidateInsertedMoves
<1>9. ASSUME NEW t \in Takers, EndJob(t) PROVE Kept'
  <2>1. Moves(t) /\ \A d : ~Rewrites(job[t], d)
    BY <1>9, EndMoves DEF Rewrites
  <2>2. CASE UNCHANGED <<db, done>> /\ faults' \in {faults, faults + 1}
    BY <1>f, <2>1, <2>2, KeptStays
  <2>3. CASE /\ db' = [d \in Dates |-> IF d \in Old(job[t]) THEN NoRows ELSE db[d]]
             /\ done' = done \ Old(job[t]) /\ UNCHANGED faults
    <3>1. \A d \in done' : d \in done /\ db'[d] = db[d]
      BY <1>r, <2>3
    <3> QED
      BY <2>1, <2>3, <3>1, KeptStays
  <2> QED
    BY <1>9, <2>2, <2>3, EndMoves
<1>10. ASSUME NEW t \in Takers, InvalidateOld(t) PROVE Kept'
  <2>1. \A d : ~Rewrites(job[t], d)
    BY <1>10, InvalidateOldMoves DEF Rewrites
  <2> QED
    BY <1>10, <1>q, <2>1, InvalidateOldMoves
<1>11. ASSUME NEW r \in Readers, ReadRows(r) \/ FillRows(r) PROVE Kept'
  BY <1>11 DEF ReadRows, FillRows, Kept, Rewrites, Stored
<1>12. CASE CacheExpires
  BY <1>12 DEF CacheExpires, Kept, Rewrites, Stored
<1>13. CASE Restart
  BY <1>13, <1>f DEF Restart, Kept
<1>14. CASE UNCHANGED vars
  BY <1>14 DEF vars, Kept, Rewrites, Stored
<1> QED
  BY <1>1, <1>2, <1>3, <1>4, <1>5, <1>6, <1>7, <1>8, <1>9, <1>10, <1>11, <1>12, <1>13,
     <1>14 DEF Next, JobStep

\* As long as nothing fails, no interleaving of any number of jobs, clean-ups and
\* readers leaves a stored date without one of its rows, or with one too many.
THEOREM StoredDatesComplete == Spec => []SnapshotsComplete
<1>1. Kept => SnapshotsComplete
  BY DEF Kept, SnapshotsComplete, NoJob, Rewrites
<1>2. Init => Types /\ Honest /\ Kept
  BY TypesInit, HonestInit DEF Init, Kept
<1>3. (Types /\ Honest /\ Kept) /\ [Next]_vars => (Types /\ Honest /\ Kept)'
  BY TypesNext, HonestNext, KeptNext
<1> QED
  BY <1>1, <1>2, <1>3, PTL DEF Spec

-------------------------------------------------------------------------------
(***************************************************************************)
(* A range on its own.                                                     *)
(***************************************************************************)
Before(base, d) == IF d = 1 THEN NoRows ELSE base[d - 1]

Linked(base, d) == base[d] = NewRows(d, Before(base, d))

\* The dates the job is through with count on from the date before, and so will
\* the one it is at.
ChainOf(base, j) ==
  /\ j.pc # "invalidateOld" =>
       \A d \in j.from..j.date :
         d # j.date \/ j.pc \in {"invalidateInserted", "end"} => Linked(base, d)
  /\ j.pc \in Holding => j.yesterday = Before(base, j.date)
  /\ j.pc \in {"invalidateDeleted", "insert"} => base[j.date] = NoRows

Chained ==
  \A t \in Takers :
    job[t].pc # "idle" /\ job[t].alone =>
      /\ \A u \in Takers \ {t} : job[u].pc = "idle"
      /\ job[t].failed = {} /\ ~job[t].blind => ChainOf(db, job[t])

ChainBelow(base, j) == \A d \in j.from..j.date : d # j.date => Linked(base, d)

\* A change of the rows of its date leaves what the job is through with alone.
LEMMA BelowStays ==
  ASSUME NEW j \in Locals, j.from \in 1..LastDate, j.date \in 1..LastDate,
         LastDate \in Nat, db \in [Dates -> SnapRows],
         NEW rows, db' = [db EXCEPT ![j.date] = rows], ChainBelow(db, j)
  PROVE  /\ ChainBelow(db', j) /\ Before(db', j.date) = Before(db, j.date)
         /\ db'[j.date] = rows
<1>1. \A d \in Dates : d # j.date => db'[d] = db[d]
  OBVIOUS
<1>2. ASSUME NEW d \in j.from..j.date
      PROVE  Before(db', d) = Before(db, d)
  BY <1>1, <1>2 DEF Before, Dates
<1>3. ASSUME NEW d \in j.from..j.date, d # j.date
      PROVE  Linked(db', d)
  <2>1. d \in Dates /\ Linked(db, d)
    BY <1>3 DEF ChainBelow, Dates
  <2> QED
    BY <1>1, <1>2, <1>3, <2>1 DEF Linked
<1>4. Before(db', j.date) = Before(db, j.date)
  BY <1>1 DEF Before, Dates
<1> QED
  BY <1>3, <1>4 DEF ChainBelow, Dates

\* The job goes on to the next date of its range, or has come to the end of it.
LEMMA ChainGoesOn ==
  ASSUME NEW t \in Takers, UNCHANGED db, NEW ok, Over(job[t], job'[t], ok),
         job[t].from \in Int, job[t].date \in Int, job[t].pc # "invalidateOld",
         ChainOf(db, job[t]), Linked(db, job[t].date)
  PROVE  ChainOf(db', job'[t])
<1>1. \A d \in job[t].from..job[t].date : Linked(db, d)
  BY DEF ChainOf
<1>2. /\ job'[t].from = job[t].from /\ job'[t].pc \in {"fetch", "end"}
      /\ \/ job'[t].date = job[t].date + 1 /\ job'[t].pc = "fetch"
         \/ job'[t].date = job[t].date
  BY DEF Over, SameRange
<1>3. ASSUME NEW d \in job'[t].from..job'[t].date,
             d # job'[t].date \/ job'[t].pc \in {"invalidateInserted", "end"}
      PROVE  Linked(db', d)
  BY <1>1, <1>2, <1>3
<1> QED
  BY <1>2, <1>3 DEF ChainOf, Holding

LEMMA ChainedStays ==
  ASSUME Chained, NEW t \in Takers, Moves(t), job[t].pc # "idle",
         job'[t].pc # "idle" /\ job'[t].alone =>
           /\ job[t].alone
           /\ job'[t].failed = {} /\ ~job'[t].blind => ChainOf(db', job'[t])
  PROVE  Chained'
<1> SUFFICES ASSUME NEW u \in Takers, job'[u].pc # "idle", job'[u].alone
             PROVE  /\ \A v \in Takers \ {u} : job'[v].pc = "idle"
                    /\ job'[u].failed = {} /\ ~job'[u].blind => ChainOf(db', job'[u])
  BY DEF Chained, ChainOf, Linked, Before
<1>1. CASE u = t
  <2>1. \A v \in Takers \ {t} : job[v].pc = "idle"
    BY <1>1 DEF Chained
  <2> QED
    BY <1>1, <2>1 DEF Moves
<1>2. CASE u # t
  BY <1>2 DEF Chained, Moves
<1> QED
  BY <1>1, <1>2

LEMMA ChainedNext ==
  Types /\ Honest /\ CacheCurrent /\ Chained /\ [Next]_vars => Chained'
<1> SUFFICES ASSUME Types, Honest, CacheCurrent, Chained, [Next]_vars PROVE Chained'
  OBVIOUS
<1>r. /\ db \in [Dates -> SnapRows]
      /\ \A t \in Takers : job[t] \in Locals /\ InRange(job[t])
  BY DEF Types
<1>n. LastDate \in Nat
  BY SnapshotAssumption
<1>d. ASSUME NEW t \in Takers, job[t].pc # "idle"
      PROVE  /\ job[t].from \in 1..LastDate /\ job[t].date \in 1..LastDate
             /\ job[t].from <= job[t].date /\ job[t].from \in Int /\ job[t].date \in Int
             /\ job[t].yesterday \in SnapRows
             /\ job[t].failed \subseteq Dates
  BY <1>d, <1>n, <1>r DEF InRange, Dates, Locals
<1>o. ASSUME NEW t \in Takers, Moves(t), job[t].pc # "idle",
             Over(job[t], job'[t], FALSE)
      PROVE  Chained'
  <2>1. job'[t].failed # {} /\ job'[t].alone = job[t].alone
    BY <1>o DEF Over, SameRange
  <2> QED
    BY <1>o, <2>1, ChainedStays
\* A step of a job that is not yet, or no longer, at its table.
<1>s. ASSUME NEW t \in Takers, job[t].pc # "idle", NEW pc, Steps(job[t], job'[t], pc),
             job[t].blind => job'[t].blind,
             job[t].alone, job'[t].failed = {}, ~job'[t].blind
      PROVE  /\ ChainOf(db, job[t]) /\ job'[t].alone = job[t].alone
             /\ job'[t].from = job[t].from /\ job'[t].date = job[t].date
             /\ job'[t].pc = pc
  BY <1>s DEF Steps, SameRange, Chained
<1>1. ASSUME NEW t \in Takers, BeginJob(t) PROVE Chained'
  <2>1. /\ job' \in [Takers -> Locals] /\ job'[t].pc = "fetch"
        /\ job'[t].date = job'[t].from /\ (job'[t].alone => NoJob)
    BY <1>1, BeginMoves
  <2>2. \A u \in Takers \ {t} : /\ job'[u].pc = job[u].pc
                                /\ job[u].pc # "idle" => ~job'[u].alone
    BY <1>1, BeginMoves DEF SameBut
  <2>3. ChainOf(db', job'[t])
    <3>1. job'[t].from \in Int
      BY <2>1 DEF Locals, Days
    <3>2. \A d \in job'[t].from..job'[t].date : d = job'[t].date
      BY <2>1, <3>1
    <3> QED
      BY <2>1, <3>2 DEF ChainOf, Holding
  <2>4. ASSUME NEW u \in Takers, job'[u].pc # "idle", job'[u].alone
        PROVE  /\ \A v \in Takers \ {u} : job'[v].pc = "idle"
               /\ ChainOf(db', job'[u])
    <3>1. u = t
      BY <2>2, <2>4
    <3> QED
      BY <2>1, <2>2, <2>3, <2>4, <3>1 DEF NoJob
  <2> QED
    BY <2>4 DEF Chained, ChainOf, Linked, Before
<1>2. ASSUME NEW t \in Takers, FetchCandidates(t) PROVE Chained'
  <2>1. Moves(t) /\ job[t].pc = "fetch" /\ UNCHANGED db
    BY <1>2, FetchMoves
  <2>2. CASE Strong[job[t].date] = {} /\ Over(job[t], job'[t], TRUE)
    <3>1. SUFFICES ASSUME job[t].alone, job'[t].failed = {}, ~job'[t].blind
                   PROVE  ChainOf(db', job'[t])
      BY <2>1, <2>2, ChainedStays DEF Over, SameRange
    <3>2. ChainOf(db, job[t])
      BY <2>1, <2>2, <3>1 DEF Over, Chained
    <3>3. Linked(db, job[t].date)
      <4>1. job[t].date \in Dates
        BY <1>d, <2>1 DEF Dates
      <4>2. \A s \in Stocks : db[job[t].date][s] = 0
        BY <2>2, <4>1, StoredAreStrong DEF Stored
      <4>3. db[job[t].date] = [s \in Stocks |-> 0]
        BY <1>r, <4>1, <4>2 DEF SnapRows
      <4>4. NewRows(job[t].date, Before(db, job[t].date)) = [s \in Stocks |-> 0]
        BY <2>2 DEF NewRows
      <4> QED
        BY <4>3, <4>4 DEF Linked
    <3> QED
      BY <2>1, <2>2, <3>2, <3>3, ChainGoesOn, <1>d
  <2>3. CASE Steps(job[t], job'[t], "yesterday") /\ job'[t].blind = job[t].blind
    <3>1. SUFFICES ASSUME job[t].alone, job'[t].failed = {}, ~job'[t].blind
                   PROVE  ChainOf(db', job'[t])
      BY <2>1, <2>3, ChainedStays DEF Steps, SameRange
    <3>2. /\ ChainOf(db, job[t]) /\ job'[t].from = job[t].from
          /\ job'[t].date = job[t].date /\ job'[t].pc = "yesterday"
      BY <1>s, <2>1, <2>3, <3>1
    <3> QED
      BY <2>1, <3>2 DEF ChainOf, Holding
  <2>4. CASE Over(job[t], job'[t], FALSE)
    BY <1>o, <2>1, <2>4
  <2> QED
    BY <1>2, <2>2, <2>3, <2>4, FetchMoves
<1>3. ASSUME NEW t \in Takers, ReadYesterday(t) PROVE Chained'
  <2>1. /\ Moves(t) /\ job[t].pc = "yesterday" /\ UNCHANGED db
        /\ job[t].blind => job'[t].blind
        /\ \E pc \in {"delete", "fill"} : Steps(job[t], job'[t], pc)
    BY <1>3, ReadYesterdayMoves
  <2>2. SUFFICES ASSUME job[t].alone, job'[t].failed = {}, ~job'[t].blind
                 PROVE  ChainOf(db', job'[t])
    BY <2>1, ChainedStays DEF Steps, SameRange
  <2>3. /\ ChainOf(db, job[t]) /\ job'[t].from = job[t].from
        /\ job'[t].date = job[t].date /\ job'[t].pc \in {"delete", "fill"}
    BY <1>s, <2>1, <2>2
  <2>4. job'[t].yesterday = Before(db, job[t].date)
    <3>1. CASE job[t].date = 1 /\ job'[t].yesterday = NoRows
      BY <3>1 DEF Before
    <3>2. CASE /\ job[t].date - 1 \in Dates
               /\ job'[t].yesterday = db[job[t].date - 1]
      BY <1>d, <1>n, <2>1, <3>2 DEF Before, Dates
    <3>3. CASE /\ job[t].date - 1 \in Dates /\ job[t].date - 1 \notin behind
               /\ cache[job[t].date - 1] # Miss
               /\ job'[t].yesterday = cache[job[t].date - 1]
      <4>1. \A u \in Takers, d \in Dates : ~Invalidates(job[u], d)
        BY <2>1, <2>2 DEF Chained, Invalidates
      <4>2. cache[job[t].date - 1] = db[job[t].date - 1]
        BY <3>3, <4>1, CurrentIs
      <4> QED
        BY <3>2, <3>3, <4>2
    <3> QED
      BY <1>3, <2>2, <3>1, <3>2, <3>3, ReadYesterdayMoves
  <2> QED
    BY <2>1, <2>3, <2>4 DEF ChainOf, Holding
<1>4. ASSUME NEW t \in Takers, FillYesterday(t) PROVE Chained'
  <2>1. /\ Moves(t) /\ job[t].pc = "fill" /\ UNCHANGED db
        /\ Steps(job[t], job'[t], "delete")
        /\ job'[t].yesterday = job[t].yesterday /\ job'[t].blind = job[t].blind
    BY <1>4, FillYesterdayMoves
  <2>2. SUFFICES ASSUME job[t].alone, job'[t].failed = {}, ~job'[t].blind
                 PROVE  ChainOf(db', job'[t])
    BY <2>1, ChainedStays DEF Steps, SameRange
  <2>3. /\ ChainOf(db, job[t]) /\ job'[t].from = job[t].from
        /\ job'[t].date = job[t].date /\ job'[t].pc = "delete"
    BY <1>s, <2>1, <2>2
  <2> QED
    BY <2>1, <2>3 DEF ChainOf, Holding
<1>5. ASSUME NEW t \in Takers, DeleteRows(t) PROVE Chained'
  <2>1. /\ Moves(t) /\ job[t].pc = "delete"
        /\ job'[t].yesterday = job[t].yesterday /\ job'[t].blind = job[t].blind
    BY <1>5, DeleteMoves
  <2>2. CASE Over(job[t], job'[t], FALSE)
    BY <1>o, <2>1, <2>2
  <2>3. CASE /\ db' = [db EXCEPT ![job[t].date] = NoRows]
             /\ Steps(job[t], job'[t], "invalidateDeleted")
    <3>1. SUFFICES ASSUME job[t].alone, job'[t].failed = {}, ~job'[t].blind
                   PROVE  ChainOf(db', job'[t])
      BY <2>1, <2>3, ChainedStays DEF Steps, SameRange
    <3>2. /\ ChainOf(db, job[t]) /\ job'[t].from = job[t].from
          /\ job'[t].date = job[t].date /\ job'[t].pc = "invalidateDeleted"
      BY <1>s, <2>1, <2>3, <3>1
    <3>3. ChainBelow(db, job[t]) /\ job[t].yesterday = Before(db, job[t].date)
      BY <2>1, <3>2 DEF ChainOf, ChainBelow, Holding
    <3>4. /\ ChainBelow(db', job[t]) /\ Before(db', job[t].date) = Before(db, job[t].date)
          /\ db'[job[t].date] = NoRows
      BY <1>d, <1>n, <1>r, <2>1, <2>3, <3>3, BelowStays
    <3> QED
      BY <2>1, <3>2, <3>3, <3>4 DEF ChainOf, ChainBelow, Holding
  <2> QED
    BY <1>5, <2>2, <2>3, DeleteMoves
<1>6. ASSUME NEW t \in Takers, InvalidateDeleted(t) PROVE Chained'
  <2>1. /\ Moves(t) /\ job[t].pc = "invalidateDeleted" /\ UNCHANGED db
        /\ Steps(job[t], job'[t], "insert")
        /\ job'[t].yesterday = job[t].yesterday /\ job'[t].blind = job[t].blind
    BY <1>6, InvalidateDeletedMoves
  <2>2. SUFFICES ASSUME job[t].alone, job'[t].failed = {}, ~job'[t].blind
                 PROVE  ChainOf(db', job'[t])
    BY <2>1, ChainedStays DEF Steps, SameRange
  <2>3. /\ ChainOf(db, job[t]) /\ job'[t].from = job[t].from
        /\ job'[t].date = job[t].date /\ job'[t].pc = "insert"
    BY <1>s, <2>1, <2>2
  <2> QED
    BY <2>1, <2>3 DEF ChainOf, Holding
<1>7. ASSUME NEW t \in Takers, InsertRows(t) PROVE Chained'
  <2>1. /\ Moves(t) /\ job[t].pc = "insert"
        /\ job'[t].yesterday = job[t].yesterday /\ job'[t].blind = job[t].blind
    BY <1>7, InsertMoves
  <2>2. CASE Over(job[t], job'[t], FALSE)
    BY <1>o, <2>1, <2>2
  <2>3. CASE /\ db' = [db EXCEPT ![job[t].date] =
                          Upsert(@, NewRows(job[t].date, job[t].yesterday))]
             /\ Steps(job[t], job'[t], "invalidateInserted")
    <3>1. SUFFICES ASSUME job[t].alone, job'[t].failed = {}, ~job'[t].blind
                   PROVE  ChainOf(db', job'[t])
      BY <2>1, <2>3, ChainedStays DEF Steps, SameRange
    <3>2. /\ ChainOf(db, job[t]) /\ job'[t].from = job[t].from
          /\ job'[t].date = job[t].date /\ job'[t].pc = "invalidateInserted"
      BY <1>s, <2>1, <2>3, <3>1
    <3>3. /\ ChainBelow(db, job[t]) /\ job[t].yesterday = Before(db, job[t].date)
          /\ db[job[t].date] = NoRows
      BY <2>1, <3>2 DEF ChainOf, ChainBelow, Holding
    <3>4. ChainBelow(db', job[t]) /\ Before(db', job[t].date) = Before(db, job[t].date)
      BY <1>d, <1>n, <1>r, <2>1, <2>3, <3>3, BelowStays
    <3>5. job[t].date \in Dates
      BY <1>d, <2>1 DEF Dates
    <3>6. Linked(db', job[t].date)
      <4> DEFINE new == NewRows(job[t].date, job[t].yesterday)
      <4>1. db'[job[t].date] = Upsert(NoRows, new)
        BY <1>r, <2>3, <3>3, <3>5
      <4>2. new \in SnapRows
        BY <1>d, <2>1, <3>5, NewRowsTyped
      <4>3. Upsert(NoRows, new) = new
        <5> HIDE DEF new
        <5> QED
          BY <4>2, NoRowsTyped DEF Upsert, SnapRows
      <4> QED
        BY <3>3, <3>4, <4>1, <4>3 DEF Linked
    <3> QED
      BY <3>2, <3>4, <3>6 DEF ChainOf, ChainBelow, Holding
  <2> QED
    BY <1>7, <2>2, <2>3, InsertMoves
<1>8. ASSUME NEW t \in Takers, InvalidateInserted(t) PROVE Chained'
  <2>1. /\ Moves(t) /\ job[t].pc = "invalidateInserted" /\ UNCHANGED db
        /\ Over(job[t], job'[t], TRUE)
    BY <1>8, InvalidateInsertedMoves
  <2>2. SUFFICES ASSUME job[t].alone, job'[t].failed = {}, ~job'[t].blind
                 PROVE  ChainOf(db', job'[t])
    BY <2>1, ChainedStays DEF Over, SameRange
  <2>3. ChainOf(db, job[t])
    BY <2>1, <2>2 DEF Over, Chained
  <2>4. Linked(db, job[t].date)
    BY <1>d, <2>1, <2>3 DEF ChainOf
  <2> QED
    BY <1>d, <2>1, <2>3, <2>4, ChainGoesOn
<1>9. ASSUME NEW t \in Takers, EndJob(t) PROVE Chained'
  <2>1. /\ Moves(t) /\ job[t].pc = "end"
        /\ \/ Steps(job[t], job'[t], "invalidateOld")
           \/ job'[t].pc = "idle"
    BY <1>9, EndMoves, IdleJobTyped
  <2>2. job'[t].pc # "idle" => job'[t].pc = "invalidateOld" /\ job'[t].alone = job[t].alone
    BY <2>1 DEF Steps, SameRange
  <2> QED
    BY <2>1, <2>2, ChainedStays DEF ChainOf, Holding
<1>10. ASSUME NEW t \in Takers, InvalidateOld(t) PROVE Chained'
  BY <1>10, InvalidateOldMoves, IdleJobTyped, ChainedStays
<1>11. ASSUME NEW r \in Readers, ReadRows(r) \/ FillRows(r) PROVE Chained'
  BY <1>11 DEF ReadRows, FillRows, Chained, ChainOf, Linked, Before
<1>12. CASE CacheExpires
  BY <1>12 DEF CacheExpires, Chained, ChainOf, Linked, Before
<1>13. CASE Restart
  BY <1>13, IdleJobTyped DEF Restart, Chained
<1>14. CASE UNCHANGED vars
  BY <1>14 DEF vars, Chained, ChainOf, Linked, Before
<1> QED
  BY <1>1, <1>2, <1>3, <1>4, <1>5, <1>6, <1>7, <1>8, <1>9, <1>10, <1>11, <1>12, <1>13,
     <1>14 DEF Next, JobStep

\* A range request that nobody interferes with, and none of whose reads of the
\* day before failed or was behind, leaves an unbroken count over its dates, however
\* many there are and whatever readers cache while it runs.
THEOREM RangesChain == Spec => []RangeIsChained
<1>1. Types /\ Chained => RangeIsChained
  <2> SUFFICES ASSUME Types, Chained, NEW t \in Takers, job[t].pc = "end", job[t].alone,
                      job[t].failed = {}, ~job[t].blind, NEW d \in job[t].from..job[t].to
               PROVE  db[d] = NewRows(d, IF d = 1 THEN NoRows ELSE db[d - 1])
    BY DEF RangeIsChained
  <2>1. job[t].date = job[t].to /\ ChainOf(db, job[t])
    BY DEF Types, InRange, Chained
  <2> QED
    BY <2>1 DEF ChainOf, Linked, Before
<1>2. Init => Types /\ Honest /\ CacheCurrent /\ Held /\ Chained
  <2>1. Init => Chained
    BY IdleJobTyped DEF Init, Chained
  <2> QED
    BY <2>1, TypesInit, HonestInit, CacheInit
<1>3. (Types /\ Honest /\ CacheCurrent /\ Held /\ Chained) /\ [Next]_vars
        => (Types /\ Honest /\ CacheCurrent /\ Held /\ Chained)'
  BY TypesNext, HonestNext, CacheNext, ChainedNext
<1> QED
  BY <1>1, <1>2, <1>3, PTL DEF Spec
===============================================================================
