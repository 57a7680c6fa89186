------------------------------ MODULE DayCounts ------------------------------
(***************************************************************************)
(* How many days in a row a stock has been at its limit, and above 5%:     *)
(* the numbers TakeSnapshot files with a day (internal/service/snapshot),  *)
(* and those the view of the pools shows during the next one               *)
(* (internal/service/pool/pool_service.go), which counts on from the rows  *)
(* of yesterday.  One stock, and the exchange's own count beside it.       *)
(***************************************************************************)
EXTENDS Integers

CONSTANT MaxDays \* bound on days

ASSUME MaxDaysAssumption == MaxDays \in Nat

VARIABLES
  day,
  today,   \* "sealed", "strong" (5% or more) or "weak"
  sealed,  \* how many days in a row the stock was sealed when yesterday closed
  strong,  \* and how many it was up 5% or more, which a sealed stock is
  filed,   \* the row of yesterday's snapshot
  tonight, \* the row of today's, once it is taken
  listed,  \* history: yesterday's snapshot was taken, with the exchange's list
  kept     \* history: today's was taken, with the list and yesterday's rows

dayVars == <<day, today, sealed, strong, filed, tonight, listed, kept>>

Classes == {"sealed", "strong", "weak"}
NoRow == [limitUp |-> FALSE, times |-> 0, days |-> 0]
HasRow(row) == row.days > 0

DayInit ==
  /\ day = 0
  /\ today \in Classes
  /\ sealed = 0
  /\ strong = 0
  /\ filed = NoRow
  /\ tonight = NoRow
  /\ listed = TRUE
  /\ kept = [list |-> FALSE, rows |-> FALSE]

\* LimitTimes of the exchange's list, and the days in a row, today included.
LimitTimes == IF today = "sealed" THEN sealed + 1 ELSE 0
StrongDays == IF today = "weak" THEN 0 ELSE strong + 1

-------------------------------------------------------------------------------
\* Mutant: the days above 5% are taken for the times at the limit.
Bug_LiveTimes == IF filed.limitUp THEN filed.days + 1 ELSE 1

\* The items of the limit-up pool: yesterday's row counts on if it was sealed.
LiveTimes == IF filed.limitUp THEN filed.times + 1 ELSE 1

\* The items of either pool.
LiveDays == IF HasRow(filed) THEN filed.days + 1 ELSE 1

\* Mutant: today counts, however the stock is doing.
Bug_CarriedDays == filed.days + 1

\* The list of yesterday's strong stocks: today counts from 5%.
CarriedDays == IF today = "weak" THEN filed.days ELSE filed.days + 1

\* The same list when today is a past day: it may have a row of its own by then, and
\* is counted on from the row before all the same.
PastDays == IF today = "weak" THEN filed.days ELSE filed.days + 1

\* Without the list the detector still finds that the stock is sealed, and its number
\* is zero.
FiledTimes(list) == IF list THEN LimitTimes ELSE 0

\* Yesterday's rows may not be readable, which is not noticed.
FiledDays(rows) == IF rows /\ HasRow(filed) THEN filed.days + 1 ELSE 1

Trade ==
  /\ today' \in Classes
  /\ tonight = NoRow
  /\ UNCHANGED <<day, sealed, strong, filed, tonight, listed, kept>>

\* The snapshot of a stock above 5%, taken when the day is over, perhaps again.
TakeSnapshot ==
  /\ today # "weak"
  /\ \E list \in BOOLEAN, rows \in BOOLEAN :
       /\ tonight' = [limitUp |-> today = "sealed",
                      times |-> FiledTimes(list), days |-> FiledDays(rows)]
       /\ kept' = [list |-> list, rows |-> rows]
  /\ UNCHANGED <<day, today, sealed, strong, filed, listed>>

NextDay ==
  /\ day < MaxDays
  /\ day' = day + 1
  /\ sealed' = LimitTimes
  /\ strong' = StrongDays
  /\ filed' = tonight
  /\ listed' = (today = "weak" \/ kept.list)
  /\ today' \in Classes
  /\ tonight' = NoRow
  /\ kept' = [list |-> FALSE, rows |-> FALSE]

DayNext == Trade \/ TakeSnapshot \/ NextDay

DaySpec == DayInit /\ [][DayNext]_dayVars

-------------------------------------------------------------------------------
\* What the view shows is never more than what there was: missed snapshots, rows that
\* cannot be read and lists that are not there make the numbers too small, and no day
\* is counted before the stock is above 5% on it.
LiveNeverOverstated ==
  /\ today = "sealed" => LiveTimes <= LimitTimes
  /\ today # "weak" => LiveDays <= StrongDays
  /\ HasRow(filed) =>
       CarriedDays <= (IF today = "weak" THEN strong ELSE StrongDays)

\* The numbers shown all day are the ones filed at night, if the snapshot has its data:
\* the view counts the limit-ups itself, from a row that had the exchange's number,
\* and comes to the number the exchange gives.  A past day shows the stock twice,
\* from its own row and from the row before: with the same number of days.
LiveIsFiled ==
  HasRow(tonight) =>
    /\ (kept.list /\ listed /\ today = "sealed") => tonight.times = LiveTimes
    /\ kept.rows => tonight.days = LiveDays
    /\ (kept.rows /\ HasRow(filed)) => tonight.days = PastDays
===============================================================================
