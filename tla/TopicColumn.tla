----------------------------- MODULE TopicColumn -----------------------------
(***************************************************************************)
(* The topic a past day shows a stock under: the column topic_id of the    *)
(* stock's snapshots.  TakeSnapshot writes it with a row it has classified *)
(* before; an edit of the stock's topics writes it again in every row      *)
(* there is (internal/service/topic/snapshot_topic_sync.go); the view of a *)
(* past day reads it through the cache of snapshots (reclassifyHistorical  *)
(* of internal/service/pool/pool_service.go).                              *)
(*                                                                         *)
(* One stock, above 5% on each of the days, which has relations of Jiuyan  *)
(* that stay, so that no cached list is empty.  ClassifyStock goes by the  *)
(* relations that are cached, if any: the latest manual one comes first,   *)
(* and without any the topic depends on the day.  Topics an editor gives   *)
(* are none of Jiuyan's, and no topic is ever deleted.  RelationStore has  *)
(* the relations in more detail: here an editor reads the table and caches *)
(* the rows in one step, and readers in two.                               *)
(***************************************************************************)
EXTENDS Integers, FiniteSets

CONSTANTS
  Dates,
  ByHand,     \* topics an editor may give
  Attributed, \* the topic attribution finds, by day
  NoDay,
  Unfiled,    \* no topic in a row
  RowLess,    \* no row
  Uncached,   \* no entry in the cache
  Views,      \* concurrent views of past days
  Jobs,       \* concurrent snapshot jobs
  Desks,      \* concurrent editors of the stock
  Browsers,   \* concurrent readers of its relations
  MaxWrites   \* bound on edits and jobs

ASSUME ColumnAssumption ==
  /\ Dates \subseteq Int
  /\ Attributed = [d \in Dates |-> Attributed[d]]
  /\ MaxWrites \in Nat
  /\ {RowLess, Uncached} \cap (ByHand \cup {Attributed[d] : d \in Dates} \cup {Unfiled}) = {}
  /\ RowLess # Uncached

VARIABLES
  manual,  \* of each topic, when it was given by hand: 0 for never, or no more
  known,   \* the cached relations, a set of one or none
  browse,  \* [at, rows] of each reader of relations
  column,  \* topic_id by day
  pages,   \* the cached rows by day, or Uncached
  view,    \* [at, day, topic, sure] of each view
  job,     \* [at, day, topic] of each job
  desk,    \* [at, left, day, topic, clear] of each edit
  writes,
  outdated, \* history: days the cache may have an old row of, cached by a reader
           \* who had read it before it changed
  edited   \* history: an edit is the last that was done, and was clear

relationVars == <<manual, known, browse>>
columnVars == <<relationVars, column, pages, view, job, desk, writes, outdated, edited>>

Filings == ByHand \cup {Attributed[d] : d \in Dates} \cup {Unfiled}

NoViewing == [at |-> "idle", day |-> NoDay, topic |-> RowLess, sure |-> FALSE]
NoTaking == [at |-> "idle", day |-> NoDay, topic |-> RowLess]

\* clear: no other write has been under way, and no cached relations have placed the stock
\* otherwise than those of the table.
NoEdit ==
  [at |-> "idle", left |-> {}, day |-> NoDay, topic |-> RowLess, clear |-> FALSE]

Times == [ByHand -> Nat]
NoTimes == [t \in ByHand |-> 0]
NoBrowsing == [at |-> "idle", rows |-> NoTimes]

ColumnInit ==
  /\ manual = NoTimes
  /\ known = {}
  /\ browse = [b \in Browsers |-> NoBrowsing]
  /\ column = Attributed
  /\ pages = [d \in Dates |-> Uncached]
  /\ view = [v \in Views |-> NoViewing]
  /\ job = [j \in Jobs |-> NoTaking]
  /\ desk = [e \in Desks |-> NoEdit]
  /\ writes = 0
  /\ outdated = {}
  /\ edited = FALSE

\* pickLatestManualRelation: of relations given in the same second, any.
Latest(rows) == {t \in ByHand : rows[t] # 0 /\ \A u \in ByHand : rows[u] <= rows[t]}

\* ClassifyStock of the stock for a day, by some relations.
Placements(rows, d) == IF Latest(rows) = {} THEN {Attributed[d]} ELSE Latest(rows)

\* GetByTsCode: the cached relations, or those of the table, which are cached then.
Relations == IF known = {} THEN {manual} ELSE known

\* Relations that place the stock otherwise than those of the table.
Mislead(rows) == Latest(rows) # Latest(manual)

NoWriter == (\A j \in Jobs : job[j] = NoTaking) /\ (\A e \in Desks : desk[e] = NoEdit)

\* Dates somebody has read the row of, and not cached it yet.
Unread == {view[v].day : v \in {v \in Views : view[v].at = "fill"}}

\* A write has begun: edits under way are not clear any more, and no view is sure.
Disturb ==
  /\ edited' = FALSE
  /\ view' = [v \in Views |-> [view[v] EXCEPT !.sure = FALSE]]

\* The row of a day changes.
Write(d, topic) ==
  /\ column' = [column EXCEPT ![d] = topic]
  /\ outdated' = outdated \cup ({d} \cap Unread)

\* invalidateDate
Dropped(d) ==
  /\ pages' = [pages EXCEPT ![d] = Uncached]
  /\ outdated' = outdated \ ({d} \ Unread)

-------------------------------------------------------------------------------
\* TakeSnapshot classifies first, by answers of the LLM or by heat, and may find none.
ClassifyCandidate(j) ==
  /\ job[j] = NoTaking
  /\ writes < MaxWrites
  /\ writes' = writes + 1
  /\ \E d \in Dates, t \in Filings :
       job' = [job EXCEPT ![j] = [at |-> "delete", day |-> d, topic |-> t]]
  /\ desk' = [e \in Desks |-> [desk[e] EXCEPT !.clear = FALSE]]
  /\ Disturb
  /\ UNCHANGED <<relationVars, column, pages, outdated>>

DeleteRow(j) ==
  /\ job[j].at = "delete"
  /\ Write(job[j].day, RowLess)
  /\ job' = [job EXCEPT ![j].at = "dropDeleted"]
  /\ UNCHANGED <<relationVars, pages, view, desk, writes, edited>>

\* A row another job has put in in between is updated, but for its topic_id.
InsertRow(j) ==
  /\ job[j].at = "insert"
  /\ LET d == job[j].day
     IN  Write(d, IF column[d] = RowLess THEN job[j].topic ELSE column[d])
  /\ job' = [job EXCEPT ![j].at = "dropInserted"]
  /\ UNCHANGED <<relationVars, pages, view, desk, writes, edited>>

DropRows(j) ==
  /\ job[j].at \in {"dropDeleted", "dropInserted"}
  /\ Dropped(job[j].day)
  /\ job' = [job EXCEPT ![j] =
       IF @.at = "dropDeleted" THEN [@ EXCEPT !.at = "insert"] ELSE NoTaking]
  /\ UNCHANGED <<relationVars, column, view, desk, writes, edited>>

-------------------------------------------------------------------------------
BeginEdit(e, at) ==
  /\ desk[e] = NoEdit
  /\ writes < MaxWrites
  /\ writes' = writes + 1
  /\ desk' = [f \in Desks |->
       IF f = e THEN [NoEdit EXCEPT !.at = at, !.clear = NoWriter]
       ELSE [desk[f] EXCEPT !.clear = FALSE]]
  /\ Disturb
  /\ UNCHANGED <<known, browse, column, pages, job, outdated>>

\* Upsert of a manual relation.  Times are in seconds; 1 is the zero time.
AddManualRelation(e, t) ==
  /\ BeginEdit(e, "refresh")
  /\ \E second \in 2..(writes + 2) : manual' = [manual EXCEPT ![t] = second]

DeleteRelation(e, t) ==
  /\ BeginEdit(e, "warmup")
  /\ manual' = [manual EXCEPT ![t] = 0]

\* refreshTsCodes, after an add: the relations are read and cached.
RefreshRelations(e) ==
  /\ desk[e].at = "refresh"
  /\ known' = {manual}
  /\ desk' = [desk EXCEPT ![e].at = "rows"]
  /\ UNCHANGED <<manual, browse, column, pages, view, job, writes, outdated, edited>>

\* warmupSingle, after a delete, returns what is cached: with the deleted relation.
WarmUp(e) ==
  /\ desk[e].at = "warmup"
  /\ known' = Relations
  /\ desk' = [desk EXCEPT ![e].at = "rows",
                          ![e].clear = @ /\ \A rows \in Relations : ~Mislead(rows)]
  /\ UNCHANGED <<manual, browse, column, pages, view, job, writes, outdated, edited>>

\* GetByTsCode: the days to go through, from the table.
FindRows(e) ==
  /\ desk[e].at = "rows"
  /\ desk' = [desk EXCEPT ![e].at = "next", ![e].left = {d \in Dates : column[d] # RowLess}]
  /\ UNCHANGED <<relationVars, column, pages, view, job, writes, outdated, edited>>

Oldest(e) == {d \in desk[e].left : \A c \in desk[e].left : d <= c}

\* The oldest is next; ClassifyStock places the stock on it.  After the last, the editor
\* is answered with the relations.
PlaceRow(e) ==
  /\ desk[e].at = "next"
  /\ known' = Relations
  /\ \/ /\ \E d \in Oldest(e), rows \in Relations : \E t \in Placements(rows, d) :
             desk' = [desk EXCEPT ![e].at = "update", ![e].day = d, ![e].topic = t]
        /\ UNCHANGED edited
     \/ /\ desk[e].left = {}
        /\ desk' = [desk EXCEPT ![e] = NoEdit]
        /\ edited' = desk[e].clear
  /\ UNCHANGED <<manual, browse, column, pages, view, job, writes, outdated>>

\* UpdateTopicIDByTsCodeAndDate, which does nothing where the row is gone.
UpdateRow(e) ==
  /\ desk[e].at = "update"
  /\ LET d == desk[e].day
     IN  Write(d, IF column[d] = RowLess THEN RowLess ELSE desk[e].topic)
  /\ desk' = [desk EXCEPT ![e].at = "drop"]
  /\ UNCHANGED <<relationVars, pages, view, job, writes, edited>>

\* Mutant: the cached rows stay.
Bug_DropRow(e) ==
  /\ desk[e].at = "drop"
  /\ desk' = [desk EXCEPT ![e].at = "next", ![e].left = @ \ {desk[e].day}]
  /\ UNCHANGED <<relationVars, column, pages, view, job, writes, outdated, edited>>

DropRow(e) ==
  /\ desk[e].at = "drop"
  /\ Dropped(desk[e].day)
  /\ desk' = [desk EXCEPT ![e].at = "next", ![e].left = @ \ {desk[e].day}]
  /\ UNCHANGED <<relationVars, column, view, job, writes, edited>>

\* An error of the database ends the edit, or the job, where it is.
WriteFails ==
  /\ \/ \E e \in Desks :
          /\ desk[e].at \in {"refresh", "warmup", "rows", "next", "update"}
          /\ desk' = [desk EXCEPT ![e] = NoEdit]
          /\ UNCHANGED job
     \/ \E j \in Jobs :
          /\ job[j].at \in {"delete", "insert"}
          /\ job' = [job EXCEPT ![j] = NoTaking]
          /\ UNCHANGED desk
  /\ UNCHANGED <<relationVars, column, pages, view, writes, outdated, edited>>

-------------------------------------------------------------------------------
\* Readers of relations have found no entry, at some time before: there was none as the
\* process began.  They read the table, ...
BrowseStored(b) ==
  /\ browse[b].at = "idle"
  /\ browse' = [browse EXCEPT ![b] = [at |-> "fill", rows |-> manual]]
  /\ UNCHANGED <<manual, known, column, pages, view, job, desk, writes, outdated, edited>>

\* ... or, for heat classification, what somebody else has cached meanwhile.
BrowseCached(b) ==
  /\ browse[b].at = "idle"
  /\ \E rows \in known : browse' = [browse EXCEPT ![b] = [at |-> "again", rows |-> rows]]
  /\ UNCHANGED <<manual, known, column, pages, view, job, desk, writes, outdated, edited>>

\* Relations are cached, while edits classify by what is cached.
Caches(rows) ==
  /\ known' = {rows}
  /\ desk' = [e \in Desks |->
       IF desk[e].at \in {"idle", "refresh", "warmup"} \/ ~Mislead(rows) THEN desk[e]
       ELSE [desk[e] EXCEPT !.clear = FALSE]]
  /\ UNCHANGED <<manual, column, pages, view, job, writes, outdated, edited>>

\* The repository caches what it has read; heat classification will once more.
FillRelations(b) ==
  /\ browse[b].at = "fill"
  /\ Caches(browse[b].rows)
  /\ browse' \in {[browse EXCEPT ![b].at = "again"], [browse EXCEPT ![b] = NoBrowsing]}

\* The copies of loadStockTopicsBatch lack updated_at.
WithoutTimes(rows) == [t \in ByHand |-> IF rows[t] = 0 THEN 0 ELSE 1]

LoadStockTopics(b) ==
  /\ browse[b].at = "again"
  /\ Caches(WithoutTimes(browse[b].rows))
  /\ browse' = [browse EXCEPT ![b] = NoBrowsing]

-------------------------------------------------------------------------------
\* reclassifyHistorical of a day, once the day's quotes are there: GetByDate.
ReadPage(v) ==
  /\ view[v].at = "idle"
  /\ \E d \in Dates :
       view' = [view EXCEPT ![v] =
         [at |-> IF pages[d] = Uncached THEN "read" ELSE "show", day |-> d,
          topic |-> pages[d], sure |-> edited /\ (pages[d] = Uncached \/ d \notin outdated)]]
  /\ UNCHANGED <<relationVars, column, pages, job, desk, writes, outdated, edited>>

ReadColumn(v) ==
  /\ view[v].at = "read"
  /\ view' = [view EXCEPT ![v].at = "fill", ![v].topic = column[view[v].day]]
  /\ UNCHANGED <<relationVars, column, pages, job, desk, writes, outdated, edited>>

FillPage(v) ==
  /\ view[v].at = "fill"
  /\ pages' = [pages EXCEPT ![view[v].day] = view[v].topic]
  /\ view' = [view EXCEPT ![v].at = "show"]
  /\ UNCHANGED <<relationVars, column, job, desk, writes, outdated, edited>>

\* The topic of the row is looked up, and the answer sent.  Without the row there may
\* be no answer at all: "not generated".
ShowPage(v) ==
  /\ view[v].at = "show"
  /\ view' = [view EXCEPT ![v] = NoViewing]
  /\ UNCHANGED <<relationVars, column, pages, job, desk, writes, outdated, edited>>

\* At 23:59 the cache expires.
PagesExpire ==
  /\ pages' = [d \in Dates |-> Uncached]
  /\ outdated' = outdated \cap Unread
  /\ known' = {}
  /\ UNCHANGED <<manual, browse, column, view, job, desk, writes, edited>>

\* The process dies and is started again.
ProcessDies ==
  /\ writes < MaxWrites
  /\ writes' = writes + 1
  /\ pages' = [d \in Dates |-> Uncached]
  /\ view' = [v \in Views |-> NoViewing]
  /\ job' = [j \in Jobs |-> NoTaking]
  /\ desk' = [e \in Desks |-> NoEdit]
  /\ outdated' = {}
  /\ known' = {}
  /\ browse' = [b \in Browsers |-> NoBrowsing]
  /\ UNCHANGED <<manual, column, edited>>

ColumnNext ==
  \/ \E j \in Jobs : ClassifyCandidate(j) \/ DeleteRow(j) \/ InsertRow(j) \/ DropRows(j)
  \/ \E e \in Desks :
       \/ \E t \in ByHand : AddManualRelation(e, t) \/ DeleteRelation(e, t)
       \/ RefreshRelations(e) \/ WarmUp(e)
       \/ FindRows(e) \/ PlaceRow(e) \/ UpdateRow(e) \/ DropRow(e)
  \/ \E b \in Browsers :
       BrowseStored(b) \/ BrowseCached(b) \/ FillRelations(b) \/ LoadStockTopics(b)
  \/ \E v \in Views : ReadPage(v) \/ ReadColumn(v) \/ FillPage(v) \/ ShowPage(v)
  \/ WriteFails \/ PagesExpire \/ ProcessDies

ColumnSpec == ColumnInit /\ [][ColumnNext]_columnVars

-------------------------------------------------------------------------------
\* Once an editor has been answered, the view of every past day that has a row of the
\* stock shows it under the topic that was given by hand last or, if none is left, under
\* the one attribution finds for that day; as long as
\*  - no other edit and no snapshot job has begun since or was under way;
\*  - nobody was between reading the rows of that day and caching them while they
\*    changed: such a reader leaves the old topic in the cache until 23:59;
\*  - the edit went by cached relations that name the same topic as the table's.  A
\*    deletion of the latest manual relation does not, if the stock's relations are
\*    cached, as they are after any look at them: they stay cached, and all rows are
\*    filed under the deleted topic again.  Nor does an edit in the middle of which a
\*    reader caches relations it has read before, or copies without their times.
EditShown ==
  \A v \in Views :
    LET me == view[v]
    IN  (me.at = "show" /\ me.sure) =>
          IF column[me.day] = RowLess THEN me.topic = RowLess
          ELSE me.topic \in Placements(manual, me.day)
=============================================================================
