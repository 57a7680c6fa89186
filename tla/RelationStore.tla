---------------------------- MODULE RelationStore ----------------------------
(***************************************************************************)
(* The topics of a stock: the table stock_topic_relations, the rows of it  *)
(* that dal/repo/stock_topic_relation_repo.go caches, and everybody who    *)
(* changes or reads them: editors who add and delete relations, which also *)
(* files the stock's snapshot anew, crawls of a date, rebuilds from the    *)
(* raw data of a range of dates, and readers.                              *)
(*                                                                         *)
(* One stock is modelled: calls for many stocks do to each of them what is *)
(* said here of one, at the same moment.  Every call is a request in a     *)
(* goroutine of its own, and every access to table or cache a step.        *)
(***************************************************************************)
EXTENDS Integers, FiniteSets

CONSTANTS
  Topics,
  Names,       \* what Jiuyan calls its fields
  Normalized,  \* the topic of each name: the topic dictionary
  LastDate,    \* dates are 1..LastDate
  Listed,      \* the names Jiuyan lists the stock under, by date
  NoTopic,
  Clients,
  MaxCalls,    \* calls modelled
  MaxFaults    \* failed database calls and restarts

Dates == 1..LastDate

ASSUME RelationAssumption ==
  /\ LastDate \in Nat \ {0}
  /\ Normalized \in [Names -> Topics]
  /\ Listed \in [Dates -> SUBSET Names]
  /\ NoTopic \notin Topics
  /\ IsFiniteSet(Names)
  /\ MaxCalls \in Nat
  /\ MaxFaults \in Nat

\* A relation: its hit_count, and whether its source is "manual" (or "jiuyan").
None == [hits |-> 0, manual |-> FALSE]
Empty == [t \in Topics |-> None]
Rows == [Topics -> {None} \cup [hits : Nat \ {0}, manual : BOOLEAN]]

VARIABLES
  table,   \* the stock's rows of stock_topic_relations, by topic
  cache,   \* cache:stock_topics; no entry and an empty one are the same to all
  raw,     \* jiuyan_raw_data: the names of the stock with their dates
  filed,   \* topic_id of the stock's snapshot
  client,  \* the local variables of each call
  calls,   \* calls so far
  behind,  \* the cache may have been left with rows the table has no more (history)
  counted, \* the topics whose hits nothing has disturbed since they were last right,
           \* or will be when the crawls under way have added theirs (history)
  faults

vars == <<table, cache, raw, filed, client, calls, behind, counted, faults>>

\* then: where a read that is under way returns to.  again: the reader will cache
\* its rows once more, after the repository has.  History: calls under way at the
\* same time (others), whether the add made or found a manual relation (bound), and
\* whether the snapshot was filed from a cache that may be behind (blind).
Idle ==
  [pc |-> "idle", call |-> "none", topic |-> NoTopic, from |-> 1, to |-> 1,
   rows |-> Empty, then |-> "end", again |-> FALSE,
   others |-> {}, bound |-> FALSE, blind |-> FALSE]

Init ==
  /\ table = Empty
  /\ cache = Empty
  /\ raw = {}
  /\ filed = NoTopic
  /\ client = [c \in Clients |-> Idle]
  /\ calls = 0
  /\ behind = FALSE
  /\ counted = Topics
  /\ faults = 0

MayFail == faults < MaxFaults

\* Somebody else has read rows that are about to be cached.
OthersHold(c) == \E d \in Clients \ {c} : client[d].pc \in {"refill", "fill"}

Manual(rows) == {t \in Topics : rows[t].manual}
Related(rows) == {t \in Topics : rows[t] # None}

-------------------------------------------------------------------------------
\* c begins a call, with local variables new; calls under way learn of each other.
Begin(c, new) ==
  LET active == {d \in Clients : client[d].pc # "idle"}
  IN  /\ client[c].pc = "idle"
      /\ calls < MaxCalls
      /\ calls' = calls + 1
      /\ client' = [d \in Clients |->
           CASE d = c -> [new EXCEPT !.others = {client[e].call : e \in active}]
             [] d \in active -> [client[d] EXCEPT !.others = @ \cup {new.call}]
             [] OTHER -> client[d]]

\* The table changes.  A copy of the old rows that somebody is about to cache will
\* be cached.
TableBecomes(c, rows) ==
  /\ table' = rows
  /\ behind' = (behind \/ (rows # table /\ OthersHold(c)))

\* The cache is set to rows: it has caught up with the table if they are what the
\* table has, and nobody is about to cache others.
Cached(c, rows) ==
  /\ cache' = rows
  /\ behind' = (behind /\ ~(rows = table /\ ~OthersHold(c)))

\* Upsert: hit_count of a row that is there is set, its source is not.
Upserted(t) == [table EXCEPT ![t] = [hits |-> 1, manual |-> @ = None \/ @.manual]]

AddManualRelation(c, t) ==
  /\ Begin(c, [Idle EXCEPT !.pc = "refresh", !.call = "add", !.topic = t,
                           !.bound = Upserted(t)[t].manual])
  /\ TableBecomes(c, Upserted(t))
  /\ counted' = counted \ {t}
  /\ UNCHANGED <<cache, raw, filed, faults>>

\* Delete: of the row, and then a warm-up, which returns what is cached.
DeleteRelation(c, t) ==
  LET rows == [table EXCEPT ![t] = None]
  IN  /\ Begin(c, [Idle EXCEPT !.pc = "get", !.call = "delete", !.topic = t,
                               !.then = "classify"])
      /\ table' = rows
      /\ behind' = (behind \/ (rows # table /\ (OthersHold(c) \/ cache # Empty)))
      /\ counted' = counted \ {t}
      /\ UNCHANGED <<cache, raw, filed, faults>>

Listings(d, t) == {n \in Listed[d] : Normalized[n] = t}
OfDate(d) == {t \in Topics : Listings(d, t) # {}}

\* UpsertBatch of the raw rows of a date: those that are there stay.
UpsertedRaw(d) == raw \cup (Listed[d] \X {d})

\* CrawlWithParams of a date: the raw rows are upserted first, and only then is it
\* checked that the dictionary has all names.
CrawlWithParams(c, d) ==
  /\ Begin(c, [Idle EXCEPT !.pc = "accumulate", !.call = "crawl", !.from = d])
  /\ raw' = UpsertedRaw(d)
  /\ counted' = IF raw' = raw THEN counted \ OfDate(d) ELSE counted
  /\ UNCHANGED <<table, cache, filed, behind, faults>>

\* Mutant: the source is overwritten, as a rebuild does it.
Bug_Accumulated(d) ==
  [t \in Topics |->
     IF Listings(d, t) = {} THEN table[t]
     ELSE [hits |-> table[t].hits + Cardinality(Listings(d, t)), manual |-> FALSE]]

\* BulkUpsertAccumulate: a row of the statement for each name; source is kept.
Accumulated(d) ==
  [t \in Topics |->
     [table[t] EXCEPT !.hits = @ + Cardinality(Listings(d, t))]]

\* Two names of one topic are two rows with one key.  The table takes them if they
\* come in different statements, of 500 rows each, and else refuses them all, also
\* when it is another stock that has two.  A name the dictionary lacks ends the crawl
\* here as well.
AccumulateHits(c) ==
  LET d == client[c].from
  IN  /\ client[c].pc = "accumulate"
      /\ \/ /\ Listed[d] # {}
            /\ TableBecomes(c, Accumulated(d))
            /\ client' = [client EXCEPT ![c].pc = "refresh"]
            /\ UNCHANGED counted
         \/ /\ client' = [client EXCEPT ![c] = Idle]
            /\ counted' = counted \ OfDate(d)
            /\ UNCHANGED <<table, behind>>
      /\ UNCHANGED <<cache, raw, filed, calls, faults>>

\* GetAggregatedData: the raw rows of a range of dates, to be counted by name.
Aggregated(from, to) == {e \in raw : e[2] \in from..to}

\* mergeNormalizedRelations adds up the counts of the names of a topic.
HitsOf(t, from, to) == Cardinality({e \in Aggregated(from, to) : Normalized[e[1]] = t})

\* buildRebuildRelations: the rows a rebuild makes of them.
Rebuilt(from, to) ==
  [t \in Topics |-> [hits |-> HitsOf(t, from, to), manual |-> FALSE]]

RebuildTopicRelations(c, from, to) ==
  /\ from <= to
  /\ \E t \in Topics : HitsOf(t, from, to) > 0
  /\ Begin(c, [Idle EXCEPT !.pc = "replace", !.call = "rebuild", !.from = from, !.to = to,
                           !.rows = Rebuilt(from, to)])
  /\ UNCHANGED <<table, cache, raw, filed, behind, counted, faults>>

\* Mutant: hits are added to those of the row.
Bug_Replaced(rows) ==
  [t \in Topics |->
     IF rows[t].hits = 0 THEN table[t] ELSE [rows[t] EXCEPT !.hits = @ + table[t].hits]]

\* BulkUpsertReplace: source is overwritten; relations not in the range stay.
Replaced(rows) == [t \in Topics |-> IF rows[t].hits = 0 THEN table[t] ELSE rows[t]]

\* The hits are right if the range has all raw rows there are by now, and no crawl
\* is about to add some of them again.
ReplaceHits(c) ==
  LET rows == client[c].rows
      right == {t \in Topics : rows[t].hits = HitsOf(t, 1, LastDate)}
      pending == {d \in Clients : client[d].pc = "accumulate"}
  IN  /\ client[c].pc = "replace"
      /\ TableBecomes(c, Replaced(rows))
      /\ counted' = {t \in counted : rows[t].hits = 0}
                       \cup IF pending = {} THEN Related(rows) \cap right ELSE {}
      /\ client' = [client EXCEPT ![c].pc = "refresh"]
      /\ UNCHANGED <<cache, raw, filed, calls, faults>>

\* refreshTsCodes: every write but a delete reads the rows again, and caches them.
RefreshRead(c) ==
  /\ client[c].pc = "refresh"
  /\ client' = [client EXCEPT ![c].pc = "refill", ![c].rows = table]
  /\ UNCHANGED <<table, cache, raw, filed, calls, behind, counted, faults>>

AfterRefresh(call) == IF call = "add" THEN "classify" ELSE "end"

\* Mutant: a cached entry is left as it is, as after a delete.
Bug_RefreshFill(c) ==
  /\ client[c].pc = "refill"
  /\ IF cache = Empty THEN Cached(c, client[c].rows) ELSE UNCHANGED <<cache, behind>>
  /\ client' = [client EXCEPT ![c].pc = AfterRefresh(client[c].call)]
  /\ UNCHANGED <<table, raw, filed, calls, counted, faults>>

RefreshFill(c) ==
  /\ client[c].pc = "refill"
  /\ Cached(c, client[c].rows)
  /\ client' = [client EXCEPT ![c].pc = AfterRefresh(client[c].call)]
  /\ UNCHANGED <<table, raw, filed, calls, counted, faults>>

-------------------------------------------------------------------------------
\* GetStockTopics, GetStockTopicsBatch: a stock without relations has no entry to find.
Found == cache # Empty

\* Readers: pages, warm-ups and RunHistory ask the repository; heat classification
\* asks the cache first and then the repository, and caches what it gets once more.
\* Nothing happens when the first to be asked has an entry.
BeginRead(c) ==
  /\ ~Found
  /\ \/ Begin(c, [Idle EXCEPT !.pc = "read", !.call = "page"])
     \/ Begin(c, [Idle EXCEPT !.pc = "get", !.call = "heat", !.again = TRUE])
  /\ UNCHANGED <<table, cache, raw, filed, behind, counted, faults>>

\* GetByTsCode: the cached rows, if there are any.  A reader who will cache them once
\* more may do so after a refresh that is under way.
GetCached(c) ==
  LET me == client[c]
  IN  /\ me.pc = "get"
      /\ \/ /\ Found
            /\ client' = [client EXCEPT
                 ![c].pc = IF me.again THEN "fill" ELSE me.then,
                 ![c].rows = cache, ![c].again = FALSE, ![c].blind = @ \/ behind]
            /\ behind' = (behind \/ (me.again /\ cache # table))
         \/ /\ ~Found
            /\ client' = [client EXCEPT ![c].pc = "read"]
            /\ UNCHANGED behind
      /\ UNCHANGED <<table, cache, raw, filed, calls, counted, faults>>

\* Or those of the table, which are cached if there are any.
GetStored(c) ==
  /\ client[c].pc = "read"
  /\ client' = [client EXCEPT
       ![c].pc = IF table = Empty THEN client[c].then ELSE "fill", ![c].rows = table]
  /\ UNCHANGED <<table, cache, raw, filed, calls, behind, counted, faults>>

\* Classification caches once more what the repository has returned.
AfterFill(me) == IF me.again THEN "fill" ELSE me.then

FillCache(c) ==
  /\ client[c].pc = "fill"
  /\ Cached(c, client[c].rows)
  /\ client' = [client EXCEPT ![c].pc = AfterFill(client[c]), ![c].again = FALSE]
  /\ UNCHANGED <<table, raw, filed, calls, counted, faults>>

-------------------------------------------------------------------------------
\* SyncStockSnapshots: the snapshot is filed under what ClassifyStock finds, which
\* reads the cache, then the repository, and caches what that returned once more.
Classify(c) ==
  /\ client[c].pc = "classify"
  /\ \/ /\ Found
        /\ client' = [client EXCEPT ![c].pc = "file", ![c].rows = cache,
                                    ![c].blind = @ \/ behind]
     \/ /\ ~Found
        /\ client' = [client EXCEPT ![c].pc = "get", ![c].then = "file",
                                    ![c].again = TRUE]
  /\ UNCHANGED <<table, cache, raw, filed, calls, behind, counted, faults>>

\* A manual relation comes first; else attribution chooses one.
Picks(rows) ==
  IF Related(rows) = {} THEN {NoTopic}
  ELSE IF Manual(rows) # {} THEN Manual(rows) ELSE Related(rows)

\* The editor is answered with what GetByTsCode returns then.
FileSnapshot(c) ==
  /\ client[c].pc = "file"
  /\ filed' \in Picks(client[c].rows)
  /\ client' = [client EXCEPT ![c].pc = "get", ![c].then = "end", ![c].again = FALSE]
  /\ UNCHANGED <<table, cache, raw, calls, behind, counted, faults>>

Answer(c) ==
  /\ client[c].pc = "end"
  /\ client' = [client EXCEPT ![c] = Idle]
  /\ UNCHANGED <<table, cache, raw, filed, calls, behind, counted, faults>>

-------------------------------------------------------------------------------
\* Another call of the database fails: the request ends with an error, and what it
\* has done stays done.
CallFails(c) ==
  /\ MayFail
  /\ client[c].pc \in {"replace", "refresh", "read", "file"}
  /\ client' = [client EXCEPT ![c] = Idle]
  /\ behind' = (behind \/ (client[c].pc = "refresh" /\ cache \notin {Empty, table}))
  /\ faults' = faults + 1
  /\ UNCHANGED <<table, cache, raw, filed, calls, counted>>

\* At 23:59 every key of the cache expires.
CacheExpires ==
  /\ cache # Empty
  /\ cache' = Empty
  /\ behind' = (behind /\ \E c \in Clients : client[c].pc \in {"refill", "fill"})
  /\ UNCHANGED <<table, raw, filed, client, calls, counted, faults>>

\* The process dies and is started again: the tables are all that is left.
Restart ==
  /\ MayFail
  /\ cache' = Empty
  /\ client' = [c \in Clients |-> Idle]
  /\ behind' = FALSE
  /\ counted' = counted \ UNION {OfDate(client[c].from) :
                   c \in {c \in Clients : client[c].pc = "accumulate"}}
  /\ faults' = faults + 1
  /\ UNCHANGED <<table, raw, filed, calls>>

Next ==
  \/ \E c \in Clients :
       \/ \E t \in Topics : AddManualRelation(c, t) \/ DeleteRelation(c, t)
       \/ \E d \in Dates : CrawlWithParams(c, d)
       \/ \E from \in Dates, to \in Dates : RebuildTopicRelations(c, from, to)
       \/ AccumulateHits(c) \/ ReplaceHits(c) \/ RefreshRead(c) \/ RefreshFill(c)
       \/ BeginRead(c) \/ GetCached(c) \/ GetStored(c) \/ FillCache(c)
       \/ Classify(c) \/ FileSnapshot(c) \/ Answer(c)
       \/ CallFails(c)
  \/ CacheExpires \/ Restart

Spec == Init /\ [][Next]_vars

-------------------------------------------------------------------------------
Calls == {"none", "add", "delete", "crawl", "rebuild", "page", "heat"}
Locals ==
  [pc : {"idle", "accumulate", "replace", "refresh", "refill", "get", "read", "fill",
         "classify", "file", "end"},
   call : Calls, topic : Topics \cup {NoTopic}, from : Dates, to : Dates,
   rows : Rows, then : {"classify", "file", "end"}, again : BOOLEAN,
   others : SUBSET Calls, bound : BOOLEAN, blind : BOOLEAN]

\* Types: a relation has been listed or made at least once, whichever calls have
\* written it; the snapshot is filed under a topic or none.
TypeOK ==
  /\ table \in Rows
  /\ cache \in Rows
  /\ raw \subseteq Names \X Dates
  /\ filed \in Topics \cup {NoTopic}
  /\ client \in [Clients -> Locals]
  /\ calls \in Nat
  /\ behind \in BOOLEAN
  /\ counted \subseteq Topics
  /\ faults \in Nat

\* What is cached is what the table has, or the call that has changed the table is
\* about to cache it: whichever edits, crawls, rebuilds and readers there are, unless
\* one has changed the table, and not refreshed the cache yet, while another was
\* between reading rows and caching what it read, has deleted a cached row, or has
\* failed before the refresh.
RelationsCurrent ==
  \/ behind
  \/ cache \in {Empty, table}
  \/ \E c \in Clients :
       \/ client[c].pc = "refresh"
       \/ client[c].pc = "refill" /\ client[c].rows = table

\* hit_count is how often Jiuyan has listed the stock, as the raw data has it: with
\* crawls of several dates at the same time, and after a rebuild of all dates again,
\* whatever a date crawled twice, a failed crawl, or an edit had made of it.
HitsMatchRaw ==
  \A t \in counted :
    HitsOf(t, 1, LastDate) =
      table[t].hits
        + Cardinality(UNION {{c} \X Listings(client[c].from, t) :
                               c \in {c \in Clients : client[c].pc = "accumulate"}})

\* When an editor who has made a manual relation is answered, the table and the
\* answer have it as manual, and the snapshot is filed under a manual topic,
\* whatever crawls and readers have done in the meantime.
ManualPrevails ==
  \A c \in Clients :
    LET me == client[c]
    IN  ( /\ me.pc = "end" /\ me.call = "add" /\ me.bound /\ ~me.blind
          /\ me.others \cap {"add", "delete", "rebuild"} = {} ) =>
            /\ table[me.topic].manual
            /\ me.rows[me.topic].manual
            /\ filed \in Manual(table)
===============================================================================
