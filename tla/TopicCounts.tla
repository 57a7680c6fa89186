----------------------------- MODULE TopicCounts -----------------------------
(***************************************************************************)
(* How many stocks a topic has: counted from the relations into a table,   *)
(* on schedule or by request, cached as one map for the day, and read by   *)
(* the runs of heat classification, which load what the map does not have. *)
(* dal/repo/topic_stock_count_repo.go, with its DAO and its cache.         *)
(*                                                                         *)
(* A count is the number of the edit that made it: a later edit of a       *)
(* topic's relations makes a higher one, and 0 is no count.                *)
(***************************************************************************)
EXTENDS Integers

CONSTANTS
  Topics,   \* topics
  Users,    \* concurrent calls of the repository
  MaxEdits, \* bound on edits of relations
  MaxCalls, \* bound on calls
  MaxNights \* bound on nights and restarts

ASSUME CountsAssumption == MaxEdits \in Nat /\ MaxCalls \in Nat /\ MaxNights \in Nat

VARIABLES
  edits,   \* how many edits there have been
  related, \* the count the relations of each topic have now
  table,   \* topic_stock_count
  cache,   \* the cached map, without entries if there is none
  call,    \* the calls, see NoCall
  called,   \* how many there have been
  nights,
  had,     \* history: the counts each topic has had in the table today
  carried  \* history: a call called yesterday has cached what it had read

countVars == <<edits, related, table, cache, call, called, nights, had, carried>>

Empty == [t \in Topics |-> 0]

\* A call for some topics holds the map it has read, the map it is about to cache, and,
\* as history, the topics the table had when it began and whether that was yesterday.
NoCall == [at |-> "idle", topics |-> {}, counts |-> Empty, copy |-> Empty,
         known |-> {}, old |-> FALSE]

CountsInit ==
  /\ edits = 0
  /\ related = Empty
  /\ table = Empty
  /\ cache = Empty
  /\ call = [c \in Users |-> NoCall]
  /\ called = 0
  /\ nights = 0
  /\ had = [t \in Topics |-> {0}]
  /\ carried = FALSE

Keys(map) == {t \in Topics : map[t] # 0}

\* One map laid over another.
Over(map, below) == [t \in Topics |-> IF map[t] # 0 THEN map[t] ELSE below[t]]

Only(map, topics) == [t \in Topics |-> IF t \in topics THEN map[t] ELSE 0]

-------------------------------------------------------------------------------
\* Editors, crawls and rebuilds change the relations of a topic, or remove them all.
EditRelations(t) ==
  /\ edits < MaxEdits
  /\ edits' = edits + 1
  /\ related' \in {[related EXCEPT ![t] = edits + 1], [related EXCEPT ![t] = 0]}
  /\ UNCHANGED <<table, cache, call, called, nights, had, carried>>

BeginCall(c, as) ==
  /\ call[c].at \in {"idle", "done"}
  /\ called < MaxCalls
  /\ called' = called + 1
  /\ call' = [call EXCEPT ![c] = as]
  /\ UNCHANGED <<edits, related, table, cache, nights, had, carried>>

\* calcTopicHeat, for the topics of a run.
BeginRun(c) ==
  \E topics \in SUBSET Topics \ {{}} :
    BeginCall(c, [NoCall EXCEPT !.at = "all", !.topics = topics, !.known = Keys(table)])

\* WarmupCache, before the market opens.
BeginWarmup(c) == BeginCall(c, [NoCall EXCEPT !.at = "all"])

\* ComputeTopicStockCount: first the aggregate, ...
AggregateFromRelations(c) == BeginCall(c, [NoCall EXCEPT !.at = "upsert", !.copy = related])

\* ... then the table, where topics without relations keep their count, and a warm-up.
UpsertBatch(c) ==
  /\ call[c].at = "upsert"
  /\ table' = Over(call[c].copy, table)
  /\ had' = [t \in Topics |-> had[t] \cup {table'[t]}]
  /\ call' = [call EXCEPT ![c].at = "all"]
  /\ UNCHANGED <<edits, related, cache, called, nights, carried>>

\* A call that needs the table may not get it, and ends with an error.
Fails(c) ==
  /\ call[c].at \in {"upsert", "load", "loadMissing"}
  /\ call' = [call EXCEPT ![c] = NoCall]
  /\ UNCHANGED <<edits, related, table, cache, called, nights, had, carried>>

\* Mutant: a run takes the counts it has for all there are.
Bug_After(topics, counts) == IF Keys(counts) # {} THEN "done" ELSE "again"

\* Once a run has counts, topics that are not among them are loaded in a second call.
After(topics, counts) == IF topics \subseteq Keys(counts) THEN "done" ELSE "again"

\* GetAllCountMap: the cached map if it has entries, however old, ...
GetAllCountMap(c) ==
  /\ call[c].at = "all"
  /\ call' = [call EXCEPT ![c].at = IF cache = Empty THEN "load"
                                    ELSE After(call[c].topics, cache),
                          ![c].counts = cache]
  /\ UNCHANGED <<edits, related, table, cache, called, nights, had, carried>>

\* ... or else that of the table.  Without any row, counts are unavailable.
LoadAll(c) ==
  /\ call[c].at = "load"
  /\ call' = [call EXCEPT ![c].at = IF table = Empty THEN "done" ELSE "fill",
                          ![c].counts = table, ![c].copy = table]
  /\ UNCHANGED <<edits, related, table, cache, called, nights, had, carried>>

\* Of the missing topics, those the cached map has when it is read again.
Found(copy, topics) == Only(copy, topics)

\* GetCountMapByTopicIDs: read the cached map again, ...
ReadAgain(c) ==
  /\ call[c].at = "again"
  /\ LET missing == call[c].topics \ Keys(call[c].counts)
     IN  call' = [call EXCEPT ![c].at = IF missing \subseteq Keys(cache) THEN "done"
                                        ELSE "loadMissing",
                              ![c].counts = Over(@, Found(cache, missing)),
                              ![c].copy = cache]
  /\ UNCHANGED <<edits, related, table, cache, called, nights, had, carried>>

\* ... load what neither has, and cache all of it.
LoadMissing(c) ==
  /\ call[c].at = "loadMissing"
  /\ LET missing == call[c].topics \ (Keys(call[c].counts) \cup Keys(call[c].copy))
         loaded == Only(table, missing)
     IN  call' = [call EXCEPT ![c].at = IF loaded = Empty THEN "done"
                                        ELSE "fillMissing",
                              ![c].counts = Over(@, loaded),
                              ![c].copy = Over(loaded, @)]
  /\ UNCHANGED <<edits, related, table, cache, called, nights, had, carried>>

\* SetAll: the map this call has put together replaces whatever is there.
SetAll(c) ==
  /\ call[c].at \in {"fill", "fillMissing"}
  /\ cache' = call[c].copy
  /\ carried' = (carried \/ call[c].old)
  /\ call' = [call EXCEPT ![c].at = IF @ = "fill"
                                    THEN After(call[c].topics, call[c].counts) ELSE "done"]
  /\ UNCHANGED <<edits, related, table, called, nights, had>>

\* Mutant: the map does not expire.
Bug_Expired == cache

\* The map expires a minute before midnight, TTLUntilEndOfDay.
Expired == Empty

NewDay ==
  /\ nights < MaxNights
  /\ nights' = nights + 1
  /\ cache' = Expired
  /\ had' = [t \in Topics |-> {table[t]}]
  /\ carried' = FALSE
  /\ call' = [c \in Users |-> [call[c] EXCEPT !.old = TRUE]]
  /\ UNCHANGED <<edits, related, table, called>>

Restart ==
  /\ nights < MaxNights
  /\ nights' = nights + 1
  /\ cache' = Empty
  /\ call' = [c \in Users |-> NoCall]
  /\ UNCHANGED <<edits, related, table, called, had, carried>>

CountsNext ==
  \/ \E t \in Topics : EditRelations(t)
  \/ \E c \in Users :
       \/ BeginRun(c) \/ BeginWarmup(c) \/ AggregateFromRelations(c) \/ UpsertBatch(c)
       \/ Fails(c) \/ GetAllCountMap(c) \/ LoadAll(c)
       \/ ReadAgain(c) \/ LoadMissing(c) \/ SetAll(c)
  \/ NewDay \/ Restart

CountsSpec == CountsInit /\ [][CountsNext]_countVars

-------------------------------------------------------------------------------
\* A run that ends without an error has a count for each of its topics the table had
\* when it began: two calls that replace each other's map, an expiry or a recount in
\* between do not leave a topic without heat.
RunsHaveCounts ==
  \A c \in Users :
    call[c].at = "done" => call[c].topics \cap call[c].known \subseteq Keys(call[c].counts)

\* Although the warm-up of a recount finds the old map and leaves it, a cached count
\* never is of the day before: it is one the table has had today, unless a call that
\* began yesterday has cached its map today.
CountsAreOfToday ==
  carried \/ \A t \in Keys(cache) : cache[t] \in had[t]
===============================================================================
