------------------------------ MODULE CacheProofs ------------------------------
(***************************************************************************)
(* Proofs about the caches of TopicCounts, StockBasic, TopicDictionary and *)
(* TopicColumn, for any numbers of concurrent calls, edits, failures and   *)
(* nights: a copy that is not the table's is one of the few the histories  *)
(* name.                                                                   *)
(***************************************************************************)
EXTENDS TopicCounts, StockBasic, TopicDictionary, TopicColumn, TLAPS

(***************************************************************************)
(* The dictionary.                                                         *)
(***************************************************************************)
Copies == Nat \cup {NoCopy}

DictTypes ==
  /\ dictionary \in Nat
  /\ copies \in [map : Copies, all : Copies]
  /\ editor \in [Editors -> {"idle", "clearAll", "clearMap"}]
  /\ lookup \in [Lookups -> [at : {"idle", "read", "setMap", "setAll"}, copy : Copies,
                             late : BOOLEAN]]
  /\ behind \in [map : BOOLEAN, all : BOOLEAN]

\* A lookup that is about to cache has read the table as it is, or knows to be late.
LookupsCurrent ==
  \A l \in Lookups :
    lookup[l].at \in {"setMap", "setAll"} => lookup[l].late \/ lookup[l].copy = dictionary

LEMMA DictTypesInit == DictInit => DictTypes
BY DEF DictInit, DictTypes, NoCopies, NoneBehind, NoLookup, Copies

LEMMA DictTypesNext == DictTypes /\ [DictNext]_dictVars => DictTypes'
<1> SUFFICES ASSUME DictTypes, [DictNext]_dictVars PROVE DictTypes'
  OBVIOUS
<1> USE DEF DictTypes
<1>1. ASSUME NEW e \in Editors, Save(e) PROVE DictTypes'
  <2>1. \A l \in Lookups :
          [lookup[l] EXCEPT !.late = @ \/ lookup[l].at \in {"setMap", "setAll"}]
            \in [at : {"idle", "read", "setMap", "setAll"}, copy : Copies, late : BOOLEAN]
    OBVIOUS
  <2> QED
    BY <1>1, <2>1 DEF Save, Edited
<1>2. ASSUME NEW e \in Editors, ClearAll(e) PROVE DictTypes'
  BY <1>2 DEF ClearAll, Copies
<1>3. ASSUME NEW e \in Editors, ClearAllMap(e) PROVE DictTypes'
  BY <1>3 DEF ClearAllMap, WithoutMap, Copies
<1>4. ASSUME NEW l \in Lookups, NEW key, Miss(l, key) PROVE DictTypes'
  BY <1>4 DEF Miss, NoLookup, Copies
<1>5. ASSUME NEW l \in Lookups, ReadDictionary(l) PROVE DictTypes'
  BY <1>5 DEF ReadDictionary, Copies
<1>6. ASSUME NEW l \in Lookups, SetAllMap(l) PROVE DictTypes'
  <2>1. CASE /\ copies' = [copies EXCEPT !.map = lookup[l].copy]
             /\ behind' = [behind EXCEPT !.map = lookup[l].late]
             /\ lookup' = [lookup EXCEPT ![l].at = "setAll"]
             /\ UNCHANGED <<dictionary, editor>>
    BY <2>1
  <2>2. CASE /\ copies' = [copies EXCEPT !.all = lookup[l].copy]
             /\ behind' = [behind EXCEPT !.all = lookup[l].late]
             /\ lookup' = [lookup EXCEPT ![l] = NoLookup]
             /\ UNCHANGED <<dictionary, editor>>
    BY <2>2 DEF NoLookup, Copies
  <2> QED
    BY <1>6, <2>1, <2>2 DEF SetAllMap
<1>7. CASE Lose
  <2>1. copies' \in [map : Copies, all : Copies] /\ behind' \in [map : BOOLEAN, all : BOOLEAN]
    BY <1>7 DEF Lose, NoCopies, NoneBehind, Copies
  <2>2. CASE UNCHANGED <<editor, lookup>>
    BY <1>7, <2>1, <2>2 DEF Lose
  <2>3. CASE /\ editor' = [e \in Editors |-> "idle"]
             /\ lookup' = [l \in Lookups |-> NoLookup]
    BY <1>7, <2>1, <2>3 DEF Lose, NoLookup, Copies
  <2> QED
    BY <1>7, <2>2, <2>3 DEF Lose
<1>8. CASE UNCHANGED dictVars
  BY <1>8 DEF dictVars
<1> QED
  BY <1>1, <1>2, <1>3, <1>4, <1>5, <1>6, <1>7, <1>8 DEF DictNext, NamesOfCrawl, List

LEMMA DictNextCurrent ==
  DictTypes /\ LookupsCurrent /\ DictionaryCurrent /\ [DictNext]_dictVars
    => LookupsCurrent' /\ DictionaryCurrent'
<1> SUFFICES ASSUME DictTypes, LookupsCurrent, DictionaryCurrent, [DictNext]_dictVars
             PROVE  LookupsCurrent' /\ DictionaryCurrent'
  OBVIOUS
<1> USE DEF DictTypes
<1>1. ASSUME NEW e \in Editors, Save(e) PROVE LookupsCurrent' /\ DictionaryCurrent'
  <2>1. editor'[e] = "clearAll"
    BY <1>1 DEF Save, Edited
  <2>2. \A l \in Lookups : lookup[l].at \in {"setMap", "setAll"} => lookup'[l].late
    BY <1>1 DEF Save, Edited
  <2>3. \A l \in Lookups : lookup'[l].at = lookup[l].at
    BY <1>1 DEF Save, Edited
  <2> QED
    BY <2>1, <2>2, <2>3 DEF LookupsCurrent, DictionaryCurrent
<1>2. ASSUME NEW e \in Editors, ClearAll(e) PROVE LookupsCurrent' /\ DictionaryCurrent'
  <2>1. /\ copies'.all = NoCopy /\ copies'.map = copies.map /\ behind'.map = behind.map
        /\ editor[e] = "clearAll" /\ editor'[e] = "clearMap"
        /\ \A f \in Editors \ {e} : editor'[f] = editor[f]
        /\ UNCHANGED <<dictionary, lookup>>
    BY <1>2 DEF ClearAll
  <2> QED
    BY <2>1 DEF LookupsCurrent, DictionaryCurrent
<1>3. ASSUME NEW e \in Editors, ClearAllMap(e) PROVE LookupsCurrent' /\ DictionaryCurrent'
  <2>1. /\ copies'.map = NoCopy /\ copies'.all = copies.all /\ behind'.all = behind.all
        /\ editor[e] = "clearMap"
        /\ \A f \in Editors \ {e} : editor'[f] = editor[f]
        /\ UNCHANGED <<dictionary, lookup>>
    BY <1>3 DEF ClearAllMap, WithoutMap
  <2> QED
    BY <2>1 DEF LookupsCurrent, DictionaryCurrent
<1>4. ASSUME NEW l \in Lookups, NEW key, Miss(l, key)
      PROVE  LookupsCurrent' /\ DictionaryCurrent'
  <2>1. \A k \in Lookups : lookup'[k] = lookup[k] \/ lookup'[k].at = "read"
    BY <1>4 DEF Miss, NoLookup
  <2>2. UNCHANGED <<dictionary, copies, editor, behind>>
    BY <1>4 DEF Miss
  <2> QED
    BY <2>1, <2>2 DEF LookupsCurrent, DictionaryCurrent
<1>5. ASSUME NEW l \in Lookups, ReadDictionary(l) PROVE LookupsCurrent' /\ DictionaryCurrent'
  <2>1. \A k \in Lookups : lookup'[k] = lookup[k] \/ lookup'[k].copy = dictionary
    BY <1>5 DEF ReadDictionary
  <2>2. UNCHANGED <<dictionary, copies, editor, behind>>
    BY <1>5 DEF ReadDictionary
  <2> QED
    BY <2>1, <2>2 DEF LookupsCurrent, DictionaryCurrent
<1>6. ASSUME NEW l \in Lookups, SetAllMap(l) PROVE LookupsCurrent' /\ DictionaryCurrent'
  <2>1. lookup[l].late \/ lookup[l].copy = dictionary
    BY <1>6 DEF SetAllMap, LookupsCurrent
  <2>2. CASE /\ lookup[l].at = "setMap"
             /\ copies' = [copies EXCEPT !.map = lookup[l].copy]
             /\ behind' = [behind EXCEPT !.map = lookup[l].late]
             /\ lookup' = [lookup EXCEPT ![l].at = "setAll"]
             /\ UNCHANGED <<dictionary, editor>>
    <3>1. \A k \in Lookups : /\ lookup'[k].copy = lookup[k].copy
                             /\ lookup'[k].late = lookup[k].late
                             /\ k # l => lookup'[k].at = lookup[k].at
      BY <2>2
    <3>2. LookupsCurrent'
      BY <2>1, <2>2, <3>1 DEF LookupsCurrent
    <3>3. /\ copies'.map = lookup[l].copy /\ copies'.all = copies.all
          /\ behind'.map = lookup[l].late /\ behind'.all = behind.all
      BY <2>2
    <3>4. DictionaryCurrent'
      BY <2>1, <2>2, <3>3 DEF DictionaryCurrent
    <3> QED
      BY <3>2, <3>4
  <2>3. CASE /\ lookup[l].at = "setAll"
             /\ copies' = [copies EXCEPT !.all = lookup[l].copy]
             /\ behind' = [behind EXCEPT !.all = lookup[l].late]
             /\ lookup' = [lookup EXCEPT ![l] = NoLookup]
             /\ UNCHANGED <<dictionary, editor>>
    <3>1. \A k \in Lookups : lookup'[k] = lookup[k] \/ lookup'[k].at = "idle"
      BY <2>3 DEF NoLookup
    <3>2. LookupsCurrent'
      BY <2>3, <3>1 DEF LookupsCurrent
    <3>3. /\ copies'.all = lookup[l].copy /\ copies'.map = copies.map
          /\ behind'.all = lookup[l].late /\ behind'.map = behind.map
      BY <2>3
    <3>4. DictionaryCurrent'
      BY <2>1, <2>3, <3>3 DEF DictionaryCurrent
    <3> QED
      BY <3>2, <3>4
  <2> QED
    BY <1>6, <2>2, <2>3 DEF SetAllMap
<1>7. CASE Lose
  <2>1. copies'.map = NoCopy /\ copies'.all = NoCopy /\ UNCHANGED dictionary
    BY <1>7 DEF Lose, NoCopies
  <2>2. \A l \in Lookups : lookup'[l] = lookup[l] \/ lookup'[l].at = "idle"
    BY <1>7 DEF Lose, NoLookup
  <2> QED
    BY <2>1, <2>2 DEF LookupsCurrent, DictionaryCurrent
<1>8. CASE UNCHANGED dictVars
  BY <1>8 DEF dictVars, LookupsCurrent, DictionaryCurrent
<1> QED
  BY <1>1, <1>2, <1>3, <1>4, <1>5, <1>6, <1>7, <1>8 DEF DictNext, NamesOfCrawl, List

\* However many editors and crawls there are: both copies of the dictionary are the
\* table, but for edits that are not through and copies that knew to be late.
THEOREM DictionaryIsCurrent == DictSpec => []DictionaryCurrent
<1>1. DictInit => DictTypes /\ LookupsCurrent /\ DictionaryCurrent
  BY DictTypesInit
  DEF DictInit, LookupsCurrent, DictionaryCurrent, NoCopies, NoLookup
<1>2. (DictTypes /\ LookupsCurrent /\ DictionaryCurrent) /\ [DictNext]_dictVars
        => (DictTypes /\ LookupsCurrent /\ DictionaryCurrent)'
  BY DictTypesNext, DictNextCurrent
<1> QED
  BY <1>1, <1>2, PTL DEF DictSpec

-------------------------------------------------------------------------------
(***************************************************************************)
(* The list of stocks.                                                     *)
(***************************************************************************)
StockLists == [basic : Nat, st : Nat, mv : Nat]

StockTypes ==
  /\ feed \in Nat
  /\ stored \in StockLists
  /\ active \in StockLists
  /\ sync \in [Syncs -> [at : {"idle", "st", "mv", "upsert", "clear"}, got : StockLists]]
  /\ reader \in [Readers -> [at : {"idle", "read", "fill", "set"}, list : StockLists,
                             again : BOOLEAN, late : BOOLEAN]]
  /\ late \in BOOLEAN

\* Nothing in the list is older than its names.
Coherent(list) ==
  /\ list.st # Lost => list.st >= list.basic
  /\ list.mv # Lost => list.mv >= list.basic

\* Neither in what a sync has got so far, of which the names came first, nor in what a
\* reader holds.
AllCoherent ==
  /\ Coherent(stored) /\ Coherent(active)
  /\ \A c \in Syncs : Coherent(sync[c].got) /\ sync[c].got.basic <= feed
  /\ \A r \in Readers : Coherent(reader[r].list)

\* A reader that is about to cache a list has that of the table, or knows to be late.
ReadersCurrent ==
  \A r \in Readers :
    reader[r].at \in {"fill", "set"} =>
      \/ reader[r].late
      \/ reader[r].list = stored

LEMMA NoListTyped == NoList \in StockLists /\ Coherent(NoList) /\ NoList.basic = 0
BY DEF NoList, StockLists, Coherent, Lost

LEMMA StockInitHolds ==
  StockInit => StockTypes /\ AllCoherent /\ ReadersCurrent /\ MonitorListCurrent
<1> SUFFICES ASSUME StockInit
             PROVE  StockTypes /\ AllCoherent /\ ReadersCurrent /\ MonitorListCurrent
  OBVIOUS
<1>1. stored \in StockLists /\ Coherent(stored)
  BY DEF StockInit, StockLists, Coherent
<1>2. /\ sync \in [Syncs -> [at : {"idle", "st", "mv", "upsert", "clear"}, got : StockLists]]
      /\ \A c \in Syncs : sync[c].got = NoList
  BY NoListTyped DEF StockInit, NoSync
<1>3. /\ reader \in [Readers -> [at : {"idle", "read", "fill", "set"}, list : StockLists,
                                 again : BOOLEAN, late : BOOLEAN]]
      /\ \A r \in Readers : reader[r].list = NoList /\ reader[r].at = "idle"
  BY NoListTyped DEF StockInit, Resting
<1>4. feed = 1 /\ active = NoList /\ late = FALSE
  BY DEF StockInit
<1>5. StockTypes
  BY <1>1, <1>2, <1>3, <1>4, NoListTyped DEF StockTypes
<1>6. AllCoherent
  BY <1>1, <1>2, <1>3, <1>4, NoListTyped DEF AllCoherent
<1>7. ReadersCurrent /\ MonitorListCurrent
  BY <1>3, <1>4 DEF ReadersCurrent, MonitorListCurrent
<1> QED
  BY <1>5, <1>6, <1>7

LEMMA StockNextHolds ==
  StockTypes /\ AllCoherent /\ ReadersCurrent /\ MonitorListCurrent /\ [StockNext]_stockVars
    => StockTypes' /\ AllCoherent' /\ ReadersCurrent' /\ MonitorListCurrent'
<1> SUFFICES ASSUME StockTypes, AllCoherent, ReadersCurrent, MonitorListCurrent,
                    [StockNext]_stockVars
             PROVE  StockTypes' /\ AllCoherent' /\ ReadersCurrent' /\ MonitorListCurrent'
  OBVIOUS
<1> DEFINE SyncLocals == [at : {"idle", "st", "mv", "upsert", "clear"}, got : StockLists]
           ReaderLocals == [at : {"idle", "read", "fill", "set"}, list : StockLists,
                            again : BOOLEAN, late : BOOLEAN]
<1>r. /\ feed \in Nat /\ stored \in StockLists /\ active \in StockLists
      /\ sync \in [Syncs -> SyncLocals] /\ reader \in [Readers -> ReaderLocals]
      /\ late \in BOOLEAN
  BY DEF StockTypes
<1>l. NoSync \in SyncLocals /\ NoSync.at = "idle" /\ NoSync.got = NoList
      /\ Resting \in ReaderLocals /\ Resting.at = "idle" /\ Resting.list = NoList
  BY NoListTyped DEF NoSync, Resting
\* A step of a sync before it has written anything.
<1>s. ASSUME NEW c \in Syncs, NEW new \in SyncLocals, sync' = [sync EXCEPT ![c] = new],
             Coherent(new.got), new.got.basic <= feed, sync[c].at # "clear",
             UNCHANGED <<feed, stored, active, reader, late>>
      PROVE  StockTypes' /\ AllCoherent' /\ ReadersCurrent' /\ MonitorListCurrent'
  <2>1. StockTypes'
    BY <1>r, <1>s DEF StockTypes
  <2>2. \A d \in Syncs : sync'[d] = sync[d] \/ (d = c /\ sync'[d] = new)
    BY <1>r, <1>s
  <2>3. AllCoherent'
    BY <1>s, <2>2 DEF AllCoherent, Coherent
  <2>4. MonitorListCurrent' /\ ReadersCurrent'
    BY <1>s, <2>2 DEF MonitorListCurrent, ReadersCurrent
  <2> QED
    BY <2>1, <2>3, <2>4
<1>1. CASE FeedChanges
  <2>1. feed' \in Nat /\ feed <= feed' /\ UNCHANGED <<stored, active, sync, reader, late>>
    BY <1>1, <1>r DEF FeedChanges
  <2>2. \A c \in Syncs : sync[c].got.basic <= feed'
    BY <1>r, <2>1 DEF AllCoherent, StockLists
  <2> QED
    BY <2>1, <2>2
    DEF StockTypes, AllCoherent, Coherent, ReadersCurrent, MonitorListCurrent
<1>2. ASSUME NEW c \in Syncs, FetchBasic(c)
      PROVE  StockTypes' /\ AllCoherent' /\ ReadersCurrent' /\ MonitorListCurrent'
  <2> DEFINE got == [NoList EXCEPT !.basic = feed]
             new == [at |-> "st", got |-> got]
  <2>1. got \in StockLists /\ got.basic = feed /\ got.st = 0 /\ got.mv = 0
    BY <1>r, NoListTyped DEF NoList, StockLists
  <2> HIDE DEF got
  <2>2. new \in SyncLocals /\ new.got = got
    BY <2>1
  <2>3. Coherent(new.got) /\ new.got.basic <= feed
    BY <1>r, <2>1, <2>2 DEF Coherent, Lost
  <2>4. sync' = [sync EXCEPT ![c] = new] /\ sync[c].at # "clear"
        /\ UNCHANGED <<feed, stored, active, reader, late>>
    BY <1>2 DEF FetchBasic, SyncBasic, got
  <2> HIDE DEF new
  <2> QED
    BY <1>s, <2>2, <2>3, <2>4
<1>3. ASSUME NEW c \in Syncs, FetchST(c)
      PROVE  StockTypes' /\ AllCoherent' /\ ReadersCurrent' /\ MonitorListCurrent'
  <2>1. PICK st \in {feed, Lost} : sync' = [sync EXCEPT ![c].at = "mv", ![c].got.st = st]
    BY <1>3 DEF FetchST
  <2> DEFINE data == [sync[c].got EXCEPT !.st = st]
             new == [sync[c] EXCEPT !.at = "mv", !.got = data]
  <2>2. sync[c].got \in StockLists /\ Coherent(sync[c].got) /\ sync[c].got.basic <= feed
        /\ st \in Nat
    BY <1>r DEF AllCoherent, Lost
  <2>3. data \in StockLists /\ Coherent(data) /\ data.basic <= feed
    BY <1>r, <2>2 DEF StockLists, Coherent, Lost
  <2>4. sync' = [sync EXCEPT ![c] = new]
    BY <1>r, <2>1
  <2> HIDE DEF data
  <2>6. new \in SyncLocals /\ new.got = data
    <3>1. sync[c] \in SyncLocals
      BY <1>r
    <3> QED
      BY <2>3, <3>1
  <2> HIDE DEF new
  <2>5. sync[c].at # "clear" /\ UNCHANGED <<feed, stored, active, reader, late>>
    BY <1>3 DEF FetchST
  <2> QED
    BY <1>s, <2>3, <2>4, <2>5, <2>6
<1>4. ASSUME NEW c \in Syncs, FetchDaily(c)
      PROVE  StockTypes' /\ AllCoherent' /\ ReadersCurrent' /\ MonitorListCurrent'
  <2>1. PICK mv \in {feed, Lost} :
          sync' = [sync EXCEPT ![c].at = "upsert", ![c].got.mv = mv]
    BY <1>4 DEF FetchDaily
  <2> DEFINE data == [sync[c].got EXCEPT !.mv = mv]
             new == [sync[c] EXCEPT !.at = "upsert", !.got = data]
  <2>2. sync[c].got \in StockLists /\ Coherent(sync[c].got) /\ sync[c].got.basic <= feed
        /\ mv \in Nat
    BY <1>r DEF AllCoherent, Lost
  <2>3. data \in StockLists /\ Coherent(data) /\ data.basic <= feed
    BY <1>r, <2>2 DEF StockLists, Coherent, Lost
  <2>4. sync' = [sync EXCEPT ![c] = new]
    BY <1>r, <2>1
  <2> HIDE DEF data
  <2>6. new \in SyncLocals /\ new.got = data
    <3>1. sync[c] \in SyncLocals
      BY <1>r
    <3> QED
      BY <2>3, <3>1
  <2> HIDE DEF new
  <2>5. sync[c].at # "clear" /\ UNCHANGED <<feed, stored, active, reader, late>>
    BY <1>4 DEF FetchDaily
  <2> QED
    BY <1>s, <2>3, <2>4, <2>5, <2>6
<1>5. ASSUME NEW c \in Syncs, Upsert(c)
      PROVE  StockTypes' /\ AllCoherent' /\ ReadersCurrent' /\ MonitorListCurrent'
  <2>1. /\ stored' = sync[c].got /\ stored' \in StockLists /\ UNCHANGED <<feed, active, late>>
        /\ sync' = [sync EXCEPT ![c].at = "clear"]
    BY <1>5, <1>r DEF Upsert, Upserted
  <2>2. /\ sync' \in [Syncs -> SyncLocals] /\ sync'[c].at = "clear"
        /\ \A d \in Syncs : sync'[d].got = sync[d].got
    BY <1>r, <2>1
  <2>3. reader' = [r \in Readers |->
          [reader[r] EXCEPT !.late = @ \/ reader[r].at \in {"fill", "set"}]]
    BY <1>5 DEF Upsert
  <2>4. /\ reader' \in [Readers -> ReaderLocals]
        /\ \A r \in Readers : reader'[r].list = reader[r].list /\ reader'[r].at = reader[r].at
    BY <1>r, <2>3
  <2>5. \A r \in Readers : reader[r].at \in {"fill", "set"} => reader'[r].late
    BY <1>r, <2>3
  <2>6. StockTypes'
    BY <1>r, <2>1, <2>2, <2>4 DEF StockTypes
  <2>7. AllCoherent'
    BY <2>1, <2>2, <2>4 DEF AllCoherent, Coherent
  <2>8. ReadersCurrent'
    BY <2>4, <2>5 DEF ReadersCurrent
  <2>9. MonitorListCurrent'
    BY <2>2 DEF MonitorListCurrent
  <2> QED
    BY <2>6, <2>7, <2>8, <2>9
<1>6. ASSUME NEW c \in Syncs, UpsertFails(c)
      PROVE  StockTypes' /\ AllCoherent' /\ ReadersCurrent' /\ MonitorListCurrent'
  <2>1. /\ sync' = [sync EXCEPT ![c] = NoSync] /\ sync[c].at # "clear"
        /\ UNCHANGED <<feed, stored, active, reader, late>>
    BY <1>6 DEF UpsertFails
  <2>2. Coherent(NoSync.got) /\ NoSync.got.basic <= feed
    BY <1>l, <1>r, NoListTyped
  <2> QED
    BY <1>l, <1>s, <2>1, <2>2
<1>7. ASSUME NEW c \in Syncs, Invalidate(c)
      PROVE  StockTypes' /\ AllCoherent' /\ ReadersCurrent' /\ MonitorListCurrent'
  <2>1. /\ active' = NoList /\ late' = FALSE /\ sync' = [sync EXCEPT ![c] = NoSync]
        /\ UNCHANGED <<feed, stored, reader>>
    BY <1>7 DEF Invalidate, Cleared
  <2>2. \A d \in Syncs : sync'[d] \in {sync[d], NoSync}
    BY <1>r, <2>1
  <2>3. StockTypes'
    BY <1>l, <1>r, <2>1, NoListTyped DEF StockTypes
  <2>4. AllCoherent'
    BY <1>l, <1>r, <2>1, <2>2, NoListTyped DEF AllCoherent, Coherent
  <2>5. ReadersCurrent' /\ MonitorListCurrent'
    BY <2>1 DEF ReadersCurrent, MonitorListCurrent
  <2> QED
    BY <2>3, <2>4, <2>5
\* A step of a reader that caches nothing.
<1>t. ASSUME NEW r \in Readers, NEW new \in ReaderLocals, reader' = [reader EXCEPT ![r] = new],
             Coherent(new.list),
             new.at \in {"fill", "set"} => new.late \/ new.list = stored,
             UNCHANGED <<feed, stored, active, sync, late>>
      PROVE  StockTypes' /\ AllCoherent' /\ ReadersCurrent' /\ MonitorListCurrent'
  <2>1. StockTypes'
    BY <1>r, <1>t DEF StockTypes
  <2>2. \A q \in Readers : reader'[q] = reader[q] \/ reader'[q] = new
    BY <1>r, <1>t
  <2>3. AllCoherent'
    BY <1>t, <2>2 DEF AllCoherent, Coherent
  <2>4. MonitorListCurrent' /\ ReadersCurrent'
    BY <1>t, <2>2 DEF MonitorListCurrent, ReadersCurrent
  <2> QED
    BY <2>1, <2>3, <2>4
<1>8. ASSUME NEW r \in Readers, GetActiveStocks(r)
      PROVE  StockTypes' /\ AllCoherent' /\ ReadersCurrent' /\ MonitorListCurrent'
  <2>1. PICK again \in BOOLEAN :
          reader' = [reader EXCEPT ![r] =
            [at |-> IF active = NoList THEN "read" ELSE "set",
             list |-> active, again |-> again,
             late |-> late \/ \E c \in Syncs : sync[c].at = "clear"]]
    BY <1>8 DEF GetActiveStocks
  <2> DEFINE clearing == \E c \in Syncs : sync[c].at = "clear"
             new == [at |-> IF active = NoList THEN "read" ELSE "set",
                     list |-> active, again |-> again, late |-> late \/ clearing]
  <2>2. (late \/ clearing) \in BOOLEAN
    OBVIOUS
  <2>3. active # NoList => late \/ clearing \/ active = stored
    BY DEF MonitorListCurrent
  <2>4. reader' = [reader EXCEPT ![r] = new] /\ UNCHANGED <<feed, stored, active, sync, late>>
    BY <1>8, <2>1 DEF GetActiveStocks
  <2> HIDE DEF clearing
  <2>5. new \in ReaderLocals /\ new.list = active
    BY <1>r, <2>2
  <2>6. new.at \in {"fill", "set"} => new.late \/ new.list = stored
    BY <2>3
  <2>7. Coherent(new.list)
    BY <2>5 DEF AllCoherent
  <2> HIDE DEF new
  <2> QED
    BY <1>t, <2>4, <2>5, <2>6, <2>7
<1>9. ASSUME NEW r \in Readers, ReadStocks(r)
      PROVE  StockTypes' /\ AllCoherent' /\ ReadersCurrent' /\ MonitorListCurrent'
  <2> DEFINE new == [reader[r] EXCEPT !.at = "fill", !.list = stored, !.late = FALSE]
  <2>1. reader' = [reader EXCEPT ![r] = new] /\ UNCHANGED <<feed, stored, active, sync, late>>
    BY <1>9, <1>r DEF ReadStocks
  <2>2. new \in ReaderLocals /\ new.list = stored
    BY <1>r
  <2>3. Coherent(new.list)
    BY <2>2 DEF AllCoherent
  <2> HIDE DEF new
  <2> QED
    BY <1>t, <2>1, <2>2, <2>3
<1>10. ASSUME NEW r \in Readers, SetActiveStocks(r)
      PROVE  StockTypes' /\ AllCoherent' /\ ReadersCurrent' /\ MonitorListCurrent'
  <2>1. /\ active' = reader[r].list /\ late' = reader[r].late
        /\ reader[r].at \in {"fill", "set"} /\ UNCHANGED <<feed, stored, sync>>
    BY <1>10 DEF SetActiveStocks
  <2>2. \A q \in Readers :
          \/ reader'[q] = reader[q]
          \/ q = r /\ reader'[q] \in {[reader[r] EXCEPT !.at = "set"], Resting}
    BY <1>10, <1>r DEF SetActiveStocks
  <2>3. /\ [reader[r] EXCEPT !.at = "set"] \in ReaderLocals
        /\ [reader[r] EXCEPT !.at = "set"].list = reader[r].list
        /\ [reader[r] EXCEPT !.at = "set"].late = reader[r].late
    BY <1>r
  <2>4. reader' \in [Readers -> ReaderLocals]
    <3>1. \A q \in Readers : reader'[q] \in ReaderLocals
      BY <1>l, <1>r, <2>2, <2>3
    <3>2. reader' = [q \in Readers |-> reader'[q]]
      BY <1>10, <1>r DEF SetActiveStocks
    <3> HIDE DEF ReaderLocals
    <3> QED
      BY <3>1, <3>2
  <2>5. StockTypes'
    BY <1>r, <2>1, <2>4 DEF StockTypes
  <2>6. AllCoherent'
    <3>1. \A q \in Readers : Coherent(reader'[q].list)
      BY <1>l, <2>2, <2>3, NoListTyped DEF AllCoherent
    <3>2. Coherent(active')
      BY <2>1 DEF AllCoherent
    <3> QED
      BY <2>1, <3>1, <3>2 DEF AllCoherent, Coherent
  <2>7. reader[r].late \/ reader[r].list = stored
    BY <2>1 DEF ReadersCurrent
  <2>8. ReadersCurrent'
    BY <1>l, <2>1, <2>2, <2>3, <2>7 DEF ReadersCurrent
  <2>9. MonitorListCurrent'
    BY <2>1, <2>7 DEF MonitorListCurrent
  <2> QED
    BY <2>5, <2>6, <2>8, <2>9
<1>11. CASE Expires
  <2>1. active' = NoList /\ late' = FALSE /\ UNCHANGED <<feed, stored, sync, reader>>
    BY <1>11 DEF Expires
  <2> QED
    BY <1>r, <2>1, NoListTyped
    DEF StockTypes, AllCoherent, Coherent, ReadersCurrent, MonitorListCurrent
<1>12. CASE ProcessRestarts
  <2>1. /\ active' = NoList /\ late' = FALSE /\ UNCHANGED <<feed, stored>>
        /\ sync' = [c \in Syncs |-> NoSync] /\ reader' = [r \in Readers |-> Resting]
    BY <1>12 DEF ProcessRestarts
  <2>2. StockTypes'
    BY <1>l, <1>r, <2>1, NoListTyped DEF StockTypes
  <2>3. AllCoherent'
    BY <1>l, <1>r, <2>1, NoListTyped DEF AllCoherent, Coherent
  <2>4. ReadersCurrent' /\ MonitorListCurrent'
    BY <1>l, <2>1 DEF ReadersCurrent, MonitorListCurrent
  <2> QED
    BY <2>2, <2>3, <2>4
<1>13. CASE UNCHANGED stockVars
  BY <1>13
  DEF stockVars, StockTypes, AllCoherent, Coherent, ReadersCurrent, MonitorListCurrent
<1> QED
  BY <1>1, <1>2, <1>3, <1>4, <1>5, <1>6, <1>7, <1>8, <1>9, <1>10, <1>11, <1>12, <1>13
  DEF StockNext

\* Whatever feeds fail and however syncs overlap, no list combines the names of one sync
\* with marks or values of an earlier one.
THEOREM NoMixedColumns == StockSpec => []ColumnsOfOneSync
<1>1. AllCoherent => ColumnsOfOneSync
  BY DEF AllCoherent, Coherent, ColumnsOfOneSync
<1> QED
  BY <1>1, StockInitHolds, StockNextHolds, PTL DEF StockSpec

\* However many syncs, ticks and pre-market jobs there are: the monitor's list is the
\* table's, but for syncs that are not through and readers that knew to be late.
THEOREM ListIsCurrent == StockSpec => []MonitorListCurrent
<1> QED
  BY StockInitHolds, StockNextHolds, PTL DEF StockSpec

-------------------------------------------------------------------------------
(***************************************************************************)
(* The counts of topics.                                                   *)
(***************************************************************************)
Maps == [Topics -> Nat]

CallSteps ==
  {"idle", "all", "upsert", "load", "fill", "again", "loadMissing", "fillMissing", "done"}

CallLocals ==
  [at : CallSteps, topics : SUBSET Topics, counts : Maps, copy : Maps,
   known : SUBSET Topics, old : BOOLEAN]

CountTypes ==
  /\ edits \in Nat
  /\ related \in Maps /\ table \in Maps /\ cache \in Maps
  /\ call \in [Users -> CallLocals]
  /\ carried \in BOOLEAN

\* The topics a call has found in a copy of the map it has counts for; when it is
\* through, it has counts for all that the table had.  No row of the table goes away.
HasCounts(x) ==
  /\ x.known \subseteq Keys(table)
  /\ x.at = "loadMissing" => x.topics \cap Keys(x.copy) \subseteq Keys(x.counts)
  /\ x.at \in {"done", "fillMissing"} => x.topics \cap x.known \subseteq Keys(x.counts)

CallsHaveCounts == \A c \in Users : HasCounts(call[c])

OfToday(map) == \A t \in Keys(map) : map[t] \in had[t]

\* What a call is about to cache is of today, as is what is in the table, if the call
\* is and what it has found in the cache was.
Fresh(x) == x.at \in {"fill", "loadMissing", "fillMissing"} => x.old \/ carried \/ OfToday(x.copy)

CallsFresh ==
  /\ \A t \in Topics : table[t] \in had[t]
  /\ \A c \in Users : Fresh(call[c])

LEMMA MapsTyped ==
  /\ Empty \in Maps /\ Keys(Empty) = {}
  /\ \A m, n \in Maps : /\ Over(m, n) \in Maps
                        /\ Keys(Over(m, n)) = Keys(m) \cup Keys(n)
                        /\ \A t \in Topics : Over(m, n)[t] \in {m[t], n[t]}
  /\ \A m \in Maps, topics \in SUBSET Topics :
       /\ Only(m, topics) \in Maps
       /\ Keys(Only(m, topics)) = topics \cap Keys(m)
       /\ \A t \in Keys(Only(m, topics)) : Only(m, topics)[t] = m[t]
<1>1. Empty \in Maps /\ Keys(Empty) = {}
  BY DEF Empty, Maps, Keys
<1>2. ASSUME NEW m \in Maps, NEW n \in Maps
      PROVE  /\ Over(m, n) \in Maps
             /\ Keys(Over(m, n)) = Keys(m) \cup Keys(n)
             /\ \A t \in Topics : Over(m, n)[t] \in {m[t], n[t]}
  BY DEF Over, Maps, Keys
<1>3. ASSUME NEW m \in Maps, NEW topics \in SUBSET Topics
      PROVE  /\ Only(m, topics) \in Maps
             /\ Keys(Only(m, topics)) = topics \cap Keys(m)
             /\ \A t \in Keys(Only(m, topics)) : Only(m, topics)[t] = m[t]
  BY DEF Only, Maps, Keys
<1> QED
  BY <1>1, <1>2, <1>3

LEMMA NoCallTyped ==
  /\ NoCall \in CallLocals /\ NoCall.at = "idle" /\ NoCall.topics = {} /\ NoCall.known = {}
  /\ NoCall.old = FALSE
BY MapsTyped DEF NoCall, CallLocals, CallSteps

\* A map that has a key is not the empty one.
LEMMA EmptyHasNoKeys == \A m \in Maps : m = Empty <=> Keys(m) = {}
BY DEF Maps, Empty, Keys

LEMMA CountsInitHolds ==
  CountsInit => CountTypes /\ CallsHaveCounts /\ CallsFresh /\ CountsAreOfToday
<1> SUFFICES ASSUME CountsInit
             PROVE  CountTypes /\ CallsHaveCounts /\ CallsFresh /\ CountsAreOfToday
  OBVIOUS
<1>1. CountTypes
  BY MapsTyped, NoCallTyped DEF CountsInit, CountTypes
<1>2. CallsHaveCounts
  BY NoCallTyped DEF CountsInit, CallsHaveCounts, HasCounts
<1>3. \A t \in Topics : table[t] \in had[t]
  BY DEF CountsInit, Empty
<1>4. CallsFresh
  BY <1>3, NoCallTyped DEF CountsInit, CallsFresh, Fresh
<1>5. CountsAreOfToday
  BY MapsTyped DEF CountsInit, CountsAreOfToday
<1> QED
  BY <1>1, <1>2, <1>4, <1>5

LEMMA CountsNextHolds ==
  CountTypes /\ CallsHaveCounts /\ CallsFresh /\ CountsAreOfToday /\ [CountsNext]_countVars
    => CountTypes' /\ CallsHaveCounts' /\ CallsFresh' /\ CountsAreOfToday'
<1> SUFFICES ASSUME CountTypes, CallsHaveCounts, CallsFresh, CountsAreOfToday,
                    [CountsNext]_countVars
             PROVE  CountTypes' /\ CallsHaveCounts' /\ CallsFresh' /\ CountsAreOfToday'
  OBVIOUS
<1>r. /\ edits \in Nat /\ related \in Maps /\ table \in Maps /\ cache \in Maps
      /\ \A c \in Users : call[c] \in CallLocals
      /\ call \in [Users -> CallLocals] /\ carried \in BOOLEAN
  BY DEF CountTypes
<1>f. \A c \in Users : /\ call[c].topics \in SUBSET Topics /\ call[c].known \in SUBSET Topics
                       /\ call[c].counts \in Maps /\ call[c].copy \in Maps
                       /\ call[c].old \in BOOLEAN
  BY <1>r DEF CallLocals
\* A step of one call that leaves table and cache alone.
<1>s. ASSUME NEW c \in Users, NEW new \in CallLocals, call' = [call EXCEPT ![c] = new],
             HasCounts(new), Fresh(new),
             UNCHANGED <<edits, related, table, cache, had, carried>>
      PROVE  CountTypes' /\ CallsHaveCounts' /\ CallsFresh' /\ CountsAreOfToday'
  <2>1. CountTypes'
    BY <1>r, <1>s DEF CountTypes
  <2>2. \A d \in Users : call'[d] \in {call[d], new}
    BY <1>r, <1>s
  <2>3. CallsHaveCounts'
    BY <1>s, <2>2 DEF CallsHaveCounts, HasCounts, Keys
  <2>4. CallsFresh'
    BY <1>s, <2>2 DEF CallsFresh, Fresh, OfToday, Keys
  <2>5. CountsAreOfToday'
    BY <1>s DEF CountsAreOfToday, Keys
  <2> QED
    BY <2>1, <2>3, <2>4, <2>5
<1>1. ASSUME NEW t \in Topics, EditRelations(t)
      PROVE  CountTypes' /\ CallsHaveCounts' /\ CallsFresh' /\ CountsAreOfToday'
  <2>1. edits' \in Nat /\ related' \in Maps /\ UNCHANGED <<table, cache, call, had, carried>>
    BY <1>1, <1>r DEF EditRelations, Maps
  <2> QED
    BY <1>r, <2>1 DEF CountTypes, CallsHaveCounts, HasCounts, CallsFresh, Fresh, OfToday,
      CountsAreOfToday, Keys
\* A call begins, with nothing in hand that it could cache.
<1>b. ASSUME NEW c \in Users, NEW new \in CallLocals, BeginCall(c, new),
             new.at \in {"all", "upsert"}, new.known \subseteq Keys(table)
      PROVE  CountTypes' /\ CallsHaveCounts' /\ CallsFresh' /\ CountsAreOfToday'
  <2>1. HasCounts(new) /\ Fresh(new)
    BY <1>b DEF HasCounts, Fresh
  <2> QED
    BY <1>b, <1>s, <2>1 DEF BeginCall
<1>2. ASSUME NEW c \in Users, BeginRun(c)
      PROVE  CountTypes' /\ CallsHaveCounts' /\ CallsFresh' /\ CountsAreOfToday'
  <2>1. PICK topics \in SUBSET Topics \ {{}} :
          BeginCall(c, [NoCall EXCEPT !.at = "all", !.topics = topics, !.known = Keys(table)])
    BY <1>2 DEF BeginRun
  <2> DEFINE new == [NoCall EXCEPT !.at = "all", !.topics = topics, !.known = Keys(table)]
  <2>2. Keys(table) \in SUBSET Topics
    BY DEF Keys
  <2>3. new \in CallLocals /\ new.at = "all" /\ new.known = Keys(table)
    BY <2>2, NoCallTyped DEF CallLocals, CallSteps
  <2> HIDE DEF new
  <2> QED
    BY <1>b, <2>1, <2>3 DEF new
<1>3. ASSUME NEW c \in Users, BeginWarmup(c)
      PROVE  CountTypes' /\ CallsHaveCounts' /\ CallsFresh' /\ CountsAreOfToday'
  <2> DEFINE new == [NoCall EXCEPT !.at = "all"]
  <2>1. new \in CallLocals /\ new.at = "all" /\ new.known = {}
    BY NoCallTyped DEF CallLocals, CallSteps
  <2>2. BeginCall(c, new)
    BY <1>3 DEF BeginWarmup
  <2> HIDE DEF new
  <2> QED
    BY <1>b, <2>1, <2>2
<1>4. ASSUME NEW c \in Users, AggregateFromRelations(c)
      PROVE  CountTypes' /\ CallsHaveCounts' /\ CallsFresh' /\ CountsAreOfToday'
  <2> DEFINE new == [NoCall EXCEPT !.at = "upsert", !.copy = related]
  <2>1. new \in CallLocals /\ new.at = "upsert" /\ new.known = {}
    BY <1>r, NoCallTyped DEF CallLocals, CallSteps
  <2>2. BeginCall(c, new)
    BY <1>4 DEF AggregateFromRelations
  <2> HIDE DEF new
  <2> QED
    BY <1>b, <2>1, <2>2
<1>5. ASSUME NEW c \in Users, UpsertBatch(c)
      PROVE  CountTypes' /\ CallsHaveCounts' /\ CallsFresh' /\ CountsAreOfToday'
  <2>1. /\ table' = Over(call[c].copy, table) /\ call' = [call EXCEPT ![c].at = "all"]
        /\ had' = [t \in Topics |-> had[t] \cup {table'[t]}]
        /\ UNCHANGED <<edits, related, cache, carried>>
    BY <1>5 DEF UpsertBatch
  <2>2. table' \in Maps /\ Keys(table) \subseteq Keys(table')
    BY <1>f, <1>r, <2>1, MapsTyped DEF Keys
  <2>3. \A d \in Users : \/ call'[d] = call[d]
                         \/ /\ call'[d].at = "all" /\ call'[d].known = call[d].known
    BY <1>r, <2>1 DEF CallLocals
  <2>4. call' \in [Users -> CallLocals]
    BY <1>r, <2>1 DEF CallLocals, CallSteps
  <2>5. CountTypes'
    BY <1>r, <2>1, <2>2, <2>4 DEF CountTypes
  <2>6. CallsHaveCounts'
    BY <2>2, <2>3 DEF CallsHaveCounts, HasCounts, Keys
  <2>7. \A t \in Topics : had[t] \subseteq had'[t] /\ table'[t] \in had'[t]
    BY <2>1
  <2>8. CallsFresh'
    BY <2>1, <2>3, <2>7 DEF CallsFresh, Fresh, OfToday, Keys
  <2>9. CountsAreOfToday'
    BY <2>1, <2>7 DEF CountsAreOfToday, Keys
  <2> QED
    BY <2>5, <2>6, <2>8, <2>9
<1>6. ASSUME NEW c \in Users, Fails(c)
      PROVE  CountTypes' /\ CallsHaveCounts' /\ CallsFresh' /\ CountsAreOfToday'
  <2>1. HasCounts(NoCall) /\ Fresh(NoCall)
    BY NoCallTyped DEF HasCounts, Fresh
  <2> QED
    BY <1>6, <1>s, <2>1, NoCallTyped DEF Fails
<1>7. ASSUME NEW c \in Users, GetAllCountMap(c)
      PROVE  CountTypes' /\ CallsHaveCounts' /\ CallsFresh' /\ CountsAreOfToday'
  <2> DEFINE at == IF cache = Empty THEN "load" ELSE After(call[c].topics, cache)
             new == [call[c] EXCEPT !.at = at, !.counts = cache]
  <2>1. /\ at \in {"load", "done", "again"}
        /\ at = "done" => call[c].topics \subseteq Keys(cache)
    BY DEF After
  <2>2. call' = [call EXCEPT ![c] = new]
        /\ UNCHANGED <<edits, related, table, cache, had, carried>>
    BY <1>7, <1>r DEF GetAllCountMap
  <2> HIDE DEF at
  <2>3. /\ new \in CallLocals /\ new.at = at /\ new.counts = cache
        /\ new.topics = call[c].topics /\ new.known = call[c].known
    BY <1>r, <2>1 DEF CallLocals, CallSteps
  <2>4. HasCounts(new) /\ Fresh(new)
    BY <2>1, <2>3 DEF HasCounts, Fresh, CallsHaveCounts
  <2> HIDE DEF new
  <2> QED
    BY <1>s, <2>2, <2>3, <2>4
<1>8. ASSUME NEW c \in Users, LoadAll(c)
      PROVE  CountTypes' /\ CallsHaveCounts' /\ CallsFresh' /\ CountsAreOfToday'
  <2> DEFINE at == IF table = Empty THEN "done" ELSE "fill"
             new == [call[c] EXCEPT !.at = at, !.counts = table, !.copy = table]
  <2>1. call' = [call EXCEPT ![c] = new]
        /\ UNCHANGED <<edits, related, table, cache, had, carried>>
    BY <1>8, <1>r DEF LoadAll
  <2>2. at \in {"done", "fill"}
    OBVIOUS
  <2> HIDE DEF at
  <2>3. /\ new \in CallLocals /\ new.at = at /\ new.counts = table /\ new.copy = table
        /\ new.topics = call[c].topics /\ new.known = call[c].known
    BY <1>r, <2>2 DEF CallLocals, CallSteps
  <2>4. HasCounts(new)
    BY <2>2, <2>3 DEF HasCounts, CallsHaveCounts
  <2>5. OfToday(table)
    BY DEF OfToday, CallsFresh, Keys
  <2>6. Fresh(new)
    BY <2>3, <2>5 DEF Fresh
  <2> HIDE DEF new
  <2> QED
    BY <1>s, <2>1, <2>3, <2>4, <2>6
<1>9. ASSUME NEW c \in Users, ReadAgain(c)
      PROVE  CountTypes' /\ CallsHaveCounts' /\ CallsFresh' /\ CountsAreOfToday'
  <2> DEFINE missing == call[c].topics \ Keys(call[c].counts)
             at == IF missing \subseteq Keys(cache) THEN "done" ELSE "loadMissing"
             found == Only(cache, missing)
             counts == Over(call[c].counts, found)
             new == [call[c] EXCEPT !.at = at, !.counts = counts, !.copy = cache]
  <2>1. call' = [call EXCEPT ![c] = new]
        /\ UNCHANGED <<edits, related, table, cache, had, carried>>
    BY <1>9, <1>r DEF ReadAgain, Found
  <2>2. found \in Maps /\ Keys(found) = missing \cap Keys(cache)
    BY <1>f, <1>r, MapsTyped
  <2>3. counts \in Maps /\ Keys(counts) = Keys(call[c].counts) \cup (missing \cap Keys(cache))
    <3>1. call[c].counts \in Maps
      BY <1>f
    <3> HIDE DEF found, missing
    <3>2. counts \in Maps /\ Keys(counts) = Keys(call[c].counts) \cup Keys(found)
      BY <2>2, <3>1, MapsTyped
    <3> QED
      BY <2>2, <3>2
  <2>4. at \in {"done", "loadMissing"} /\ (at = "done" => missing \subseteq Keys(cache))
    OBVIOUS
  <2> HIDE DEF at, counts, found
  <2>5. /\ new \in CallLocals /\ new.at = at /\ new.counts = counts /\ new.copy = cache
        /\ new.topics = call[c].topics /\ new.known = call[c].known
    BY <1>r, <2>3, <2>4 DEF CallLocals, CallSteps
  <2> HIDE DEF new
  <2>6. HasCounts(new)
    BY <2>3, <2>4, <2>5 DEF HasCounts, CallsHaveCounts
  <2>7. Fresh(new)
    BY <2>5 DEF Fresh, OfToday, CountsAreOfToday
  <2> QED
    BY <1>s, <2>1, <2>5, <2>6, <2>7
<1>10. ASSUME NEW c \in Users, LoadMissing(c)
      PROVE  CountTypes' /\ CallsHaveCounts' /\ CallsFresh' /\ CountsAreOfToday'
  <2> DEFINE missing == call[c].topics \ (Keys(call[c].counts) \cup Keys(call[c].copy))
             loaded == Only(table, missing)
             at == IF loaded = Empty THEN "done" ELSE "fillMissing"
             counts == Over(call[c].counts, loaded)
             copy == Over(loaded, call[c].copy)
             new == [call[c] EXCEPT !.at = at, !.counts = counts, !.copy = copy]
  <2>1. call' = [call EXCEPT ![c] = new]
        /\ UNCHANGED <<edits, related, table, cache, had, carried>>
    BY <1>10, <1>r DEF LoadMissing
  <2>2. /\ loaded \in Maps /\ Keys(loaded) = missing \cap Keys(table)
        /\ \A t \in Keys(loaded) : loaded[t] = table[t]
    BY <1>f, <1>r, MapsTyped
  <2>3. counts \in Maps /\ Keys(counts) = Keys(call[c].counts) \cup (missing \cap Keys(table))
    <3>1. call[c].counts \in Maps
      BY <1>f
    <3> HIDE DEF loaded, missing
    <3>2. counts \in Maps /\ Keys(counts) = Keys(call[c].counts) \cup Keys(loaded)
      BY <2>2, <3>1, MapsTyped
    <3> QED
      BY <2>2, <3>2
  <2>4. /\ copy \in Maps /\ Keys(copy) = Keys(loaded) \cup Keys(call[c].copy)
        /\ \A t \in Topics : copy[t] \in {loaded[t], call[c].copy[t]}
    BY <1>f, <2>2, MapsTyped
  <2>5. at \in {"done", "fillMissing"}
    OBVIOUS
  <2>6. call[c].topics \cap Keys(call[c].copy) \subseteq Keys(call[c].counts)
        /\ call[c].known \subseteq Keys(table)
    BY <1>10 DEF LoadMissing, CallsHaveCounts, HasCounts
  <2>7. call[c].topics \cap call[c].known \subseteq Keys(counts)
    BY <2>3, <2>6
  <2>8. call[c].old \/ carried \/ OfToday(call[c].copy)
    BY <1>10 DEF LoadMissing, CallsFresh, Fresh
  <2>9. OfToday(call[c].copy) => OfToday(copy)
    <3> SUFFICES ASSUME OfToday(call[c].copy), NEW t \in Keys(copy) PROVE copy[t] \in had[t]
      BY DEF OfToday
    <3>1. t \in Topics /\ copy[t] # 0
      BY DEF Keys
    <3>2. CASE copy[t] = loaded[t]
      BY <2>2, <3>1, <3>2 DEF CallsFresh, Keys
    <3>3. CASE copy[t] = call[c].copy[t]
      BY <3>1, <3>3 DEF OfToday, Keys
    <3> QED
      BY <2>4, <3>1, <3>2, <3>3
  <2> HIDE DEF at, counts, copy, loaded
  <2>10. /\ new \in CallLocals /\ new.at = at /\ new.counts = counts /\ new.copy = copy
         /\ new.topics = call[c].topics /\ new.known = call[c].known /\ new.old = call[c].old
    BY <1>r, <2>3, <2>4, <2>5 DEF CallLocals, CallSteps
  <2> HIDE DEF new
  <2>11. HasCounts(new)
    BY <2>5, <2>6, <2>7, <2>10 DEF HasCounts
  <2>12. Fresh(new)
    BY <2>8, <2>9, <2>10 DEF Fresh
  <2> QED
    BY <1>s, <2>1, <2>10, <2>11, <2>12
<1>11. ASSUME NEW c \in Users, SetAll(c)
      PROVE  CountTypes' /\ CallsHaveCounts' /\ CallsFresh' /\ CountsAreOfToday'
  <2> DEFINE at == IF call[c].at = "fill" THEN After(call[c].topics, call[c].counts)
                   ELSE "done"
             new == [call[c] EXCEPT !.at = at]
  <2>1. /\ call[c].at \in {"fill", "fillMissing"} /\ cache' = call[c].copy
        /\ carried' = (carried \/ call[c].old) /\ UNCHANGED <<edits, related, table, had>>
    BY <1>11 DEF SetAll
  <2>2. call' = [call EXCEPT ![c] = new]
    BY <1>11, <1>r DEF SetAll
  <2>3. /\ at \in {"done", "again"}
        /\ at = "done" => \/ call[c].at = "fillMissing"
                          \/ call[c].topics \subseteq Keys(call[c].counts)
    BY <2>1 DEF After
  <2> HIDE DEF at
  <2>4. /\ new \in CallLocals /\ new.at = at /\ new.counts = call[c].counts
        /\ new.topics = call[c].topics /\ new.known = call[c].known
    BY <1>r, <2>3 DEF CallLocals, CallSteps
  <2> HIDE DEF new
  <2>5. HasCounts(new)
    BY <2>3, <2>4 DEF HasCounts, CallsHaveCounts
  <2>6. \A d \in Users : call'[d] = call[d] \/ call'[d] = new
    BY <1>r, <2>2
  <2>7. carried' \in BOOLEAN /\ (carried => carried') /\ (call[c].old => carried')
    BY <1>f, <1>r, <2>1
  <2>8. CountTypes'
    BY <1>f, <1>r, <2>1, <2>2, <2>4, <2>7 DEF CountTypes
  <2>9. CallsHaveCounts'
    BY <2>1, <2>5, <2>6 DEF CallsHaveCounts, HasCounts, Keys
  <2>10. CallsFresh'
    BY <2>1, <2>3, <2>4, <2>6, <2>7 DEF CallsFresh, Fresh, OfToday, Keys
  <2>11. CountsAreOfToday'
    <3>1. call[c].old \/ carried \/ OfToday(call[c].copy)
      BY <2>1 DEF CallsFresh, Fresh
    <3> QED
      BY <2>1, <2>7, <3>1 DEF CountsAreOfToday, OfToday, Keys
  <2> QED
    BY <2>8, <2>9, <2>10, <2>11
<1>12. CASE NewDay
  <2>1. /\ cache' = Empty /\ had' = [t \in Topics |-> {table[t]}] /\ carried' = FALSE
        /\ call' = [c \in Users |-> [call[c] EXCEPT !.old = TRUE]]
        /\ UNCHANGED <<edits, related, table>>
    BY <1>12 DEF NewDay, Expired
  <2>2. \A c \in Users : /\ call'[c] \in CallLocals /\ call'[c].old = TRUE
                         /\ call'[c].at = call[c].at /\ call'[c].counts = call[c].counts
                         /\ call'[c].topics = call[c].topics /\ call'[c].copy = call[c].copy
                         /\ call'[c].known = call[c].known
    BY <1>r, <2>1 DEF CallLocals
  <2>3. call' \in [Users -> CallLocals]
    BY <2>1, <2>2
  <2>4. CountTypes'
    BY <1>r, <2>1, <2>3, MapsTyped DEF CountTypes
  <2>5. CallsHaveCounts'
    BY <2>1, <2>2 DEF CallsHaveCounts, HasCounts, Keys
  <2>6. CallsFresh'
    BY <2>1, <2>2 DEF CallsFresh, Fresh
  <2>7. CountsAreOfToday'
    BY <2>1 DEF CountsAreOfToday, Keys, Empty
  <2> QED
    BY <2>4, <2>5, <2>6, <2>7
<1>13. CASE Restart
  <2>1. /\ cache' = Empty /\ call' = [c \in Users |-> NoCall]
        /\ UNCHANGED <<edits, related, table, had, carried>>
    BY <1>13 DEF Restart
  <2>2. CountTypes'
    BY <1>r, <2>1, MapsTyped, NoCallTyped DEF CountTypes
  <2>3. CallsHaveCounts'
    BY <2>1, NoCallTyped DEF CallsHaveCounts, HasCounts
  <2>4. CallsFresh'
    BY <2>1, NoCallTyped DEF CallsFresh, Fresh
  <2>5. CountsAreOfToday'
    BY <2>1 DEF CountsAreOfToday, Keys, Empty
  <2> QED
    BY <2>2, <2>3, <2>4, <2>5
<1>14. CASE UNCHANGED countVars
  BY <1>14 DEF countVars, CountTypes, CallsHaveCounts, HasCounts, CallsFresh, Fresh, OfToday,
    CountsAreOfToday, Keys
<1> QED
  BY <1>1, <1>2, <1>3, <1>4, <1>5, <1>6, <1>7, <1>8, <1>9, <1>10, <1>11, <1>12, <1>13,
     <1>14 DEF CountsNext

\* A run has a count for each of its topics the table had when it began, whatever number
\* of runs, warm-ups and recounts replace the cached map meanwhile.
THEOREM EveryRunHasCounts == CountsSpec => []RunsHaveCounts
<1>1. CallsHaveCounts => RunsHaveCounts
  BY DEF CallsHaveCounts, HasCounts, RunsHaveCounts
<1> QED
  BY <1>1, CountsInitHolds, CountsNextHolds, PTL DEF CountsSpec

\* No cached count is of an earlier day, unless a call of that day has cached it.
THEOREM CachedCountsOfToday == CountsSpec => []CountsAreOfToday
<1> QED
  BY CountsInitHolds, CountsNextHolds, PTL DEF CountsSpec

-------------------------------------------------------------------------------
(***************************************************************************)
(* The topics of past days.                                                *)
(***************************************************************************)
AnyTopics == Filings \cup {RowLess, Uncached}

Viewings ==
  [at : {"idle", "read", "fill", "show"}, day : Dates \cup {NoDay}, topic : AnyTopics,
   sure : BOOLEAN]

Takings ==
  [at : {"idle", "delete", "dropDeleted", "insert", "dropInserted"},
   day : Dates \cup {NoDay}, topic : AnyTopics]

Edits ==
  [at : {"idle", "refresh", "warmup", "rows", "next", "update", "drop"}, left : SUBSET Dates,
   day : Dates \cup {NoDay}, topic : AnyTopics, clear : BOOLEAN]

Browsings == [at : {"idle", "fill", "again"}, rows : Times]

ColumnTypes ==
  /\ manual \in Times
  /\ known \in SUBSET Times
  /\ browse \in [Browsers -> Browsings]
  /\ column \in [Dates -> AnyTopics]
  /\ pages \in [Dates -> AnyTopics]
  /\ view \in [Views -> Viewings]
  /\ \A v \in Views : view[v].at # "idle" => view[v].day \in Dates
  /\ job \in [Jobs -> Takings]
  /\ \A j \in Jobs : job[j].at # "idle" => job[j].day \in Dates
  /\ desk \in [Desks -> Edits]
  /\ \A e \in Desks : desk[e].at \in {"update", "drop"} => desk[e].day \in Dates
  /\ outdated \in SUBSET Dates
  /\ edited \in BOOLEAN

\* The day shows what the editor expects.
Right(d) == column[d] \in {RowLess} \cup Placements(manual, d)

NoJobs == \A j \in Jobs : job[j].at = "idle"

\* Cached relations place the stock as those of the table do.
NoneMislead == \A rows \in known : ~Mislead(rows)

\* An edit that is clear is alone, goes by cached relations that do not mislead it once
\* it has looked at them, and has filed the days it is through with.
ClearIsRight ==
  \A e \in Desks :
    desk[e].clear =>
      /\ NoJobs /\ \A f \in Desks \ {e} : desk[f].at = "idle"
      /\ desk[e].at \in {"rows", "next", "update", "drop"} => NoneMislead
      /\ desk[e].at \in {"next", "update", "drop"} =>
           \A d \in Dates \ desk[e].left : Right(d)
      /\ desk[e].at = "update" => desk[e].topic \in Placements(manual, desk[e].day)
      /\ desk[e].at = "drop" => Right(desk[e].day)

EditedIsRight ==
  edited => NoJobs /\ (\A e \in Desks : desk[e].at = "idle") /\ \A d \in Dates : Right(d)

\* Somebody is about to drop the cached rows of the day.
Drops(d) ==
  \/ \E j \in Jobs : job[j].at \in {"dropDeleted", "dropInserted"} /\ job[j].day = d
  \/ \E e \in Desks : desk[e].at = "drop" /\ desk[e].day = d

PagesFollow == \A d \in Dates \ outdated : pages[d] \in {Uncached, column[d]} \/ Drops(d)

ViewsFollow ==
  \A v \in Views :
    /\ view[v].at = "fill" =>
         view[v].topic = column[view[v].day] \/ view[v].day \in outdated
    /\ view[v].sure =>
         /\ edited
         /\ view[v].at \in {"fill", "show"} => view[v].topic = column[view[v].day]

ColumnInv == ColumnTypes /\ ClearIsRight /\ EditedIsRight /\ PagesFollow /\ ViewsFollow

LEMMA PlacementsTyped ==
  ASSUME NEW rows, NEW d \in Dates
  PROVE  Placements(rows, d) \subseteq AnyTopics
BY DEF Placements, Latest, AnyTopics, Filings

\* What relations make of the stock does not change.
LEMMA RelationsStay ==
  ASSUME manual' = manual
  PROVE  /\ \A d : Placements(manual, d)' = Placements(manual, d)
         /\ \A rows : Mislead(rows)' = Mislead(rows)
BY DEF Placements, Latest, Mislead

\* Relations that do not mislead place the stock as those of the table.
LEMMA PlacedAlike ==
  ASSUME NEW rows, ~Mislead(rows), NEW d
  PROVE  Placements(rows, d) = Placements(manual, d)
BY DEF Mislead, Placements

LEMMA RelationsTyped == ColumnTypes => Relations \in SUBSET Times /\ Relations # {}
BY DEF ColumnTypes, Relations

LEMMA TableDoesNotMislead == ~Mislead(manual)
BY DEF Mislead

LEMMA IdleOnes ==
  /\ NoViewing \in Viewings /\ NoViewing.at = "idle" /\ ~NoViewing.sure
  /\ NoTaking \in Takings /\ NoTaking.at = "idle"
  /\ NoEdit \in Edits /\ NoEdit.at = "idle" /\ ~NoEdit.clear
  /\ NoTimes \in Times /\ NoBrowsing \in Browsings
BY DEF NoViewing, Viewings, NoTaking, Takings, NoEdit, Edits, AnyTopics, NoTimes, Times,
       NoBrowsing, Browsings

LEMMA ColumnInitHolds == ColumnInit => ColumnInv
<1> SUFFICES ASSUME ColumnInit PROVE ColumnInv
  OBVIOUS
<1>1. ColumnTypes
  <2>1. column \in [Dates -> AnyTopics]
    BY ColumnAssumption DEF ColumnInit, AnyTopics, Filings
  <2> QED
    BY <2>1, IdleOnes DEF ColumnInit, ColumnTypes, AnyTopics
<1>2. ClearIsRight /\ EditedIsRight /\ PagesFollow /\ ViewsFollow
  BY IdleOnes DEF ColumnInit, ClearIsRight, EditedIsRight, PagesFollow, ViewsFollow
<1> QED
  BY <1>1, <1>2 DEF ColumnInv

\* A step of a view that leaves column, jobs and edits alone.
LEMMA ViewStepHolds ==
  ASSUME ColumnInv, NEW v \in Views, NEW new \in Viewings, view' = [view EXCEPT ![v] = new],
         UNCHANGED <<relationVars, column, job, desk, edited, outdated>>,
         pages' \in [Dates -> AnyTopics],
         \A d \in Dates : \/ pages'[d] = pages[d]
                          \/ pages'[d] = column[d]
                          \/ d \in outdated,
         new.at # "idle" => new.day \in Dates,
         new.at = "fill" => new.topic = column[new.day],
         new.sure => /\ edited
                     /\ new.at \in {"fill", "show"} => new.topic = column[new.day]
  PROVE  ColumnInv'
<1>1. \A u \in Views : view'[u] = IF u = v THEN new ELSE view[u]
  BY DEF ColumnInv, ColumnTypes
<1>2. ColumnTypes'
  BY <1>1 DEF ColumnInv, ColumnTypes, relationVars
<1>3. ClearIsRight' /\ EditedIsRight'
  <2>1. manual' = manual /\ known' = known
    BY DEF relationVars
  <2> QED
    BY <2>1, RelationsStay
    DEF ColumnInv, ClearIsRight, EditedIsRight, Right, NoJobs, NoneMislead
<1>4. PagesFollow'
  BY DEF ColumnInv, PagesFollow, Drops
<1>5. ViewsFollow'
  BY <1>1 DEF ColumnInv, ViewsFollow
<1> QED
  BY <1>2, <1>3, <1>4, <1>5 DEF ColumnInv

\* The beginning of a write: no edit is clear any more but the one that begins, and no
\* view is sure.
LEMMA BeginHolds ==
  ASSUME ColumnInv, Disturb, UNCHANGED <<known, browse, column, pages, outdated>>,
         manual' \in Times,
         job' \in [Jobs -> Takings],
         \A j \in Jobs : /\ job'[j].at # "idle" => job'[j].day \in Dates
                         /\ \/ job'[j] = job[j]
                            \/ job[j].at = "idle",
         desk' \in [Desks -> Edits],
         \A e \in Desks :
           /\ \/ desk'[e].day = desk[e].day /\ desk'[e].at = desk[e].at
              \/ desk[e].at = "idle" /\ desk'[e].at \in {"refresh", "warmup"}
           /\ desk'[e].clear =>
                /\ \A j \in Jobs : job'[j].at = "idle"
                /\ \A f \in Desks \ {e} : desk'[f].at = "idle"
                /\ desk'[e].at \in {"refresh", "warmup"}
  PROVE  ColumnInv'
<1>1. \A v \in Views : /\ view'[v] \in Viewings /\ ~view'[v].sure
                       /\ view'[v].at = view[v].at /\ view'[v].day = view[v].day
                       /\ view'[v].topic = view[v].topic
  <2>1. SUFFICES ASSUME NEW v \in Views
                 PROVE  /\ view'[v] \in Viewings /\ ~view'[v].sure
                        /\ view'[v].at = view[v].at /\ view'[v].day = view[v].day
                        /\ view'[v].topic = view[v].topic
    OBVIOUS
  <2>2. view[v] \in Viewings /\ view'[v] = [view[v] EXCEPT !.sure = FALSE]
    BY DEF ColumnInv, ColumnTypes, Disturb
  <2> QED
    BY <2>2 DEF Viewings
<1>2. view' \in [Views -> Viewings]
  BY <1>1 DEF Disturb
<1>3. ColumnTypes'
  <2>1. \A v \in Views : view'[v].at # "idle" => view'[v].day \in Dates
    BY <1>1 DEF ColumnInv, ColumnTypes
  <2>2. \A e \in Desks : desk'[e].at \in {"update", "drop"} => desk'[e].day \in Dates
    BY DEF ColumnInv, ColumnTypes
  <2>3. /\ column' \in [Dates -> AnyTopics] /\ pages' \in [Dates -> AnyTopics]
        /\ outdated' \in SUBSET Dates /\ edited' \in BOOLEAN
        /\ known' \in SUBSET Times /\ browse' \in [Browsers -> Browsings]
    BY DEF ColumnInv, ColumnTypes, Disturb
  <2> QED
    BY <1>2, <2>1, <2>2, <2>3 DEF ColumnTypes
<1>4. ClearIsRight'
  BY DEF ClearIsRight, NoJobs
<1>5. EditedIsRight'
  BY DEF EditedIsRight, Disturb
<1>6. PagesFollow'
  <2> SUFFICES ASSUME NEW d \in Dates \ outdated, Drops(d)
               PROVE  Drops(d)'
    BY DEF ColumnInv, PagesFollow
  <2>1. CASE \E j \in Jobs : job[j].at \in {"dropDeleted", "dropInserted"} /\ job[j].day = d
    BY <2>1 DEF Drops
  <2>2. CASE \E e \in Desks : desk[e].at = "drop" /\ desk[e].day = d
    BY <2>2 DEF Drops
  <2> QED
    BY <2>1, <2>2 DEF Drops
<1>7. ViewsFollow'
  BY <1>1 DEF ColumnInv, ViewsFollow
<1> QED
  BY <1>3, <1>4, <1>5, <1>6, <1>7 DEF ColumnInv

\* A step of a job or of an editor: no edit counts as done, so that no view is sure.
LEMMA WorkHolds ==
  ASSUME ColumnInv, UNCHANGED <<manual, browse, view>>, known' \in SUBSET Times,
         \/ \E j \in Jobs : job[j].at # "idle"
         \/ \E e \in Desks : desk[e].at # "idle",
         column' \in [Dates -> AnyTopics], pages' \in [Dates -> AnyTopics],
         outdated' \in SUBSET Dates, edited' \in BOOLEAN,
         job' \in [Jobs -> Takings], desk' \in [Desks -> Edits],
         \A j \in Jobs : job'[j].at # "idle" => job'[j].day \in Dates,
         \A e \in Desks : desk'[e].at \in {"update", "drop"} => desk'[e].day \in Dates,
         ClearIsRight', EditedIsRight', PagesFollow',
         \A v \in Views : view[v].at = "fill" =>
           view[v].topic = column'[view[v].day] \/ view[v].day \in outdated'
  PROVE  ColumnInv'
<1>1. ~edited
  BY DEF ColumnInv, EditedIsRight, NoJobs
<1>2. ViewsFollow'
  BY <1>1 DEF ColumnInv, ViewsFollow
<1>3. ColumnTypes'
  BY DEF ColumnInv, ColumnTypes
<1> QED
  BY <1>2, <1>3 DEF ColumnInv

\* What a change of a row, and a drop of the cached ones, do to the readers' rows.
LEMMA WriteFollows ==
  ASSUME ColumnInv, NEW d \in Dates, NEW topic \in AnyTopics, Write(d, topic),
         UNCHANGED <<pages, view>>, Drops(d)', \A c \in Dates : Drops(c) => Drops(c)'
  PROVE  /\ PagesFollow' /\ column' \in [Dates -> AnyTopics]
         /\ \A c \in Dates : column'[c] = IF c = d THEN topic ELSE column[c]
         /\ outdated' \in SUBSET Dates
         /\ \A v \in Views : view[v].at = "fill" =>
              view[v].topic = column'[view[v].day] \/ view[v].day \in outdated'
<1>1. /\ column \in [Dates -> AnyTopics] /\ outdated \in SUBSET Dates
      /\ \A v \in Views : view[v].at # "idle" => view[v].day \in Dates
  BY DEF ColumnInv, ColumnTypes
<1>2. \A c \in Dates : column'[c] = IF c = d THEN topic ELSE column[c]
  BY <1>1 DEF Write
<1>3. column' \in [Dates -> AnyTopics] /\ outdated' \in SUBSET Dates /\ outdated \subseteq outdated'
  BY <1>1 DEF Write
<1>4. PagesFollow'
  BY <1>2, <1>3 DEF ColumnInv, PagesFollow
<1>5. ASSUME NEW v \in Views, view[v].at = "fill"
      PROVE  view[v].topic = column'[view[v].day] \/ view[v].day \in outdated'
  <2>1. view[v].day \in Unread /\ view[v].day \in Dates
    BY <1>1, <1>5 DEF Unread
  <2>2. CASE view[v].day = d
    BY <2>1, <2>2 DEF Write
  <2>3. CASE view[v].day # d
    BY <1>2, <1>3, <1>5, <2>1, <2>3 DEF ColumnInv, ViewsFollow
  <2> QED
    BY <2>2, <2>3
<1> QED
  BY <1>2, <1>3, <1>4, <1>5

LEMMA DropFollows ==
  ASSUME ColumnInv, NEW d \in Dates, Dropped(d),
         UNCHANGED <<column, view>>, \A c \in Dates \ {d} : Drops(c) => Drops(c)'
  PROVE  /\ PagesFollow' /\ pages' \in [Dates -> AnyTopics]
         /\ outdated' \in SUBSET Dates
         /\ \A v \in Views : view[v].at = "fill" =>
              view[v].topic = column'[view[v].day] \/ view[v].day \in outdated'
<1>1. /\ pages \in [Dates -> AnyTopics] /\ outdated \in SUBSET Dates
  BY DEF ColumnInv, ColumnTypes
<1>2. \A c \in Dates : pages'[c] = IF c = d THEN Uncached ELSE pages[c]
  BY <1>1 DEF Dropped
<1>3. pages' \in [Dates -> AnyTopics] /\ outdated' \in SUBSET Dates
  BY <1>1 DEF Dropped, AnyTopics
<1>4. PagesFollow'
  BY <1>2 DEF ColumnInv, PagesFollow, Dropped
<1>5. ASSUME NEW v \in Views, view[v].at = "fill"
      PROVE  view[v].topic = column'[view[v].day] \/ view[v].day \in outdated'
  <2>1. view[v].day \in Unread
    BY <1>5 DEF Unread
  <2> QED
    BY <1>5, <2>1 DEF ColumnInv, ViewsFollow, Dropped
<1> QED
  BY <1>3, <1>4, <1>5

\* A job at work: no edit is clear, and none counts as done.
LEMMA JobsStepHolds ==
  ASSUME ColumnInv, NEW j \in Jobs, NEW new \in Takings, job' = [job EXCEPT ![j] = new],
         job[j].at # "idle", new.at # "idle" => new.day \in Dates,
         UNCHANGED <<relationVars, view, desk, edited>>,
         column' \in [Dates -> AnyTopics], pages' \in [Dates -> AnyTopics],
         outdated' \in SUBSET Dates, PagesFollow',
         \A v \in Views : view[v].at = "fill" =>
           view[v].topic = column'[view[v].day] \/ view[v].day \in outdated'
  PROVE  ColumnInv'
<1>1. \A i \in Jobs : job'[i] = IF i = j THEN new ELSE job[i]
  BY DEF ColumnInv, ColumnTypes
<1>2. job' \in [Jobs -> Takings]
  BY DEF ColumnInv, ColumnTypes
<1>3. \A i \in Jobs : job'[i].at # "idle" => job'[i].day \in Dates
  BY <1>1 DEF ColumnInv, ColumnTypes
<1>4. ClearIsRight' /\ EditedIsRight'
  BY DEF ColumnInv, ClearIsRight, EditedIsRight, NoJobs
<1>5. /\ desk' \in [Desks -> Edits] /\ edited' \in BOOLEAN
      /\ \A e \in Desks : desk'[e].at \in {"update", "drop"} => desk'[e].day \in Dates
      /\ UNCHANGED <<manual, browse>> /\ known' \in SUBSET Times
  BY DEF ColumnInv, ColumnTypes, relationVars
<1> QED
  BY <1>2, <1>3, <1>4, <1>5, WorkHolds

\* An editor at work.
LEMMA DeskStepHolds ==
  ASSUME ColumnInv, NEW e \in Desks, NEW new \in Edits, desk' = [desk EXCEPT ![e] = new],
         desk[e].at # "idle", new.at \in {"update", "drop"} => new.day \in Dates,
         UNCHANGED <<manual, browse, view, job>>, known' \in SUBSET Times,
         edited' \in BOOLEAN, EditedIsRight',
         column' \in [Dates -> AnyTopics], pages' \in [Dates -> AnyTopics],
         outdated' \in SUBSET Dates, PagesFollow',
         \A v \in Views : view[v].at = "fill" =>
           view[v].topic = column'[view[v].day] \/ view[v].day \in outdated',
         new.clear =>
           /\ desk[e].clear
           /\ new.at \in {"rows", "next", "update", "drop"} =>
                \A rows \in known' : ~Mislead(rows)
           /\ new.at \in {"next", "update", "drop"} =>
                \A d \in Dates \ new.left : column'[d] \in {RowLess} \cup Placements(manual, d)
           /\ new.at = "update" => new.topic \in Placements(manual, new.day)
           /\ new.at = "drop" => column'[new.day] \in {RowLess} \cup Placements(manual, new.day)
  PROVE  ColumnInv'
<1>1. \A f \in Desks : desk'[f] = IF f = e THEN new ELSE desk[f]
  BY DEF ColumnInv, ColumnTypes
<1>2. desk' \in [Desks -> Edits]
  BY DEF ColumnInv, ColumnTypes
<1>3. \A f \in Desks : desk'[f].at \in {"update", "drop"} => desk'[f].day \in Dates
  BY <1>1 DEF ColumnInv, ColumnTypes
<1>4. ClearIsRight'
  BY <1>1, RelationsStay DEF ColumnInv, ClearIsRight, NoJobs, Right, NoneMislead
<1>5. /\ job' \in [Jobs -> Takings]
      /\ \A j \in Jobs : job'[j].at # "idle" => job'[j].day \in Dates
  BY DEF ColumnInv, ColumnTypes
<1> QED
  BY <1>2, <1>3, <1>4, <1>5, WorkHolds

\* A reader of relations at work, who may mislead edits that were clear until now.
LEMMA BrowserStepHolds ==
  ASSUME ColumnInv, UNCHANGED <<manual, column, pages, view, job, outdated, edited>>,
         known' \in SUBSET Times, browse' \in [Browsers -> Browsings],
         desk' \in [Desks -> Edits],
         \A e \in Desks :
           /\ desk'[e].at = desk[e].at /\ desk'[e].left = desk[e].left
           /\ desk'[e].day = desk[e].day /\ desk'[e].topic = desk[e].topic
           /\ desk'[e].clear =>
                /\ desk[e].clear
                /\ desk[e].at \in {"rows", "next", "update", "drop"} =>
                     \A rows \in known' : ~Mislead(rows)
  PROVE  ColumnInv'
<1>1. ColumnTypes'
  BY DEF ColumnInv, ColumnTypes
<1>2. ClearIsRight'
  BY RelationsStay DEF ColumnInv, ClearIsRight, NoJobs, Right, NoneMislead
<1>3. EditedIsRight'
  BY RelationsStay DEF ColumnInv, EditedIsRight, NoJobs, Right
<1>4. PagesFollow' /\ ViewsFollow'
  BY DEF ColumnInv, PagesFollow, ViewsFollow, Drops
<1> QED
  BY <1>1, <1>2, <1>3, <1>4 DEF ColumnInv

\* An edit begins: at most it is clear, if nobody else writes.
LEMMA BeginEditHolds ==
  ASSUME ColumnInv, NEW e \in Desks, NEW at \in {"refresh", "warmup"}, BeginEdit(e, at),
         manual' \in Times
  PROVE  ColumnInv'
<1>t. ColumnTypes
  BY DEF ColumnInv
<1>1. desk[e].at = "idle"
  BY IdleOnes DEF BeginEdit
<1>2. \A f \in Desks :
        /\ desk'[f] \in Edits
        /\ f # e => /\ ~desk'[f].clear /\ desk'[f].at = desk[f].at
                    /\ desk'[f].day = desk[f].day
        /\ f = e => /\ desk'[f].at = at
                    /\ desk'[f].clear => NoWriter
  <2> SUFFICES ASSUME NEW f \in Desks
               PROVE  /\ desk'[f] \in Edits
                      /\ f # e => /\ ~desk'[f].clear /\ desk'[f].at = desk[f].at
                                  /\ desk'[f].day = desk[f].day
                      /\ f = e => /\ desk'[f].at = at
                                  /\ desk'[f].clear => NoWriter
    OBVIOUS
  <2>1. CASE f = e
    <3>1. desk'[f] = [NoEdit EXCEPT !.at = at, !.clear = NoWriter]
      BY <2>1 DEF BeginEdit
    <3>2. NoWriter \in BOOLEAN
      BY DEF NoWriter
    <3> QED
      BY <2>1, <3>1, <3>2 DEF NoEdit, Edits, AnyTopics
  <2>2. CASE f # e
    <3>1. desk[f] \in Edits /\ desk'[f] = [desk[f] EXCEPT !.clear = FALSE]
      BY <1>t, <2>2 DEF ColumnTypes, BeginEdit
    <3> QED
      BY <2>2, <3>1 DEF Edits
  <2> QED
    BY <2>1, <2>2
<1>3. desk' \in [Desks -> Edits]
  BY <1>2 DEF BeginEdit
<1>4. Disturb /\ UNCHANGED <<known, browse, column, pages, outdated, job>>
  BY DEF BeginEdit
<1>5. \A j \in Jobs : /\ job'[j].at # "idle" => job'[j].day \in Dates
                      /\ job'[j] = job[j]
  BY <1>t, <1>4 DEF ColumnTypes
<1>6. job' \in [Jobs -> Takings]
  BY <1>t, <1>4 DEF ColumnTypes
<1>7. NoWriter => NoJobs /\ \A f \in Desks : desk[f].at = "idle"
  BY IdleOnes DEF NoWriter, NoJobs
<1>8. \A f \in Desks :
        /\ \/ desk'[f].day = desk[f].day /\ desk'[f].at = desk[f].at
           \/ desk[f].at = "idle" /\ desk'[f].at = at
        /\ desk'[f].clear =>
             /\ \A j \in Jobs : job'[j].at = "idle"
             /\ \A g \in Desks \ {f} : desk'[g].at = "idle"
             /\ desk'[f].at = at
  BY <1>1, <1>2, <1>5, <1>7 DEF NoJobs
<1> QED
  BY <1>3, <1>4, <1>5, <1>6, <1>8, BeginHolds
LEMMA ColumnStepHolds == ColumnInv /\ [ColumnNext]_columnVars => ColumnInv'
<1> SUFFICES ASSUME ColumnInv, [ColumnNext]_columnVars PROVE ColumnInv'
  OBVIOUS
<1>t. ColumnTypes
  BY DEF ColumnInv
<1>f. \A v \in Views : view[v].at = "fill" =>
        view[v].topic = column[view[v].day] \/ view[v].day \in outdated
  BY DEF ColumnInv, ViewsFollow
<1>1. ASSUME NEW j \in Jobs, ClassifyCandidate(j) PROVE ColumnInv'
  <2>1. PICK d \in Dates, t \in Filings :
          job' = [job EXCEPT ![j] = [at |-> "delete", day |-> d, topic |-> t]]
    BY <1>1 DEF ClassifyCandidate
  <2>2. [at |-> "delete", day |-> d, topic |-> t] \in Takings
    BY DEF Takings, AnyTopics
  <2>3. job' \in [Jobs -> Takings]
    BY <1>t, <2>1, <2>2 DEF ColumnTypes
  <2>4. \A i \in Jobs : /\ job'[i].at # "idle" => job'[i].day \in Dates
                        /\ job'[i] = job[i] \/ job[i].at = "idle"
    BY <1>t, <1>1, <2>1, IdleOnes DEF ColumnTypes, ClassifyCandidate
  <2>5. \A e \in Desks : /\ desk'[e] \in Edits /\ ~desk'[e].clear
                         /\ desk'[e].at = desk[e].at /\ desk'[e].day = desk[e].day
    <3> SUFFICES ASSUME NEW e \in Desks
                 PROVE  /\ desk'[e] \in Edits /\ ~desk'[e].clear
                        /\ desk'[e].at = desk[e].at /\ desk'[e].day = desk[e].day
      OBVIOUS
    <3>1. desk[e] \in Edits /\ desk'[e] = [desk[e] EXCEPT !.clear = FALSE]
      BY <1>t, <1>1 DEF ColumnTypes, ClassifyCandidate
    <3> QED
      BY <3>1 DEF Edits
  <2>6. desk' \in [Desks -> Edits]
    BY <1>1, <2>5 DEF ClassifyCandidate
  <2>7. /\ manual' \in Times /\ Disturb
        /\ UNCHANGED <<known, browse, column, pages, outdated>>
    BY <1>t, <1>1 DEF ColumnTypes, ClassifyCandidate, relationVars
  <2> QED
    BY <2>3, <2>4, <2>5, <2>6, <2>7, BeginHolds
<1>2. ASSUME NEW j \in Jobs, DeleteRow(j) PROVE ColumnInv'
  <2> DEFINE new == [job[j] EXCEPT !.at = "dropDeleted"]
  <2>d. PICK d \in Dates : d = job[j].day
    BY <1>t, <1>2 DEF ColumnTypes, DeleteRow
  <2>1. /\ new \in Takings /\ new.at = "dropDeleted" /\ new.day = d /\ d \in Dates
        /\ job[j].at = "delete" /\ job' = [job EXCEPT ![j] = new]
    BY <1>t, <1>2, <2>d DEF ColumnTypes, Takings, DeleteRow
  <2>2. \A i \in Jobs : job'[i] = IF i = j THEN new ELSE job[i]
    BY <1>t, <2>1 DEF ColumnTypes
  <2>3. Write(d, RowLess) /\ UNCHANGED <<relationVars, pages, view, desk, edited>>
    BY <1>2, <2>d DEF DeleteRow
  <2> HIDE DEF new
  <2>4. Drops(d)' /\ \A c \in Dates : Drops(c) => Drops(c)'
    BY <2>1, <2>2, <2>3 DEF Drops
  <2>5. RowLess \in AnyTopics /\ pages' \in [Dates -> AnyTopics]
    BY <1>t, <2>3 DEF AnyTopics, ColumnTypes
  <2> QED
    BY <2>1, <2>3, <2>4, <2>5, WriteFollows, JobsStepHolds
<1>3. ASSUME NEW j \in Jobs, InsertRow(j) PROVE ColumnInv'
  <2>d. PICK d \in Dates : d = job[j].day
    BY <1>t, <1>3 DEF ColumnTypes, InsertRow
  <2> DEFINE new == [job[j] EXCEPT !.at = "dropInserted"]
             topic == IF column[d] = RowLess THEN job[j].topic ELSE column[d]
  <2>1. /\ new \in Takings /\ new.at = "dropInserted" /\ new.day = d /\ d \in Dates
        /\ job[j].at = "insert" /\ job' = [job EXCEPT ![j] = new]
    BY <1>t, <1>3, <2>d DEF ColumnTypes, Takings, InsertRow
  <2>2. \A i \in Jobs : job'[i] = IF i = j THEN new ELSE job[i]
    BY <1>t, <2>1 DEF ColumnTypes
  <2>3. Write(d, topic) /\ UNCHANGED <<relationVars, pages, view, desk, edited>>
    BY <1>3, <2>d DEF InsertRow
  <2>5. topic \in AnyTopics /\ pages' \in [Dates -> AnyTopics]
    BY <1>t, <2>1, <2>3 DEF ColumnTypes, Takings
  <2> HIDE DEF new, topic
  <2>4. Drops(d)' /\ \A c \in Dates : Drops(c) => Drops(c)'
    BY <2>1, <2>2, <2>3 DEF Drops
  <2> QED
    BY <2>1, <2>3, <2>4, <2>5, WriteFollows, JobsStepHolds
<1>4. ASSUME NEW j \in Jobs, DropRows(j) PROVE ColumnInv'
  <2> DEFINE new == IF job[j].at = "dropDeleted" THEN [job[j] EXCEPT !.at = "insert"]
                    ELSE NoTaking
             d == job[j].day
  <2>1. /\ new \in Takings /\ d \in Dates /\ (new.at # "idle" => new.day \in Dates)
        /\ job[j].at # "idle" /\ job' = [job EXCEPT ![j] = new]
    BY <1>t, <1>4, IdleOnes DEF ColumnTypes, Takings, DropRows
  <2>2. \A i \in Jobs : job'[i] = IF i = j THEN new ELSE job[i]
    BY <1>t, <2>1 DEF ColumnTypes
  <2>3. Dropped(d) /\ UNCHANGED <<relationVars, column, view, desk, edited>>
    BY <1>4 DEF DropRows
  <2>4. \A c \in Dates \ {d} : Drops(c) => Drops(c)'
    BY <2>2, <2>3 DEF Drops
  <2>5. column' \in [Dates -> AnyTopics]
    BY <1>t, <2>3 DEF ColumnTypes
  <2> HIDE DEF new, d
  <2> QED
    BY <2>1, <2>3, <2>4, <2>5, DropFollows, JobsStepHolds
<1>5. ASSUME NEW e \in Desks, NEW t \in ByHand, AddManualRelation(e, t) \/ DeleteRelation(e, t)
      PROVE  ColumnInv'
  <2>1. manual' \in Times
    BY <1>t, <1>5 DEF ColumnTypes, Times, AddManualRelation, DeleteRelation, ColumnNext
  <2>2. BeginEdit(e, "refresh") \/ BeginEdit(e, "warmup")
    BY <1>5 DEF AddManualRelation, DeleteRelation
  <2> QED
    BY <2>1, <2>2, BeginEditHolds
<1>6. ASSUME NEW e \in Desks, RefreshRelations(e) \/ WarmUp(e) PROVE ColumnInv'
  <2> DEFINE clear == /\ desk[e].clear
                      /\ desk[e].at = "warmup" => \A rows \in Relations : ~Mislead(rows)
             new == [desk[e] EXCEPT !.at = "rows", !.clear = clear]
  <2>1. /\ desk[e].at \in {"refresh", "warmup"} /\ desk[e] \in Edits
        /\ UNCHANGED <<manual, browse, column, pages, view, job, outdated, edited>>
    BY <1>t, <1>6 DEF ColumnTypes, RefreshRelations, WarmUp
  <2>2. desk' = [desk EXCEPT ![e] = new]
    <3>1. CASE RefreshRelations(e)
      <4>1. desk[e].at = "refresh" /\ desk' = [desk EXCEPT ![e].at = "rows"]
        BY <3>1 DEF RefreshRelations
      <4>2. new = [desk[e] EXCEPT !.at = "rows"]
        BY <2>1, <4>1 DEF Edits
      <4> QED
        BY <4>1, <4>2
    <3>2. CASE WarmUp(e)
      <4>1. /\ desk[e].at = "warmup"
            /\ desk' = [desk EXCEPT ![e].at = "rows",
                          ![e].clear = @ /\ \A rows \in Relations : ~Mislead(rows)]
        BY <3>2 DEF WarmUp
      <4> QED
        BY <2>1, <4>1, <1>t DEF ColumnTypes
    <3> QED
      BY <1>6, <3>1, <3>2
  <2>3. /\ new \in Edits /\ new.at = "rows" /\ (new.clear <=> clear)
    BY <2>1 DEF Edits
  <2>4. /\ known' \in SUBSET Times
        /\ clear => desk[e].clear /\ \A rows \in known' : ~Mislead(rows)
    <3>1. CASE RefreshRelations(e)
      BY <1>t, <3>1, TableDoesNotMislead DEF RefreshRelations, ColumnTypes
    <3>2. CASE WarmUp(e)
      BY <1>t, <3>2, RelationsTyped DEF WarmUp
    <3> QED
      BY <1>6, <3>1, <3>2
  <2> HIDE DEF new, clear
  <2>5. \A f \in Desks : desk'[f] = IF f = e THEN new ELSE desk[f]
    BY <1>t, <2>2 DEF ColumnTypes
  <2>6. PagesFollow' /\ EditedIsRight'
    BY <2>1, <2>3, <2>5 DEF ColumnInv, PagesFollow, Drops, EditedIsRight
  <2>7. /\ column' \in [Dates -> AnyTopics] /\ pages' \in [Dates -> AnyTopics]
        /\ outdated' \in SUBSET Dates /\ edited' \in BOOLEAN
    BY <1>t, <2>1 DEF ColumnTypes
  <2> QED
    BY <1>f, <2>1, <2>2, <2>3, <2>4, <2>6, <2>7, DeskStepHolds
<1>7. ASSUME NEW e \in Desks, FindRows(e) PROVE ColumnInv'
  <2> DEFINE new == [desk[e] EXCEPT !.at = "next", !.left = {d \in Dates : column[d] # RowLess}]
  <2>1. /\ new \in Edits /\ new.at = "next" /\ new.clear = desk[e].clear
        /\ new.left = {d \in Dates : column[d] # RowLess}
        /\ desk[e].at = "rows" /\ desk' = [desk EXCEPT ![e] = new]
    BY <1>t, <1>7 DEF ColumnTypes, Edits, FindRows
  <2> HIDE DEF new
  <2>2. UNCHANGED <<relationVars, column, pages, view, job, outdated, edited>>
    BY <1>7 DEF FindRows
  <2>3. \A f \in Desks : desk'[f] = IF f = e THEN new ELSE desk[f]
    BY <1>t, <2>1 DEF ColumnTypes
  <2>4. PagesFollow' /\ EditedIsRight'
    BY <2>1, <2>2, <2>3 DEF ColumnInv, PagesFollow, Drops, EditedIsRight
  <2>5. /\ column' \in [Dates -> AnyTopics] /\ pages' \in [Dates -> AnyTopics]
        /\ outdated' \in SUBSET Dates /\ edited' \in BOOLEAN
    BY <1>t, <2>2 DEF ColumnTypes
  <2>r. /\ UNCHANGED <<manual, browse>> /\ known' \in SUBSET Times
        /\ desk[e].clear => \A rows \in known' : ~Mislead(rows)
    BY <1>t, <2>1, <2>2 DEF ColumnTypes, relationVars, ColumnInv, ClearIsRight, NoneMislead
  <2> QED
    BY <1>f, <2>1, <2>2, <2>4, <2>5, <2>r, DeskStepHolds
<1>8. ASSUME NEW e \in Desks, PlaceRow(e) PROVE ColumnInv'
  <2>1. /\ desk[e].at = "next" /\ desk[e] \in Edits
        /\ UNCHANGED <<manual, browse, column, pages, view, job, outdated>>
        /\ known' = Relations
    BY <1>t, <1>8 DEF ColumnTypes, PlaceRow
  <2>2. /\ column' \in [Dates -> AnyTopics] /\ pages' \in [Dates -> AnyTopics]
        /\ outdated' \in SUBSET Dates
    BY <1>t, <2>1 DEF ColumnTypes
  <2>3. desk[e].clear =>
          /\ NoJobs /\ \A f \in Desks \ {e} : desk[f].at = "idle"
          /\ \A d \in Dates \ desk[e].left : Right(d)
    BY <2>1 DEF ColumnInv, ClearIsRight
  <2>r. /\ known' \in SUBSET Times
        /\ desk[e].clear => \A rows \in Relations : ~Mislead(rows)
    <3>1. desk[e].clear => \A rows \in known : ~Mislead(rows)
      BY <2>1 DEF ColumnInv, ClearIsRight, NoneMislead
    <3> QED
      BY <1>t, <2>1, <3>1, RelationsTyped, TableDoesNotMislead DEF Relations
  <2>4. CASE UNCHANGED edited /\ \E d \in Oldest(e), rows \in Relations :
               \E t \in Placements(rows, d) :
                 desk' = [desk EXCEPT ![e].at = "update", ![e].day = d, ![e].topic = t]
    <3>0. PICK d \in Oldest(e), rows \in Relations :
            \E t \in Placements(rows, d) :
              desk' = [desk EXCEPT ![e].at = "update", ![e].day = d, ![e].topic = t]
      BY <2>4
    <3>1. PICK t \in Placements(rows, d) :
            desk' = [desk EXCEPT ![e].at = "update", ![e].day = d, ![e].topic = t]
      BY <3>0
    <3>2. d \in Dates
      BY <2>1, <3>1 DEF Oldest, Edits
    <3>3. /\ t \in AnyTopics
          /\ desk[e].clear => t \in Placements(manual, d)
      BY <3>1, <3>2, <2>r, PlacementsTyped, PlacedAlike
    <3> DEFINE new == [desk[e] EXCEPT !.at = "update", !.day = d, !.topic = t]
    <3>4. /\ new \in Edits /\ new.at = "update" /\ new.clear = desk[e].clear
          /\ new.left = desk[e].left /\ new.day = d /\ new.topic = t
          /\ desk' = [desk EXCEPT ![e] = new]
      BY <2>1, <3>1, <3>2, <3>3 DEF Edits
    <3> HIDE DEF new
    <3>5. \A f \in Desks : desk'[f] = IF f = e THEN new ELSE desk[f]
      BY <1>t, <3>4 DEF ColumnTypes
    <3>6. PagesFollow'
      BY <2>1, <3>5 DEF ColumnInv, PagesFollow, Drops
    <3>7. EditedIsRight' /\ edited' \in BOOLEAN
      BY <1>t, <2>1, <2>4 DEF ColumnInv, EditedIsRight, ColumnTypes
    <3>8. new.clear => \A c \in Dates \ new.left :
                         column'[c] \in {RowLess} \cup Placements(manual, c)
      BY <2>1, <2>3, <3>4 DEF Right
    <3> QED
      BY <1>f, <2>1, <2>2, <2>r, <3>2, <3>3, <3>4, <3>6, <3>7, <3>8, DeskStepHolds
  <2>5. CASE desk[e].left = {} /\ desk' = [desk EXCEPT ![e] = NoEdit] /\ edited' = desk[e].clear
    <3>1. \A f \in Desks : desk'[f] = IF f = e THEN NoEdit ELSE desk[f]
      BY <1>t, <2>5 DEF ColumnTypes
    <3>2. PagesFollow'
      BY <2>1, <3>1 DEF ColumnInv, PagesFollow, Drops
    <3>3. EditedIsRight' /\ edited' \in BOOLEAN
      BY <2>1, <2>3, <2>5, <3>1, IdleOnes, RelationsStay DEF EditedIsRight, NoJobs, Right, Edits
    <3> QED
      BY <1>f, <2>1, <2>2, <2>5, <2>r, <3>2, <3>3, IdleOnes, DeskStepHolds
  <2> QED
    BY <1>8, <2>4, <2>5 DEF PlaceRow
<1>9. ASSUME NEW e \in Desks, UpdateRow(e) PROVE ColumnInv'
  <2>d. PICK d \in Dates : d = desk[e].day
    BY <1>t, <1>9 DEF ColumnTypes, UpdateRow
  <2> DEFINE new == [desk[e] EXCEPT !.at = "drop"]
             topic == IF column[d] = RowLess THEN RowLess ELSE desk[e].topic
  <2>1. /\ new \in Edits /\ new.at = "drop" /\ new.day = d /\ new.left = desk[e].left
        /\ new.clear = desk[e].clear /\ d \in Dates
        /\ desk[e].at = "update" /\ desk' = [desk EXCEPT ![e] = new]
    BY <1>t, <1>9, <2>d DEF ColumnTypes, Edits, UpdateRow
  <2>2. \A f \in Desks : desk'[f] = IF f = e THEN new ELSE desk[f]
    BY <1>t, <2>1 DEF ColumnTypes
  <2>3. Write(d, topic) /\ UNCHANGED <<relationVars, pages, view, job, edited>>
    BY <1>9, <2>d DEF UpdateRow
  <2>4. topic \in AnyTopics /\ pages' \in [Dates -> AnyTopics]
    BY <1>t, <2>1, <2>3 DEF ColumnTypes, Edits, AnyTopics
  <2>5. desk[e].clear => topic \in {RowLess} \cup Placements(manual, d)
    BY <2>1, <2>d DEF ColumnInv, ClearIsRight
  <2> HIDE DEF new, topic
  <2>6. Drops(d)' /\ \A c \in Dates : Drops(c) => Drops(c)'
    BY <2>1, <2>2, <2>3 DEF Drops
  <2>7. /\ PagesFollow' /\ column' \in [Dates -> AnyTopics] /\ outdated' \in SUBSET Dates
        /\ \A c \in Dates : column'[c] = IF c = d THEN topic ELSE column[c]
        /\ \A v \in Views : view[v].at = "fill" =>
             view[v].topic = column'[view[v].day] \/ view[v].day \in outdated'
    BY <2>1, <2>3, <2>4, <2>6, WriteFollows
  <2>8. EditedIsRight' /\ edited' \in BOOLEAN
    BY <1>t, <2>1, <2>3 DEF ColumnInv, EditedIsRight, ColumnTypes
  <2>9. new.clear =>
          /\ \A c \in Dates \ new.left : column'[c] \in {RowLess} \cup Placements(manual, c)
          /\ column'[new.day] \in {RowLess} \cup Placements(manual, new.day)
    BY <2>1, <2>5, <2>7 DEF ColumnInv, ClearIsRight, Right
  <2>r. /\ UNCHANGED <<manual, browse>> /\ known' \in SUBSET Times
        /\ desk[e].clear => \A rows \in known' : ~Mislead(rows)
    BY <1>t, <2>1, <2>3 DEF ColumnTypes, relationVars, ColumnInv, ClearIsRight, NoneMislead
  <2> QED
    BY <2>1, <2>3, <2>4, <2>7, <2>8, <2>9, <2>r, DeskStepHolds
<1>10. ASSUME NEW e \in Desks, DropRow(e) PROVE ColumnInv'
  <2> DEFINE d == desk[e].day
             new == [desk[e] EXCEPT !.at = "next", !.left = @ \ {desk[e].day}]
  <2>1. /\ new \in Edits /\ new.at = "next" /\ new.left = desk[e].left \ {d}
        /\ new.clear = desk[e].clear /\ d \in Dates
        /\ desk[e].at = "drop" /\ desk' = [desk EXCEPT ![e] = new]
    BY <1>t, <1>10 DEF ColumnTypes, Edits, DropRow
  <2>2. \A f \in Desks : desk'[f] = IF f = e THEN new ELSE desk[f]
    BY <1>t, <2>1 DEF ColumnTypes
  <2>3. Dropped(d) /\ UNCHANGED <<relationVars, column, view, job, edited>>
    BY <1>10 DEF DropRow
  <2>4. \A c \in Dates \ {d} : Drops(c) => Drops(c)'
    BY <2>2, <2>3 DEF Drops
  <2>5. desk[e].clear => \A c \in Dates \ (desk[e].left \ {d}) : Right(c)
    BY <2>1 DEF ColumnInv, ClearIsRight
  <2> HIDE DEF new, d
  <2>6. /\ PagesFollow' /\ pages' \in [Dates -> AnyTopics] /\ outdated' \in SUBSET Dates
        /\ \A v \in Views : view[v].at = "fill" =>
             view[v].topic = column'[view[v].day] \/ view[v].day \in outdated'
    BY <2>1, <2>3, <2>4, DropFollows
  <2>7. EditedIsRight' /\ edited' \in BOOLEAN /\ column' \in [Dates -> AnyTopics]
    BY <1>t, <2>1, <2>3 DEF ColumnInv, EditedIsRight, ColumnTypes
  <2>8. new.clear => \A c \in Dates \ new.left :
                       column'[c] \in {RowLess} \cup Placements(manual, c)
    BY <2>1, <2>3, <2>5 DEF Right
  <2>r. /\ UNCHANGED <<manual, browse>> /\ known' \in SUBSET Times
        /\ desk[e].clear => \A rows \in known' : ~Mislead(rows)
    BY <1>t, <2>1, <2>3 DEF ColumnTypes, relationVars, ColumnInv, ClearIsRight, NoneMislead
  <2> QED
    BY <2>1, <2>3, <2>6, <2>7, <2>8, <2>r, DeskStepHolds
<1>11. ASSUME NEW v \in Views, ReadPage(v) PROVE ColumnInv'
  <2>1. PICK d \in Dates :
          view' = [view EXCEPT ![v] =
            [at |-> IF pages[d] = Uncached THEN "read" ELSE "show", day |-> d,
             topic |-> pages[d], sure |-> edited /\ (pages[d] = Uncached \/ d \notin outdated)]]
    BY <1>11 DEF ReadPage
  <2> DEFINE new == [at |-> IF pages[d] = Uncached THEN "read" ELSE "show", day |-> d,
                     topic |-> pages[d],
                     sure |-> edited /\ (pages[d] = Uncached \/ d \notin outdated)]
  <2>2. new \in Viewings
    BY <1>t DEF ColumnTypes, Viewings
  <2>3. edited /\ d \notin outdated => pages[d] \in {Uncached, column[d]}
    BY DEF ColumnInv, PagesFollow, EditedIsRight, NoJobs, Drops
  <2>4. /\ new.at # "idle" => new.day \in Dates
        /\ new.at = "fill" => new.topic = column[new.day]
        /\ new.sure => /\ edited
                       /\ new.at \in {"fill", "show"} => new.topic = column[new.day]
    BY <2>3
  <2>5. view' = [view EXCEPT ![v] = new]
    BY <2>1
  <2>6. UNCHANGED <<relationVars, column, pages, job, desk, outdated, edited>>
    BY <1>11 DEF ReadPage
  <2> HIDE DEF new
  <2>7. pages' \in [Dates -> AnyTopics] /\ \A c \in Dates : pages'[c] = pages[c]
    BY <1>t, <2>6 DEF ColumnTypes
  <2> QED
    BY <2>2, <2>4, <2>5, <2>6, <2>7, ViewStepHolds
<1>12. ASSUME NEW v \in Views, ReadColumn(v) PROVE ColumnInv'
  <2> DEFINE new == [view[v] EXCEPT !.at = "fill", !.topic = column[view[v].day]]
  <2>1. /\ new \in Viewings /\ new.at = "fill" /\ new.day = view[v].day
        /\ new.topic = column[new.day] /\ new.sure = view[v].sure
        /\ new.day \in Dates /\ view' = [view EXCEPT ![v] = new]
    BY <1>t, <1>12 DEF ColumnTypes, Viewings, ReadColumn
  <2>2. UNCHANGED <<relationVars, column, pages, job, desk, outdated, edited>>
    BY <1>12 DEF ReadColumn
  <2>3. new.sure => edited
    BY <2>1 DEF ColumnInv, ViewsFollow
  <2> HIDE DEF new
  <2>4. pages' \in [Dates -> AnyTopics] /\ \A c \in Dates : pages'[c] = pages[c]
    BY <1>t, <2>2 DEF ColumnTypes
  <2> QED
    BY <2>1, <2>2, <2>3, <2>4, ViewStepHolds
<1>13. ASSUME NEW v \in Views, FillPage(v) PROVE ColumnInv'
  <2> DEFINE new == [view[v] EXCEPT !.at = "show"]
  <2>1. /\ new \in Viewings /\ new.at = "show" /\ new.day = view[v].day
        /\ new.topic = view[v].topic /\ new.sure = view[v].sure
        /\ new.day \in Dates /\ view' = [view EXCEPT ![v] = new]
        /\ view[v].at = "fill" /\ view[v].topic \in AnyTopics
    BY <1>t, <1>13 DEF ColumnTypes, Viewings, FillPage
  <2>2. /\ UNCHANGED <<relationVars, column, job, desk, outdated, edited>>
        /\ pages' = [pages EXCEPT ![view[v].day] = view[v].topic]
    BY <1>13 DEF FillPage
  <2>3. new.sure => edited /\ new.topic = column[new.day]
    BY <2>1 DEF ColumnInv, ViewsFollow
  <2> HIDE DEF new
  <2>4. /\ pages' \in [Dates -> AnyTopics]
        /\ \A c \in Dates : pages'[c] = IF c = view[v].day THEN view[v].topic ELSE pages[c]
    BY <1>t, <2>1, <2>2 DEF ColumnTypes
  <2>5. \A c \in Dates : \/ pages'[c] = pages[c]
                        \/ pages'[c] = column[c]
                        \/ c \in outdated
    BY <1>f, <2>1, <2>4
  <2> QED
    BY <2>1, <2>2, <2>3, <2>4, <2>5, ViewStepHolds
<1>14. ASSUME NEW v \in Views, ShowPage(v) PROVE ColumnInv'
  <2>1. /\ view' = [view EXCEPT ![v] = NoViewing]
        /\ UNCHANGED <<relationVars, column, pages, job, desk, outdated, edited>>
    BY <1>14 DEF ShowPage
  <2>2. pages' \in [Dates -> AnyTopics] /\ \A c \in Dates : pages'[c] = pages[c]
    BY <1>t, <2>1 DEF ColumnTypes
  <2> QED
    BY <2>1, <2>2, IdleOnes, ViewStepHolds
<1>15. ASSUME WriteFails PROVE ColumnInv'
  <2>1. UNCHANGED <<relationVars, column, pages, view, outdated, edited>>
    BY <1>15 DEF WriteFails
  <2>2. /\ column' \in [Dates -> AnyTopics] /\ pages' \in [Dates -> AnyTopics]
        /\ outdated' \in SUBSET Dates /\ edited' \in BOOLEAN
    BY <1>t, <2>1 DEF ColumnTypes
  <2>r. UNCHANGED <<manual, browse>> /\ known' \in SUBSET Times
    BY <1>t, <2>1 DEF ColumnTypes, relationVars
  <2>3. ASSUME NEW e \in Desks, desk[e].at \in {"refresh", "warmup", "rows", "next", "update"},
               desk' = [desk EXCEPT ![e] = NoEdit], UNCHANGED job
        PROVE  ColumnInv'
    <3>1. \A f \in Desks : desk'[f] = IF f = e THEN NoEdit ELSE desk[f]
      BY <1>t, <2>3 DEF ColumnTypes
    <3>2. PagesFollow' /\ EditedIsRight'
      BY <2>1, <2>3, <3>1 DEF ColumnInv, PagesFollow, Drops, EditedIsRight
    <3> QED
      BY <1>f, <2>1, <2>2, <2>3, <2>r, <3>2, IdleOnes, DeskStepHolds
  <2>4. ASSUME NEW j \in Jobs, job[j].at \in {"delete", "insert"},
               job' = [job EXCEPT ![j] = NoTaking], UNCHANGED desk
        PROVE  ColumnInv'
    <3>1. \A i \in Jobs : job'[i] = IF i = j THEN NoTaking ELSE job[i]
      BY <1>t, <2>4 DEF ColumnTypes
    <3>2. PagesFollow'
      BY <2>1, <2>4, <3>1 DEF ColumnInv, PagesFollow, Drops
    <3> QED
      BY <1>f, <2>1, <2>2, <2>4, <3>2, IdleOnes, JobsStepHolds
  <2> QED
    BY <1>15, <2>3, <2>4 DEF WriteFails
<1>16. ASSUME PagesExpire PROVE ColumnInv'
  <2>1. /\ pages' = [d \in Dates |-> Uncached] /\ outdated' = outdated \cap Unread
        /\ UNCHANGED <<manual, browse, column, view, job, desk, edited>> /\ known' = {}
    BY <1>16 DEF PagesExpire
  <2>2. ColumnTypes'
    BY <1>t, <2>1 DEF ColumnTypes, AnyTopics
  <2>3. ClearIsRight' /\ EditedIsRight'
    BY <2>1, RelationsStay
    DEF ColumnInv, ClearIsRight, EditedIsRight, Right, NoJobs, NoneMislead
  <2>4. PagesFollow'
    BY <2>1 DEF PagesFollow
  <2>5. ASSUME NEW v \in Views, view[v].at = "fill"
        PROVE  view[v].topic = column[view[v].day] \/ view[v].day \in outdated'
    BY <1>f, <2>1, <2>5 DEF Unread
  <2>6. ViewsFollow'
    BY <2>1, <2>5 DEF ColumnInv, ViewsFollow
  <2> QED
    BY <2>2, <2>3, <2>4, <2>6 DEF ColumnInv
<1>17. ASSUME ProcessDies PROVE ColumnInv'
  <2>1. /\ pages' = [d \in Dates |-> Uncached] /\ view' = [v \in Views |-> NoViewing]
        /\ job' = [j \in Jobs |-> NoTaking] /\ desk' = [e \in Desks |-> NoEdit]
        /\ outdated' = {} /\ UNCHANGED <<manual, column, edited>>
        /\ known' = {} /\ browse' = [r \in Browsers |-> NoBrowsing]
    BY <1>17 DEF ProcessDies
  <2>2. ColumnTypes'
    BY <1>t, <2>1, IdleOnes DEF ColumnTypes, AnyTopics
  <2>3. ClearIsRight'
    BY <2>1, IdleOnes DEF ClearIsRight
  <2>4. EditedIsRight'
    BY <2>1, IdleOnes, RelationsStay DEF ColumnInv, EditedIsRight, Right, NoJobs
  <2>5. PagesFollow' /\ ViewsFollow'
    BY <2>1, IdleOnes DEF PagesFollow, ViewsFollow
  <2> QED
    BY <2>2, <2>3, <2>4, <2>5 DEF ColumnInv
<1>18. ASSUME NEW r \in Browsers, BrowseStored(r) \/ BrowseCached(r) PROVE ColumnInv'
  <2>1. /\ UNCHANGED <<manual, known, column, pages, view, job, desk, outdated, edited>>
        /\ known' \in SUBSET Times /\ desk' \in [Desks -> Edits]
    BY <1>t, <1>18 DEF ColumnTypes, BrowseStored, BrowseCached
  <2>2. \E at \in {"fill", "again"}, rows \in Times :
          browse' = [browse EXCEPT ![r] = [at |-> at, rows |-> rows]]
    BY <1>t, <1>18 DEF ColumnTypes, BrowseStored, BrowseCached
  <2>3. browse' \in [Browsers -> Browsings]
    BY <1>t, <2>2 DEF ColumnTypes, Browsings
  <2> QED
    BY <2>1, <2>3, BrowserStepHolds DEF ColumnInv, ClearIsRight, NoneMislead
<1>19. ASSUME NEW r \in Browsers, FillRelations(r) \/ LoadStockTopics(r) PROVE ColumnInv'
  <2>t. browse \in [Browsers -> Browsings] /\ browse[r] \in Browsings
    BY <1>t DEF ColumnTypes
  <2>1. PICK rows \in Times : Caches(rows)
    <3>1. browse[r].rows \in Times /\ WithoutTimes(browse[r].rows) \in Times
      BY <2>t DEF Browsings, WithoutTimes, Times
    <3> QED
      BY <1>19, <3>1 DEF FillRelations, LoadStockTopics
  <2>2. browse' \in [Browsers -> Browsings]
    <3>1. [browse[r] EXCEPT !.at = "again"] \in Browsings
      BY <2>t DEF Browsings
    <3> QED
      BY <1>19, <2>t, <3>1, IdleOnes DEF FillRelations, LoadStockTopics
  <2>3. /\ UNCHANGED <<manual, column, pages, view, job, outdated, edited>>
        /\ known' = {rows} /\ known' \in SUBSET Times
    BY <2>1 DEF Caches
  <2>4. ASSUME NEW e \in Desks
        PROVE  /\ desk'[e] \in Edits
               /\ desk'[e].at = desk[e].at /\ desk'[e].left = desk[e].left
               /\ desk'[e].day = desk[e].day /\ desk'[e].topic = desk[e].topic
               /\ desk'[e].clear =>
                    /\ desk[e].clear
                    /\ desk[e].at \in {"rows", "next", "update", "drop"} => ~Mislead(rows)
    <3>1. /\ desk[e] \in Edits
          /\ desk'[e] = IF desk[e].at \in {"idle", "refresh", "warmup"} \/ ~Mislead(rows)
                        THEN desk[e] ELSE [desk[e] EXCEPT !.clear = FALSE]
      BY <1>t, <2>1 DEF ColumnTypes, Caches
    <3>2. CASE desk[e].at \in {"idle", "refresh", "warmup"} \/ ~Mislead(rows)
      BY <3>1, <3>2
    <3>3. CASE ~(desk[e].at \in {"idle", "refresh", "warmup"} \/ ~Mislead(rows))
      BY <3>1, <3>3 DEF Edits
    <3> QED
      BY <3>2, <3>3
  <2>5. desk' \in [Desks -> Edits]
    BY <2>1, <2>4 DEF Caches
  <2> QED
    BY <2>2, <2>3, <2>4, <2>5, BrowserStepHolds
<1>20. CASE UNCHANGED columnVars
  <2>1. /\ UNCHANGED <<manual, known, browse, column, pages, view, job, desk, outdated, edited>>
    BY <1>20 DEF columnVars, relationVars
  <2>2. ColumnTypes'
    BY <1>t, <2>1 DEF ColumnTypes
  <2> QED
    BY <1>t, <2>1, <2>2, BrowserStepHolds DEF ColumnTypes, ColumnInv, ClearIsRight, NoneMislead
<1> QED
  BY <1>1, <1>2, <1>3, <1>4, <1>5, <1>6, <1>7, <1>8, <1>9, <1>10, <1>11, <1>12, <1>13,
     <1>14, <1>15, <1>16, <1>17, <1>18, <1>19, <1>20 DEF ColumnNext

\* What an editor has been told is done is what the views of past days show, however
\* many views, editors, readers and snapshot jobs there are, over any number of days, if
\* nothing misled the edit: EditShown, of Upsert and Delete of manual relations, the
\* cached relations ClassifyStock goes by, the writes of UpdateTopicIDByTsCodeAndDate and
\* TakeSnapshot, and the cache of rows.
THEOREM EditsAreShown == ColumnSpec => []EditShown
<1>1. ColumnInv => EditShown
  <2> SUFFICES ASSUME ColumnInv, NEW v \in Views, view[v].at = "show", view[v].sure
               PROVE  IF column[view[v].day] = RowLess THEN view[v].topic = RowLess
                      ELSE view[v].topic \in Placements(manual, view[v].day)
    BY DEF EditShown
  <2>1. edited /\ view[v].topic = column[view[v].day] /\ view[v].day \in Dates
    BY DEF ColumnInv, ViewsFollow, ColumnTypes
  <2>2. Right(view[v].day)
    BY <2>1 DEF ColumnInv, EditedIsRight
  <2> QED
    BY <2>1, <2>2 DEF Right
<1> QED
  BY <1>1, ColumnInitHolds, ColumnStepHolds, PTL DEF ColumnSpec
===============================================================================
