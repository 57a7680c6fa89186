-------------------------- MODULE RelationStoreProofs --------------------------
(***************************************************************************)
(* Proofs about RelationStore for any topics, names, dates, clients and    *)
(* numbers of calls and faults: its types; that the cached relations are   *)
(* current but for the races and failures behind stands for; that what an  *)
(* editor has made by hand prevails; and that hits match the raw data.     *)
(***************************************************************************)
EXTENDS RelationStore, FiniteSetTheorems, TLAPS

LEMMA ListingsCounted ==
  ASSUME NEW d \in Dates, NEW t \in Topics
  PROVE  Cardinality(Listings(d, t)) \in Nat
<1>1. Listings(d, t) \in SUBSET Names
  BY RelationAssumption DEF Listings
<1>2. IsFiniteSet(Listings(d, t))
  BY <1>1, FS_Subset, RelationAssumption
<1> QED
  BY <1>2, FS_CardinalityType

LEMMA HitsCounted ==
  ASSUME raw \subseteq Names \X Dates, NEW t \in Topics, NEW from \in Dates, NEW to \in Dates
  PROVE  HitsOf(t, from, to) \in Nat
<1>1. IsFiniteSet(Dates)
  BY FS_Interval, RelationAssumption DEF Dates
<1>2. IsFiniteSet(Names \X Dates)
  BY <1>1, FS_Product, RelationAssumption
<1> DEFINE E == {e \in raw : Normalized[e[1]] = t /\ e[2] \in from..to}
<1>3. E \in SUBSET (Names \X Dates)
  OBVIOUS
<1>4. IsFiniteSet(E)
  BY <1>2, <1>3, FS_Subset
<1> QED
  BY <1>4, FS_CardinalityType DEF HitsOf, Aggregated

LEMMA EmptyIsRows == None \in {None} \cup [hits : Nat \ {0}, manual : BOOLEAN] /\ Empty \in Rows
BY DEF Empty, Rows

\* The rows a write leaves are relations again: none of them has hits of 0 and stays.
LEMMA UpsertedRows ==
  ASSUME table \in Rows, NEW t \in Topics
  PROVE  /\ Upserted(t) \in Rows
         /\ Upserted(t)[t].manual \in BOOLEAN
BY DEF Upserted, Rows, None

LEMMA AccumulatedRows ==
  ASSUME table \in Rows, NEW d \in Dates
  PROVE  Accumulated(d) \in Rows
<1> SUFFICES ASSUME NEW t \in Topics
             PROVE  [table[t] EXCEPT !.hits = @ + Cardinality(Listings(d, t))]
                      \in {None} \cup [hits : Nat \ {0}, manual : BOOLEAN]
  BY DEF Accumulated, Rows
<1>1. ASSUME NEW n \in Nat
      PROVE  [table[t] EXCEPT !.hits = @ + n]
               \in {None} \cup [hits : Nat \ {0}, manual : BOOLEAN]
  <2>1. CASE table[t] = None
    <3> DEFINE row == [table[t] EXCEPT !.hits = @ + n]
    <3>1. /\ table[t] \in [hits : Nat, manual : BOOLEAN]
          /\ table[t].hits = 0 /\ table[t].manual = FALSE
      BY <2>1 DEF None
    <3>2. /\ row \in [hits : Nat, manual : BOOLEAN]
          /\ row.hits = n /\ row.manual = FALSE
      BY <3>1
    <3> HIDE DEF row
    <3>3. row = [hits |-> n, manual |-> FALSE]
      BY <3>2
    <3> QED
      BY <3>3 DEF None, row
  <2>2. CASE table[t] \in [hits : Nat \ {0}, manual : BOOLEAN]
    <3>1. table[t].hits + n \in Nat \ {0}
      BY <2>2
    <3> QED
      BY <2>2, <3>1
  <2> QED
    BY <2>1, <2>2 DEF Rows
<1> QED
  BY <1>1, ListingsCounted

LEMMA ReplacedRows ==
  ASSUME table \in Rows, NEW rows \in Rows
  PROVE  Replaced(rows) \in Rows
BY DEF Replaced, Rows

LEMMA RebuiltRows ==
  ASSUME raw \subseteq Names \X Dates, NEW from \in Dates, NEW to \in Dates
  PROVE  [t \in Topics |-> [hits |-> HitsOf(t, from, to), manual |-> FALSE]] \in Rows
<1> SUFFICES ASSUME NEW t \in Topics
             PROVE  [hits |-> HitsOf(t, from, to), manual |-> FALSE]
                      \in {None} \cup [hits : Nat \ {0}, manual : BOOLEAN]
  BY DEF Rows
<1> HitsOf(t, from, to) \in Nat
  BY HitsCounted
<1> QED
  BY DEF None

LEMMA IdleIsLocals == Idle \in Locals
<1> 1 \in Dates
  BY RelationAssumption DEF Dates
<1> QED
  BY EmptyIsRows DEF Idle, Locals, Calls

\* A call begins: the others under way keep their variables but for the history.
LEMMA BeginLocals ==
  ASSUME TypeOK, NEW c \in Clients, NEW new \in Locals, Begin(c, new)
  PROVE  /\ client' \in [Clients -> Locals]
         /\ calls' \in Nat
         /\ client[c].pc = "idle"
         /\ client'[c].pc = new.pc
         /\ \A d \in Clients \ {c} : /\ client'[d].pc = client[d].pc
                                     /\ client'[d].rows = client[d].rows
<1> DEFINE active == {d \in Clients : client[d].pc # "idle"}
           seen == {client[e].call : e \in active}
<1>1. seen \in SUBSET Calls /\ new.call \in Calls
  BY DEF TypeOK, Locals
<1>2. [new EXCEPT !.others = seen] \in Locals
  BY <1>1 DEF Locals
<1>3. \A d \in Clients : [client[d] EXCEPT !.others = @ \cup {new.call}] \in Locals
  BY <1>1 DEF Locals, TypeOK
<1>4. client' = [d \in Clients |->
           CASE d = c -> [new EXCEPT !.others = seen]
             [] d \in active -> [client[d] EXCEPT !.others = @ \cup {new.call}]
             [] OTHER -> client[d]]
  BY DEF Begin
<1>5. client[c].pc = "idle" /\ calls' \in Nat
  BY DEF Begin, TypeOK
<1> HIDE DEF seen
<1>6. /\ client'[c] = [new EXCEPT !.others = seen]
      /\ \A d \in Clients \ {c} :
           client'[d] \in {client[d], [client[d] EXCEPT !.others = @ \cup {new.call}]}
  <2>1. client'[c] = [new EXCEPT !.others = seen]
    BY <1>4, <1>5
  <2>2. ASSUME NEW d \in Clients \ {c}
        PROVE  client'[d] \in {client[d], [client[d] EXCEPT !.others = @ \cup {new.call}]}
    BY <1>4
  <2> QED
    BY <2>1, <2>2
<1> HIDE DEF active
<1>7. client' \in [Clients -> Locals]
  <2>1. \A d \in Clients : client'[d] \in Locals
    BY <1>2, <1>3, <1>6 DEF TypeOK
  <2>2. client' = [d \in Clients |-> client'[d]]
    BY <1>4
  <2> QED
    BY <2>1, <2>2
<1>8. client'[c].pc = new.pc
  BY <1>6 DEF Locals
<1>9. \A d \in Clients \ {c} : /\ client'[d].pc = client[d].pc
                               /\ client'[d].rows = client[d].rows
  BY <1>6 DEF TypeOK, Locals
<1> QED
  BY <1>5, <1>7, <1>8, <1>9

-------------------------------------------------------------------------------
LEMMA TypeInit == Init => TypeOK
<1> SUFFICES ASSUME Init PROVE TypeOK
  OBVIOUS
<1>1. client \in [Clients -> Locals]
  BY IdleIsLocals DEF Init
<1>2. table \in Rows /\ cache \in Rows /\ raw \subseteq Names \X Dates
  BY EmptyIsRows DEF Init
<1> QED
  BY <1>1, <1>2 DEF Init, TypeOK

LEMMA TypeNext == TypeOK /\ [Next]_vars => TypeOK'
<1> SUFFICES ASSUME TypeOK, [Next]_vars PROVE TypeOK'
  OBVIOUS
<1>r. /\ table \in Rows /\ cache \in Rows /\ raw \subseteq Names \X Dates
      /\ filed \in Topics \cup {NoTopic} /\ client \in [Clients -> Locals]
      /\ calls \in Nat /\ behind \in BOOLEAN /\ counted \subseteq Topics /\ faults \in Nat
  BY DEF TypeOK
<1>1. ASSUME NEW c \in Clients, NEW t \in Topics, AddManualRelation(c, t)
      PROVE  TypeOK'
  <2> DEFINE new == [Idle EXCEPT !.pc = "refresh", !.call = "add", !.topic = t,
                                 !.bound = Upserted(t)[t].manual]
  <2>1. new \in Locals
    BY <1>r, UpsertedRows, IdleIsLocals DEF Locals, Calls
  <2>2. Begin(c, new) /\ table' = Upserted(t) /\ behind' \in BOOLEAN /\ counted' \subseteq Topics
        /\ UNCHANGED <<cache, raw, filed, faults>>
    BY <1>1, <1>r DEF AddManualRelation, TableBecomes
  <2> HIDE DEF new
  <2> QED
    BY <1>r, <2>1, <2>2, BeginLocals, UpsertedRows DEF TypeOK
<1>2. ASSUME NEW c \in Clients, NEW t \in Topics, DeleteRelation(c, t)
      PROVE  TypeOK'
  <2> DEFINE new == [Idle EXCEPT !.pc = "get", !.call = "delete", !.topic = t,
                                 !.then = "classify"]
  <2>1. new \in Locals
    BY IdleIsLocals DEF Locals, Calls
  <2>2. Begin(c, new) /\ behind' \in BOOLEAN /\ counted' \subseteq Topics
        /\ table' = [table EXCEPT ![t] = None] /\ UNCHANGED <<cache, raw, filed, faults>>
    BY <1>2, <1>r DEF DeleteRelation
  <2>3. table' \in Rows
    BY <1>r, <2>2 DEF Rows
  <2> HIDE DEF new
  <2> QED
    BY <1>r, <2>1, <2>2, <2>3, BeginLocals DEF TypeOK
<1>3. ASSUME NEW c \in Clients, NEW d \in Dates, CrawlWithParams(c, d)
      PROVE  TypeOK'
  <2> DEFINE new == [Idle EXCEPT !.pc = "accumulate", !.call = "crawl", !.from = d]
  <2>1. new \in Locals
    BY IdleIsLocals DEF Locals, Calls
  <2>2. Begin(c, new) /\ raw' = raw \cup (Listed[d] \X {d}) /\ counted' \subseteq Topics
        /\ UNCHANGED <<table, cache, filed, behind, faults>>
    BY <1>3, <1>r DEF CrawlWithParams, UpsertedRaw
  <2>3. raw' \subseteq Names \X Dates
    BY <1>r, <2>2, RelationAssumption
  <2> HIDE DEF new
  <2> QED
    BY <1>r, <2>1, <2>2, <2>3, BeginLocals DEF TypeOK
<1>4. ASSUME NEW c \in Clients, NEW from \in Dates, NEW to \in Dates,
             RebuildTopicRelations(c, from, to)
      PROVE  TypeOK'
  <2> DEFINE rows == [t \in Topics |-> [hits |-> HitsOf(t, from, to), manual |-> FALSE]]
             new == [Idle EXCEPT !.pc = "replace", !.call = "rebuild", !.from = from,
                                 !.to = to, !.rows = rows]
  <2>1. rows \in Rows
    BY <1>r, RebuiltRows
  <2>2. Begin(c, new) /\ UNCHANGED <<table, cache, raw, filed, behind, counted, faults>>
    BY <1>4 DEF RebuildTopicRelations, Rebuilt
  <2> HIDE DEF rows
  <2>3. new \in Locals
    BY <2>1, IdleIsLocals DEF Locals, Calls
  <2> HIDE DEF new
  <2> QED
    BY <1>r, <2>2, <2>3, BeginLocals DEF TypeOK
<1>5. ASSUME NEW c \in Clients, AccumulateHits(c)
      PROVE  TypeOK'
  <2>1. client[c].from \in Dates
    BY <1>r DEF Locals
  <2>2. table' \in Rows
    BY <1>5, <1>r, <2>1, AccumulatedRows DEF AccumulateHits, TableBecomes
  <2>3. client' \in [Clients -> Locals]
    BY <1>5, <1>r, IdleIsLocals DEF AccumulateHits, Locals
  <2>4. behind' \in BOOLEAN /\ counted' \subseteq Topics
    BY <1>5, <1>r DEF AccumulateHits, TableBecomes
  <2> QED
    BY <1>5, <1>r, <2>2, <2>3, <2>4 DEF AccumulateHits, TypeOK
<1>6. ASSUME NEW c \in Clients, ReplaceHits(c)
      PROVE  TypeOK'
  <2>1. table' \in Rows
    BY <1>6, <1>r, ReplacedRows DEF ReplaceHits, TableBecomes, Locals
  <2>2. client' \in [Clients -> Locals]
    BY <1>6, <1>r DEF ReplaceHits, Locals
  <2>3. behind' \in BOOLEAN
    BY <1>6, <1>r DEF ReplaceHits, TableBecomes
  <2>4. counted' \subseteq Topics
    BY <1>6, <1>r DEF ReplaceHits, Related
  <2> QED
    BY <1>6, <1>r, <2>1, <2>2, <2>3, <2>4 DEF ReplaceHits, TypeOK
<1>7. ASSUME NEW c \in Clients, RefreshRead(c) \/ GetStored(c)
      PROVE  TypeOK'
  BY <1>7, <1>r DEF RefreshRead, GetStored, TypeOK, Locals
<1>8. ASSUME NEW c \in Clients, RefreshFill(c) \/ FillCache(c)
      PROVE  TypeOK'
  <2>1. behind' \in BOOLEAN
    BY <1>8, <1>r, Zenon DEF RefreshFill, FillCache, AfterFill, Cached
  <2>2. cache' \in Rows
    BY <1>8, <1>r DEF RefreshFill, FillCache, AfterFill, Cached, Locals
  <2>3. client' \in [Clients -> Locals]
    BY <1>8, <1>r DEF RefreshFill, FillCache, AfterFill, AfterRefresh, Locals
  <2> QED
    BY <1>8, <1>r, <2>1, <2>2, <2>3 DEF RefreshFill, FillCache, AfterFill, TypeOK
<1>9. ASSUME NEW c \in Clients, BeginRead(c)
      PROVE  TypeOK'
  <2>1. /\ [Idle EXCEPT !.pc = "read", !.call = "page"] \in Locals
        /\ [Idle EXCEPT !.pc = "get", !.call = "heat", !.again = TRUE] \in Locals
    BY IdleIsLocals DEF Locals, Calls
  <2>2. client' \in [Clients -> Locals] /\ calls' \in Nat
    BY <1>9, <2>1, BeginLocals DEF BeginRead, Found
  <2> QED
    BY <1>9, <1>r, <2>2 DEF BeginRead, Found, TypeOK
<1>10. ASSUME NEW c \in Clients, GetCached(c)
       PROVE  TypeOK'
  BY <1>10, <1>r DEF GetCached, Found, TypeOK, Locals
<1>11. ASSUME NEW c \in Clients, Classify(c)
       PROVE  TypeOK'
  BY <1>11, <1>r DEF Classify, Found, TypeOK, Locals
<1>12. ASSUME NEW c \in Clients, FileSnapshot(c)
       PROVE  TypeOK'
  <2>1. filed' \in Topics \cup {NoTopic}
    BY <1>12 DEF FileSnapshot, Picks, Manual, Related
  <2>2. client' \in [Clients -> Locals]
    <3>1. client[c] \in Locals
      BY <1>r
    <3>2. [client[c] EXCEPT !.pc = "get", !.then = "end", !.again = FALSE] \in Locals
      BY <3>1 DEF Locals
    <3> QED
      BY <1>12, <1>r, <3>2 DEF FileSnapshot
  <2> QED
    BY <1>12, <1>r, <2>1, <2>2 DEF FileSnapshot, TypeOK
<1>13. ASSUME NEW c \in Clients, Answer(c) \/ CallFails(c)
       PROVE  TypeOK'
  <2>1. behind' \in BOOLEAN
    BY <1>13, <1>r, Zenon DEF Answer, CallFails
  <2>2. client' \in [Clients -> Locals] /\ faults' \in Nat
    BY <1>13, <1>r, IdleIsLocals DEF Answer, CallFails
  <2> QED
    BY <1>13, <1>r, <2>1, <2>2 DEF Answer, CallFails, TypeOK
<1>14. CASE CacheExpires \/ Restart
  <2>1. CASE CacheExpires
    <3>1. behind' \in BOOLEAN
      BY <2>1, <1>r, Zenon DEF CacheExpires
    <3> QED
      BY <2>1, <3>1, <1>r, EmptyIsRows DEF CacheExpires, TypeOK
  <2>2. CASE Restart
    <3>1. client' \in [Clients -> Locals]
      BY <2>2, IdleIsLocals DEF Restart
    <3>2. counted' \subseteq Topics /\ faults' \in Nat /\ cache' \in Rows
      BY <2>2, <1>r, EmptyIsRows DEF Restart
    <3> QED
      BY <2>2, <3>1, <3>2, <1>r DEF Restart, TypeOK
  <2> QED
    BY <1>14, <2>1, <2>2
<1>15. CASE UNCHANGED vars
  BY <1>15 DEF vars, TypeOK
<1> QED
  BY <1>1, <1>2, <1>3, <1>4, <1>5, <1>6, <1>7, <1>8, <1>9, <1>10, <1>11, <1>12, <1>13,
     <1>14, <1>15 DEF Next

\* Whatever calls there are, a relation has been listed or made at least once, and
\* the snapshot is filed under a topic or none.
THEOREM RelationsAreTyped == Spec => []TypeOK
<1> QED
  BY TypeInit, TypeNext, PTL DEF Spec


-------------------------------------------------------------------------------
\* Rows that are about to be cached are those of the table, unless the cache may be
\* left behind: without this, a refresh could cache anything.
HoldersAreCurrent ==
  behind \/ \A c \in Clients : client[c].pc \in {"refill", "fill"} => client[c].rows = table

CInv == TypeOK /\ HoldersAreCurrent /\ RelationsCurrent

\* A call that changes the table, and is to refresh the cache, or has to leave none.
LEMMA TableChanges ==
  ASSUME CInv, NEW c \in Clients,
         \A d \in Clients \ {c} : /\ client'[d].pc = client[d].pc
                                  /\ client'[d].rows = client[d].rows,
         client[c].pc \notin {"refill", "fill"},
         \/ /\ client'[c].pc = "refresh"
            /\ cache' = cache
            /\ behind' = (behind \/ (table' # table /\ OthersHold(c)))
         \/ /\ client[c].pc # "refresh"
            /\ client'[c].pc \notin {"refill", "fill"}
            /\ cache' = cache
            /\ behind' = (behind \/ (table' # table /\ (OthersHold(c) \/ cache # Empty)))
  PROVE  HoldersAreCurrent' /\ RelationsCurrent'
<1> SUFFICES ASSUME ~behind' PROVE HoldersAreCurrent' /\ RelationsCurrent'
  BY DEF HoldersAreCurrent, RelationsCurrent
<1>1. /\ ~behind
      /\ cache' = cache
      /\ client'[c].pc \notin {"refill", "fill"}
      /\ table' # table => ~OthersHold(c)
  OBVIOUS
<1>2. HoldersAreCurrent'
  BY <1>1 DEF CInv, HoldersAreCurrent, OthersHold
<1>3. RelationsCurrent'
  <2>1. CASE client'[c].pc = "refresh"
    BY <2>1 DEF RelationsCurrent
  <2>2. CASE client'[c].pc # "refresh" /\ table' # table
    BY <1>1, <2>2 DEF RelationsCurrent
  <2>3. CASE client'[c].pc # "refresh" /\ table' = table
    <3>1. CASE cache \in {Empty, table}
      BY <1>1, <2>3, <3>1 DEF RelationsCurrent
    <3>2. CASE cache \notin {Empty, table}
      <4>1. PICK d \in Clients : \/ client[d].pc = "refresh"
                                 \/ client[d].pc = "refill" /\ client[d].rows = table
        BY <1>1, <3>2 DEF CInv, RelationsCurrent
      <4>2. d # c
        BY <2>3, <4>1
      <4>3. \/ client'[d].pc = "refresh"
            \/ client'[d].pc = "refill" /\ client'[d].rows = table'
        BY <2>3, <4>1, <4>2
      <4> QED
        BY <4>3 DEF RelationsCurrent
    <3> QED
      BY <3>1, <3>2
  <2> QED
    BY <2>1, <2>2, <2>3
<1> QED
  BY <1>2, <1>3

\* A call does neither change the table nor the cache, and is not one that will make
\* up for either; it may have read rows, which are then those of the table.
LEMMA NothingChanges ==
  ASSUME CInv, NEW c \in Clients,
         \A d \in Clients \ {c} : /\ client'[d].pc = client[d].pc
                                  /\ client'[d].rows = client[d].rows,
         table' = table, cache' = cache,
         behind => behind', 
         \/ behind'
         \/ client'[c].pc = "refill"
         \/ client[c].pc \notin {"refill", "refresh"}
         \/ cache \in {Empty, table},
         behind' \/ (client'[c].pc \in {"refill", "fill"} => client'[c].rows = table)
  PROVE  HoldersAreCurrent' /\ RelationsCurrent'
<1> SUFFICES ASSUME ~behind' PROVE HoldersAreCurrent' /\ RelationsCurrent'
  BY DEF HoldersAreCurrent, RelationsCurrent
<1>1. HoldersAreCurrent'
  BY DEF CInv, HoldersAreCurrent
<1>2. CASE cache \in {Empty, table}
  BY <1>1, <1>2 DEF RelationsCurrent, Empty, None
<1>3. CASE cache \notin {Empty, table}
  <2>1. PICK d \in Clients : \/ client[d].pc = "refresh"
                             \/ client[d].pc = "refill" /\ client[d].rows = table
    BY <1>3 DEF CInv, RelationsCurrent
  <2>2. \/ client'[d].pc = "refresh"
        \/ client'[d].pc = "refill" /\ client'[d].rows = table'
    BY <1>3, <2>1
  <2>3. RelationsCurrent'
    BY <2>2 DEF RelationsCurrent
  <2> QED
    BY <1>1, <2>3
<1> QED
  BY <1>1, <1>2, <1>3

LEMMA CInvInit == Init => CInv
<1> SUFFICES ASSUME Init PROVE CInv
  OBVIOUS
<1>1. \A c \in Clients : client[c].pc = "idle"
  BY DEF Init, Idle
<1>2. HoldersAreCurrent /\ RelationsCurrent
  BY <1>1 DEF Init, HoldersAreCurrent, RelationsCurrent
<1> QED
  BY <1>2, TypeInit DEF CInv

LEMMA CInvNext == CInv /\ [Next]_vars => CInv'
<1> SUFFICES ASSUME CInv, [Next]_vars PROVE CInv'
  OBVIOUS
<1> DEFINE Rest == HoldersAreCurrent /\ RelationsCurrent
<1>r. /\ TypeOK
      /\ client \in [Clients -> Locals]
  BY DEF CInv, TypeOK
<1>0. TypeOK'
  BY <1>r, TypeNext
<1>i. Idle.pc = "idle"
  BY DEF Idle
<1>1. ASSUME NEW c \in Clients, NEW t \in Topics, AddManualRelation(c, t)
      PROVE  Rest'
  <2> DEFINE new == [Idle EXCEPT !.pc = "refresh", !.call = "add", !.topic = t,
                                 !.bound = Upserted(t)[t].manual]
  <2>1. new \in Locals /\ new.pc = "refresh"
    BY <1>r, UpsertedRows, IdleIsLocals DEF Locals, Calls, TypeOK
  <2>2. /\ Begin(c, new) /\ cache' = cache
        /\ behind' = (behind \/ (table' # table /\ OthersHold(c)))
    BY <1>1 DEF AddManualRelation, TableBecomes
  <2> HIDE DEF new
  <2> QED
    BY <1>r, <2>1, <2>2, BeginLocals, TableChanges
<1>2. ASSUME NEW c \in Clients, NEW t \in Topics, DeleteRelation(c, t)
      PROVE  Rest'
  <2> DEFINE new == [Idle EXCEPT !.pc = "get", !.call = "delete", !.topic = t,
                                 !.then = "classify"]
  <2>1. new \in Locals /\ new.pc = "get"
    BY IdleIsLocals DEF Locals, Calls
  <2>2. /\ Begin(c, new) /\ cache' = cache
        /\ behind' = (behind \/ (table' # table /\ (OthersHold(c) \/ cache # Empty)))
    BY <1>2 DEF DeleteRelation
  <2> HIDE DEF new
  <2> QED
    BY <1>r, <2>1, <2>2, BeginLocals, TableChanges
<1>3. ASSUME NEW c \in Clients, NEW d \in Dates, CrawlWithParams(c, d)
      PROVE  Rest'
  <2> DEFINE new == [Idle EXCEPT !.pc = "accumulate", !.call = "crawl", !.from = d]
  <2>1. new \in Locals /\ new.pc = "accumulate"
    BY IdleIsLocals DEF Locals, Calls
  <2>2. Begin(c, new) /\ UNCHANGED <<table, cache, behind>>
    BY <1>3 DEF CrawlWithParams, UpsertedRaw
  <2> HIDE DEF new
  <2> QED
    BY <1>r, <2>1, <2>2, BeginLocals, NothingChanges
<1>4. ASSUME NEW c \in Clients, NEW from \in Dates, NEW to \in Dates,
             RebuildTopicRelations(c, from, to)
      PROVE  Rest'
  <2> DEFINE rows == [t \in Topics |-> [hits |-> HitsOf(t, from, to), manual |-> FALSE]]
             new == [Idle EXCEPT !.pc = "replace", !.call = "rebuild", !.from = from,
                                 !.to = to, !.rows = rows]
  <2>1. rows \in Rows
    BY <1>r, RebuiltRows DEF TypeOK
  <2>2. Begin(c, new) /\ UNCHANGED <<table, cache, behind>>
    BY <1>4 DEF RebuildTopicRelations, Rebuilt
  <2> HIDE DEF rows
  <2>3. new \in Locals /\ new.pc = "replace"
    BY <2>1, IdleIsLocals DEF Locals, Calls
  <2> HIDE DEF new
  <2> QED
    BY <1>r, <2>2, <2>3, BeginLocals, NothingChanges
<1>5. ASSUME NEW c \in Clients, AccumulateHits(c)
      PROVE  Rest'
  <2>1. /\ client[c].pc = "accumulate" /\ cache' = cache
        /\ \A d \in Clients \ {c} : client'[d] = client[d]
    BY <1>5, <1>r DEF AccumulateHits
  <2>2. CASE client' = [client EXCEPT ![c].pc = "refresh"] /\ TableBecomes(c, Accumulated(client[c].from))
    <3>1. /\ client'[c].pc = "refresh"
          /\ behind' = (behind \/ (table' # table /\ OthersHold(c)))
      BY <1>r, <2>2 DEF TableBecomes, Locals
    <3> QED
      BY <2>1, <3>1, TableChanges
  <2>3. CASE client' = [client EXCEPT ![c] = Idle] /\ UNCHANGED <<table, behind>>
    <3>1. client'[c].pc = "idle"
      BY <1>r, <1>i, <2>3
    <3> QED
      BY <2>1, <2>3, <3>1, NothingChanges
  <2> QED
    BY <1>5, <2>2, <2>3 DEF AccumulateHits
<1>6. ASSUME NEW c \in Clients, ReplaceHits(c)
      PROVE  Rest'
  <2>1. /\ client[c].pc = "replace" /\ cache' = cache
        /\ \A d \in Clients \ {c} : client'[d] = client[d]
        /\ client'[c].pc = "refresh"
        /\ behind' = (behind \/ (table' # table /\ OthersHold(c)))
    BY <1>6, <1>r DEF ReplaceHits, TableBecomes, Locals
  <2> QED
    BY <2>1, TableChanges
<1>7. ASSUME NEW c \in Clients, RefreshRead(c) \/ GetStored(c)
      PROVE  Rest'
  <2>1. /\ UNCHANGED <<table, cache, behind>>
        /\ \A d \in Clients \ {c} : client'[d] = client[d]
        /\ client'[c].rows = table
        /\ client'[c].pc = "refill" \/ client[c].pc \notin {"refill", "refresh"}
    BY <1>7, <1>r DEF RefreshRead, GetStored, Locals
  <2> QED
    BY <2>1, NothingChanges
<1>8. ASSUME NEW c \in Clients, RefreshFill(c) \/ FillCache(c)
      PROVE  Rest'
  <2> SUFFICES ASSUME ~behind' PROVE Rest'
    BY DEF HoldersAreCurrent, RelationsCurrent
  <2>1. /\ client[c].pc \in {"refill", "fill"} /\ Cached(c, client[c].rows)
        /\ table' = table
        /\ \A d \in Clients \ {c} : client'[d] = client[d]
        /\ client'[c].rows = client[c].rows
    BY <1>8, <1>r DEF RefreshFill, FillCache, AfterFill, Locals
  <2>2. client[c].rows = table
    BY <2>1 DEF CInv, HoldersAreCurrent, Cached
  <2>3. RelationsCurrent'
    BY <2>1, <2>2 DEF RelationsCurrent, Cached
  <2>4. ASSUME behind PROVE HoldersAreCurrent'
    BY <2>1, <2>2, <2>4 DEF Cached, OthersHold, HoldersAreCurrent
  <2>5. ASSUME ~behind PROVE HoldersAreCurrent'
    BY <2>1, <2>2, <2>5 DEF CInv, HoldersAreCurrent
  <2> QED
    BY <2>3, <2>4, <2>5
<1>9. ASSUME NEW c \in Clients, BeginRead(c)
      PROVE  Rest'
  <2>1. ASSUME NEW new \in Locals, Begin(c, new), new.pc \in {"read", "get"}
        PROVE  Rest'
    <3>1. UNCHANGED <<table, cache, behind>>
      BY <1>9 DEF BeginRead, Found
    <3> QED
      BY <1>r, <2>1, <3>1, BeginLocals, NothingChanges
  <2>2. /\ [Idle EXCEPT !.pc = "read", !.call = "page"] \in Locals
        /\ [Idle EXCEPT !.pc = "read", !.call = "page"].pc = "read"
        /\ [Idle EXCEPT !.pc = "get", !.call = "heat", !.again = TRUE] \in Locals
        /\ [Idle EXCEPT !.pc = "get", !.call = "heat", !.again = TRUE].pc = "get"
    BY IdleIsLocals DEF Locals, Calls
  <2> QED
    BY <1>9, <2>1, <2>2 DEF BeginRead, Found
<1>10. ASSUME NEW c \in Clients, GetCached(c)
       PROVE  Rest'
  <2>1. client[c].pc = "get" /\ UNCHANGED <<table, cache>>
    BY <1>10 DEF GetCached, Found
  <2>4. behind => behind'
    BY <1>10, Zenon DEF GetCached, Found
  <2>3. \A d \in Clients \ {c} : client'[d] = client[d]
    BY <1>10, <1>r DEF GetCached, Found
  <2>2. behind' \/ (client'[c].pc \in {"refill", "fill"} => client'[c].rows = table)
    BY <1>10, <1>r DEF GetCached, Found, Locals
  <2> QED
    BY <2>1, <2>2, <2>3, <2>4, NothingChanges
<1>11. ASSUME NEW c \in Clients, Classify(c) \/ FileSnapshot(c) \/ Answer(c)
       PROVE  Rest'
  <2>1. /\ client[c].pc \in {"classify", "file", "end"}
        /\ UNCHANGED <<table, cache, behind>>
        /\ \A d \in Clients \ {c} : client'[d] = client[d]
        /\ client'[c].pc \in {"file", "get", "idle"}
    BY <1>11, <1>r, <1>i DEF Classify, Found, FileSnapshot, Answer, Locals
  <2> QED
    BY <2>1, NothingChanges
<1>12. ASSUME NEW c \in Clients, CallFails(c)
       PROVE  Rest'
  <2>1. /\ UNCHANGED <<table, cache>>
        /\ \A d \in Clients \ {c} : client'[d] = client[d]
        /\ client'[c].pc = "idle"
        /\ client[c].pc # "refill"
        /\ behind => behind'
        /\ behind' \/ client[c].pc # "refresh" \/ cache \in {Empty, table}
    BY <1>12, <1>r, <1>i DEF CallFails
  <2> QED
    BY <2>1, NothingChanges
<1>13. ASSUME CacheExpires PROVE Rest'
  <2>1. HoldersAreCurrent'
    BY <1>13 DEF CacheExpires, CInv, HoldersAreCurrent
  <2>2. RelationsCurrent'
    BY <1>13 DEF CacheExpires, RelationsCurrent, Empty, None
  <2> QED
    BY <2>1, <2>2
<1>14. ASSUME Restart PROVE Rest'
  <2>1. /\ cache' = Empty
        /\ \A c \in Clients : client'[c].pc = "idle"
    BY <1>14, <1>i DEF Restart
  <2> QED
    BY <2>1 DEF HoldersAreCurrent, RelationsCurrent, Empty, None
<1>15. ASSUME UNCHANGED vars PROVE Rest'
  BY <1>15 DEF vars, CInv, HoldersAreCurrent, RelationsCurrent, Empty, None
<1> HIDE DEF Rest
<1>16. Rest'
  BY <1>1, <1>2, <1>3, <1>4, <1>5, <1>6, <1>7, <1>8, <1>9, <1>10, <1>11, <1>12, <1>13,
     <1>14, <1>15 DEF Next
<1> QED
  BY <1>0, <1>16 DEF CInv, Rest

\* However many editors, crawls, rebuilds and readers there are, the cached topics of
\* a stock are those of the table or are about to be refreshed, but for the races,
\* deletes and failures that RelationsCurrent names.
THEOREM RelationsStayCurrent == Spec => []RelationsCurrent
<1>1. CInv => RelationsCurrent
  BY DEF CInv
<1> QED
  BY <1>1, CInvInit, CInvNext, PTL DEF Spec

-------------------------------------------------------------------------------
(***************************************************************************)
(* What an editor has made by hand.                                        *)
(***************************************************************************)
\* What is known of a call by where it is, and of calls that are under way together.
Known(c) ==
  LET me == client[c]
  IN  /\ me.pc = "idle" <=> me.call = "none"
      /\ me.call = "add" => me.topic \in Topics /\ me.then # "classify"
      /\ me.pc = "accumulate" => me.call = "crawl"
      /\ me.pc = "replace" => me.call = "rebuild"
      /\ me.pc \in {"classify", "file"} \/ me.then # "end" => me.call \in {"add", "delete"}
      /\ \A d \in Clients \ {c} :
           me.pc # "idle" /\ client[d].pc # "idle" => client[d].call \in me.others

CallsKnown == \A c \in Clients : Known(c)

\* A call that ManualPrevails speaks of, from its beginning.
Editing(c) ==
  /\ client[c].call = "add" /\ client[c].bound
  /\ client[c].others \cap {"add", "delete", "rebuild"} = {}

\* The rows have the relation as manual, and no manual one the table has not.
Keeps(rows, t) == rows[t].manual /\ Manual(rows) \subseteq Manual(table)

Refreshed == {"classify", "get", "read", "fill", "file", "end"}

Filed(me) == me.pc = "end" \/ (me.pc \in {"get", "read", "fill"} /\ me.then = "end")

\* The table keeps the relation; so does the cache from the refresh on, and what the
\* editor reads of it; and the snapshot stays where the editor has filed it.
Prevails(c) ==
  LET me == client[c]
  IN  /\ table[me.topic].manual
      /\ me.pc \in Refreshed => behind \/ cache = Empty \/ Keeps(cache, me.topic)
      /\ me.pc \in {"fill", "file", "end"} => me.blind \/ Keeps(me.rows, me.topic)
      /\ Filed(me) => me.blind \/ filed \in Manual(table)

KInv == CInv /\ CallsKnown /\ \A c \in Clients : Editing(c) => Prevails(c)

\* A call that begins learns of the others, and they of it.
LEMMA BeginHistory ==
  ASSUME TypeOK, NEW c \in Clients, NEW new \in Locals, Begin(c, new)
  PROVE  /\ client[c].pc = "idle"
         /\ client'[c] = [new EXCEPT !.others =
                            {client[d].call : d \in {d \in Clients : client[d].pc # "idle"}}]
         /\ \A d \in Clients \ {c} :
              client'[d] = IF client[d].pc = "idle" THEN client[d]
                           ELSE [client[d] EXCEPT !.others = @ \cup {new.call}]
<1> DEFINE active == {d \in Clients : client[d].pc # "idle"}
           seen == {client[e].call : e \in active}
<1>1. client' = [d \in Clients |->
           CASE d = c -> [new EXCEPT !.others = seen]
             [] d \in active -> [client[d] EXCEPT !.others = @ \cup {new.call}]
             [] OTHER -> client[d]]
  BY DEF Begin
<1>2. client[c].pc = "idle" /\ c \notin active
  BY DEF Begin
<1> HIDE DEF seen
<1>3. client'[c] = [new EXCEPT !.others = seen]
  BY <1>1, <1>2
<1>4. ASSUME NEW d \in Clients \ {c}
      PROVE  client'[d] = IF client[d].pc = "idle" THEN client[d]
                          ELSE [client[d] EXCEPT !.others = @ \cup {new.call}]
  BY <1>1
<1> QED
  BY <1>2, <1>3, <1>4 DEF seen

\* A call begins that is not by hand, or is: what is known of calls stays known.
LEMMA BeginKnown ==
  ASSUME TypeOK, CallsKnown, NEW c \in Clients, NEW new \in Locals, Begin(c, new),
         new.pc # "idle", new.call # "none",
         new.call = "add" => new.topic \in Topics /\ new.then # "classify",
         new.pc = "accumulate" => new.call = "crawl",
         new.pc = "replace" => new.call = "rebuild",
         new.pc \in {"classify", "file"} \/ new.then # "end" => new.call \in {"add", "delete"}
  PROVE  CallsKnown'
<1> DEFINE seen == {client[d].call : d \in {d \in Clients : client[d].pc # "idle"}}
<1>1. /\ client[c].pc = "idle"
      /\ client'[c] = [new EXCEPT !.others = seen]
      /\ \A d \in Clients \ {c} :
           client'[d] = IF client[d].pc = "idle" THEN client[d]
                        ELSE [client[d] EXCEPT !.others = @ \cup {new.call}]
  BY BeginHistory
<1>2. \A d \in Clients : client[d].pc # "idle" => client[d].call \in seen
  OBVIOUS
<1>3. seen \in SUBSET Calls
  BY DEF TypeOK, Locals
<1> HIDE DEF seen
<1>4. /\ client'[c].pc = new.pc /\ client'[c].call = new.call
      /\ client'[c].topic = new.topic /\ client'[c].then = new.then
      /\ client'[c].others = seen
  BY <1>1, <1>3 DEF Locals
<1>5. ASSUME NEW d \in Clients \ {c}
      PROVE  /\ client'[d].pc = client[d].pc /\ client'[d].call = client[d].call
             /\ client'[d].topic = client[d].topic /\ client'[d].then = client[d].then
             /\ client[d].others \subseteq client'[d].others
             /\ client[d].pc # "idle" => new.call \in client'[d].others
  <2>1. client[d] \in Locals
    BY DEF TypeOK
  <2>2. CASE client[d].pc = "idle"
    BY <1>1, <2>2
  <2>3. CASE client[d].pc # "idle"
    <3>1. client'[d] = [client[d] EXCEPT !.others = @ \cup {new.call}]
      BY <1>1, <2>3
    <3> QED
      BY <2>1, <3>1 DEF Locals
  <2> QED
    BY <2>2, <2>3
<1> SUFFICES ASSUME NEW d \in Clients
             PROVE  Known(d)'
  BY DEF CallsKnown
<1>6. CASE d = c
  BY <1>2, <1>4, <1>5, <1>6 DEF CallsKnown, Known
<1>7. CASE d # c
  BY <1>4, <1>5, <1>7 DEF CallsKnown, Known
<1> QED
  BY <1>6, <1>7

\* A call goes on, or ends.
LEMMA StepKnown ==
  ASSUME CallsKnown, NEW c \in Clients,
         \A d \in Clients \ {c} : client'[d] = client[d],
         client[c].pc # "idle",
         \/ client'[c] = Idle
         \/ /\ client'[c].call = client[c].call /\ client'[c].topic = client[c].topic
            /\ client'[c].others = client[c].others
            /\ client'[c].pc \notin {"idle", "accumulate", "replace"}
            /\ client'[c].then \in {client[c].then, "end", "file"}
            /\ client'[c].pc \in {"classify", "file"} \/ client'[c].then # "end"
                 => client[c].call \in {"add", "delete"}
  PROVE  CallsKnown'
<1> SUFFICES ASSUME NEW d \in Clients
             PROVE  Known(d)'
  BY DEF CallsKnown
<1>1. CASE client'[c] = Idle
  BY <1>1 DEF CallsKnown, Known, Idle
<1>2. CASE client'[c] # Idle
  BY <1>2 DEF CallsKnown, Known
<1> QED
  BY <1>1, <1>2

LEMMA KeepsOn ==
  ASSUME NEW rows, NEW t \in Topics, Keeps(rows, t), Manual(table) \subseteq Manual(table')
  PROVE  rows[t].manual /\ Manual(rows) \subseteq Manual(table')
BY DEF Keeps

\* Somebody else, or the cache, does something while an editor's call is under way:
\* no other editor and no rebuild.
LEMMA OthersPrevail ==
  ASSUME KInv, TypeOK', NEW c \in Clients, Editing(c),
         /\ client'[c].pc = client[c].pc /\ client'[c].topic = client[c].topic
         /\ client'[c].then = client[c].then /\ client'[c].rows = client[c].rows
         /\ client'[c].blind = client[c].blind,
         Manual(table) \subseteq Manual(table'),
         filed' = filed,
         \/ behind' \/ cache' = Empty \/ cache' = table'
         \/ cache' = cache /\ ~behind
  PROVE  Prevails(c)'
<1>1. Prevails(c) /\ client[c].topic \in Topics
  BY DEF KInv, CallsKnown, Known, Editing
<1> DEFINE t == client[c].topic
<1>2. t \in Manual(table')
  BY <1>1 DEF Prevails, Manual
<1>3. table'[t].manual
  BY <1>2 DEF Manual
<1>4. client[c].pc \in Refreshed => behind' \/ cache' = Empty \/ Keeps(cache, t)'
  BY <1>1, <1>3 DEF Prevails, Keeps
<1>5. client[c].pc \in {"fill", "file", "end"} => client[c].blind \/ Keeps(client[c].rows, t)'
  BY <1>1 DEF Prevails, Keeps
<1>6. Filed(client[c]) => client[c].blind \/ filed' \in Manual(table')
  BY <1>1 DEF Prevails
<1> QED
  BY <1>3, <1>4, <1>5, <1>6 DEF Prevails, Filed, Keeps

LEMMA RowShape ==
  ASSUME table \in Rows, NEW t \in Topics
  PROVE  table[t] \in [hits : Nat, manual : BOOLEAN]
<1>1. table[t] \in {None} \cup [hits : Nat \ {0}, manual : BOOLEAN]
  BY DEF Rows
<1>2. ASSUME table[t] = None PROVE table[t] \in [hits : Nat, manual : BOOLEAN]
  BY <1>2 DEF None
<1>3. [hits : Nat \ {0}, manual : BOOLEAN] \subseteq [hits : Nat, manual : BOOLEAN]
  OBVIOUS
<1> QED
  BY <1>1, <1>2, <1>3

\* The rows an accumulation leaves have the manual relations there were.
LEMMA AccumulatedManual ==
  ASSUME table \in Rows, NEW d \in Dates
  PROVE  Manual(Accumulated(d)) = Manual(table)
<1>1. ASSUME NEW t \in Topics
      PROVE  Accumulated(d)[t].manual = table[t].manual
  <2>1. table[t] \in [hits : Nat, manual : BOOLEAN]
    BY RowShape
  <2> DEFINE n == Cardinality(Listings(d, t))
  <2>2. Accumulated(d)[t] = [table[t] EXCEPT !.hits = @ + n]
    BY DEF Accumulated
  <2> HIDE DEF n
  <2> QED
    BY <2>1, <2>2
<1> QED
  BY <1>1 DEF Manual

LEMMA KInvInit == Init => KInv
<1> SUFFICES ASSUME Init PROVE KInv
  OBVIOUS
<1>1. \A c \in Clients : client[c] = Idle
  BY DEF Init
<1> QED
  BY <1>1, CInvInit DEF KInv, CallsKnown, Known, Editing, Idle

\* A call begins while editors' calls are under way, or is an editor's.
LEMMA BeginPrevails ==
  ASSUME KInv, TypeOK', NEW e \in Clients, NEW new \in Locals, Begin(e, new),
         cache' = cache, filed' = filed,
         new.call \notin {"add", "delete", "rebuild"} => table' = table /\ behind' = behind,
         new.call = "add" => new.pc = "refresh" /\ (new.bound => table'[new.topic].manual)
  PROVE  \A c \in Clients : Editing(c)' => Prevails(c)'
<1>t. TypeOK
  BY DEF KInv, CInv
<1> DEFINE seen == {client[d].call : d \in {d \in Clients : client[d].pc # "idle"}}
<1>1. /\ client[e].pc = "idle"
      /\ client'[e] = [new EXCEPT !.others = seen]
      /\ \A d \in Clients \ {e} :
           client'[d] = IF client[d].pc = "idle" THEN client[d]
                        ELSE [client[d] EXCEPT !.others = @ \cup {new.call}]
  BY <1>t, BeginHistory
<1> HIDE DEF seen
<1>2. ASSUME Editing(e)' PROVE Prevails(e)'
  <2>1. /\ client'[e].call = new.call /\ client'[e].pc = new.pc
        /\ client'[e].topic = new.topic /\ client'[e].bound = new.bound
    BY <1>1 DEF Locals
  <2>2. client'[e].pc = "refresh" /\ table'[client'[e].topic].manual
    BY <1>2, <2>1 DEF Editing
  <2> QED
    BY <2>2 DEF Prevails, Filed, Refreshed
<1>3. ASSUME NEW c \in Clients \ {e}, Editing(c)' PROVE Prevails(c)'
  <2>0. client[c] \in Locals
    BY <1>t DEF TypeOK
  <2>1. client[c].pc # "idle"
    <3>1. CASE client[c].pc = "idle"
      <4>1. client'[c] = client[c]
        BY <1>1, <3>1
      <4>2. client[c].call = "none"
        BY <3>1 DEF KInv, CallsKnown, Known
      <4> QED
        BY <1>3, <4>1, <4>2 DEF Editing
    <3> QED
      BY <3>1
  <2>2. client'[c] = [client[c] EXCEPT !.others = @ \cup {new.call}]
    BY <1>1, <2>1
  <2>3. /\ client'[c].pc = client[c].pc /\ client'[c].topic = client[c].topic
        /\ client'[c].then = client[c].then /\ client'[c].rows = client[c].rows
        /\ client'[c].blind = client[c].blind /\ client'[c].call = client[c].call
        /\ client'[c].bound = client[c].bound
        /\ client'[c].others = client[c].others \cup {new.call}
    BY <2>0, <2>2 DEF Locals
  <2>4. Editing(c) /\ new.call \notin {"add", "delete", "rebuild"}
    BY <1>3, <2>3 DEF Editing
  <2>5. behind \/ ~behind
    OBVIOUS
  <2>6. behind' \/ (cache' = cache /\ ~behind)
    BY <2>4, <2>5
  <2> QED
    BY <2>3, <2>4, <2>6, OthersPrevail
<1> QED
  BY <1>2, <1>3

\* A call goes on while those of other editors are under way.
LEMMA StepOthers ==
  ASSUME KInv, TypeOK', NEW e \in Clients, client[e].pc # "idle",
         \A d \in Clients \ {e} : client'[d] = client[d],
         client[e].call \notin {"add", "delete", "rebuild"} =>
           Manual(table) \subseteq Manual(table') /\ filed' = filed,
         \/ behind' \/ cache' = Empty \/ cache' = table'
         \/ cache' = cache /\ ~behind
  PROVE  \A c \in Clients \ {e} : Editing(c)' => Prevails(c)'
<1> SUFFICES ASSUME NEW c \in Clients \ {e}, Editing(c)' PROVE Prevails(c)'
  OBVIOUS
<1>1. client'[c] = client[c] /\ Editing(c)
  BY DEF Editing
<1>2. client[e].call \in client[c].others
  <2>1. client[c].pc # "idle"
    BY <1>1 DEF KInv, CallsKnown, Known, Editing
  <2> QED
    BY <2>1 DEF KInv, CallsKnown, Known
<1>3. client[e].call \notin {"add", "delete", "rebuild"}
  BY <1>1, <1>2 DEF Editing
<1> QED
  BY <1>1, <1>3, OthersPrevail

\* What is cached is the table, or behind stays.
LEMMA CachedIsTable ==
  ASSUME CInv, NEW c \in Clients, client[c].pc \in {"refill", "fill"},
         Cached(c, client[c].rows)
  PROVE  behind' \/ cache' = table
BY Zenon DEF CInv, HoldersAreCurrent, Cached

LEMMA KInvNext == KInv /\ [Next]_vars => KInv'
<1> SUFFICES ASSUME KInv, [Next]_vars PROVE KInv'
  OBVIOUS
<1> DEFINE Rest == CallsKnown /\ \A c \in Clients : Editing(c) => Prevails(c)
<1>k. CallsKnown /\ CInv /\ \A c \in Clients : Editing(c) => Prevails(c)
  BY DEF KInv
<1>r. TypeOK /\ client \in [Clients -> Locals] /\ behind \in BOOLEAN
  BY <1>k DEF CInv, TypeOK
<1>0. CInv' /\ TypeOK'
  BY <1>k, CInvNext DEF CInv
<1>e. ASSUME NEW e \in Clients, client'[e] = Idle
      PROVE  ~Editing(e)'
  BY <1>e DEF Editing, Idle
<1>1. ASSUME NEW e \in Clients, NEW t \in Topics, AddManualRelation(e, t)
      PROVE  Rest'
  <2> DEFINE new == [Idle EXCEPT !.pc = "refresh", !.call = "add", !.topic = t,
                                 !.bound = Upserted(t)[t].manual]
  <2>1. /\ new \in Locals /\ new.pc = "refresh" /\ new.call = "add" /\ new.topic = t
        /\ new.then = "end" /\ new.bound = Upserted(t)[t].manual
    BY <1>r, UpsertedRows, IdleIsLocals DEF Locals, Calls, TypeOK, Idle
  <2>2. Begin(e, new) /\ cache' = cache /\ filed' = filed /\ table' = Upserted(t)
    BY <1>1 DEF AddManualRelation, TableBecomes
  <2> HIDE DEF new
  <2>3. CallsKnown'
    BY <1>k, <1>r, <2>1, <2>2, BeginKnown
  <2>4. \A c \in Clients : Editing(c)' => Prevails(c)'
    BY <1>0, <2>1, <2>2, BeginPrevails
  <2> QED
    BY <2>3, <2>4
<1>2. ASSUME NEW e \in Clients, NEW t \in Topics, DeleteRelation(e, t)
      PROVE  Rest'
  <2> DEFINE new == [Idle EXCEPT !.pc = "get", !.call = "delete", !.topic = t,
                                 !.then = "classify"]
  <2>1. new \in Locals /\ new.pc = "get" /\ new.call = "delete"
    BY IdleIsLocals DEF Locals, Calls
  <2>2. Begin(e, new) /\ cache' = cache /\ filed' = filed
    BY <1>2 DEF DeleteRelation
  <2> HIDE DEF new
  <2>3. CallsKnown'
    BY <1>k, <1>r, <2>1, <2>2, BeginKnown
  <2>4. \A c \in Clients : Editing(c)' => Prevails(c)'
    BY <1>0, <2>1, <2>2, BeginPrevails
  <2> QED
    BY <2>3, <2>4
<1>3. ASSUME NEW e \in Clients, NEW d \in Dates, CrawlWithParams(e, d)
      PROVE  Rest'
  <2> DEFINE new == [Idle EXCEPT !.pc = "accumulate", !.call = "crawl", !.from = d]
  <2>1. /\ new \in Locals /\ new.pc = "accumulate" /\ new.call = "crawl"
        /\ new.then = "end"
    BY IdleIsLocals DEF Locals, Calls, Idle
  <2>2. Begin(e, new) /\ UNCHANGED <<table, cache, filed, behind>>
    BY <1>3 DEF CrawlWithParams, UpsertedRaw
  <2> HIDE DEF new
  <2>3. CallsKnown'
    BY <1>k, <1>r, <2>1, <2>2, BeginKnown
  <2>4. \A c \in Clients : Editing(c)' => Prevails(c)'
    BY <1>0, <2>1, <2>2, BeginPrevails
  <2> QED
    BY <2>3, <2>4
<1>4. ASSUME NEW e \in Clients, NEW from \in Dates, NEW to \in Dates,
             RebuildTopicRelations(e, from, to)
      PROVE  Rest'
  <2> DEFINE rows == [t \in Topics |-> [hits |-> HitsOf(t, from, to), manual |-> FALSE]]
             new == [Idle EXCEPT !.pc = "replace", !.call = "rebuild", !.from = from,
                                 !.to = to, !.rows = rows]
  <2>1. rows \in Rows
    BY <1>r, RebuiltRows DEF TypeOK
  <2>2. Begin(e, new) /\ UNCHANGED <<table, cache, filed, behind>>
    BY <1>4 DEF RebuildTopicRelations, Rebuilt
  <2> HIDE DEF rows
  <2>3. /\ new \in Locals /\ new.pc = "replace" /\ new.call = "rebuild"
        /\ new.then = "end"
    BY <2>1, IdleIsLocals DEF Locals, Calls, Idle
  <2> HIDE DEF new
  <2>4. CallsKnown'
    BY <1>k, <1>r, <2>2, <2>3, BeginKnown
  <2>5. \A c \in Clients : Editing(c)' => Prevails(c)'
    BY <1>0, <2>2, <2>3, BeginPrevails
  <2> QED
    BY <2>4, <2>5
<1>5. ASSUME NEW e \in Clients, BeginRead(e)
      PROVE  Rest'
  <2>1. ASSUME NEW new \in Locals, Begin(e, new), new.pc \in {"read", "get"},
               new.call \in {"page", "heat"}, new.then = "end"
        PROVE  Rest'
    <3>1. UNCHANGED <<table, cache, filed, behind>>
      BY <1>5 DEF BeginRead, Found
    <3>2. CallsKnown'
      BY <1>k, <1>r, <2>1, BeginKnown
    <3>3. \A c \in Clients : Editing(c)' => Prevails(c)'
      BY <1>0, <2>1, <3>1, BeginPrevails
    <3> QED
      BY <3>2, <3>3
  <2>2. /\ [Idle EXCEPT !.pc = "read", !.call = "page"] \in Locals
        /\ [Idle EXCEPT !.pc = "get", !.call = "heat", !.again = TRUE] \in Locals
    BY IdleIsLocals DEF Locals, Calls
  <2>3. /\ [Idle EXCEPT !.pc = "read", !.call = "page"].pc = "read"
        /\ [Idle EXCEPT !.pc = "read", !.call = "page"].call = "page"
        /\ [Idle EXCEPT !.pc = "read", !.call = "page"].then = "end"
        /\ [Idle EXCEPT !.pc = "get", !.call = "heat", !.again = TRUE].pc = "get"
        /\ [Idle EXCEPT !.pc = "get", !.call = "heat", !.again = TRUE].call = "heat"
        /\ [Idle EXCEPT !.pc = "get", !.call = "heat", !.again = TRUE].then = "end"
    BY DEF Idle
  <2> QED
    BY <1>5, <2>1, <2>2, <2>3 DEF BeginRead, Found
<1>6. ASSUME NEW e \in Clients, AccumulateHits(e)
      PROVE  Rest'
  <2>1. /\ client[e].pc = "accumulate" /\ client[e].call = "crawl"
        /\ client[e].then = "end" /\ client[e].from \in Dates
        /\ cache' = cache /\ filed' = filed
        /\ \A d \in Clients \ {e} : client'[d] = client[d]
    BY <1>6, <1>k, <1>r DEF AccumulateHits, CallsKnown, Known, Locals
  <2>2. \/ client'[e] = Idle
        \/ client'[e] = [client[e] EXCEPT !.pc = "refresh"]
    BY <1>6, <1>r DEF AccumulateHits
  <2>3. CallsKnown'
    BY <1>k, <1>r, <2>1, <2>2, StepKnown DEF Locals
  <2>4. ~Editing(e)'
    BY <1>e, <1>r, <2>1, <2>2 DEF Editing, Locals
  <2>5. Manual(table) \subseteq Manual(table')
    BY <1>6, <1>r, <2>1, AccumulatedManual DEF AccumulateHits, TableBecomes, TypeOK
  <2>6. behind' \/ (cache' = cache /\ ~behind)
    BY <1>6, <1>r, <2>1, Zenon DEF AccumulateHits, TableBecomes
  <2>7. \A c \in Clients \ {e} : Editing(c)' => Prevails(c)'
    BY <1>0, <2>1, <2>5, <2>6, StepOthers
  <2> QED
    BY <2>3, <2>4, <2>7
<1>7. ASSUME NEW e \in Clients, ReplaceHits(e)
      PROVE  Rest'
  <2>1. /\ client[e].pc = "replace" /\ client[e].call = "rebuild"
        /\ cache' = cache /\ filed' = filed
        /\ \A d \in Clients \ {e} : client'[d] = client[d]
        /\ client'[e] = [client[e] EXCEPT !.pc = "refresh"]
    BY <1>7, <1>k, <1>r DEF ReplaceHits, CallsKnown, Known
  <2>2. behind' \/ (cache' = cache /\ ~behind)
    BY <1>7, <1>r, <2>1, Zenon DEF ReplaceHits, TableBecomes
  <2>3. CallsKnown'
    BY <1>k, <1>r, <2>1, StepKnown DEF Locals, CallsKnown, Known
  <2>4. ~Editing(e)'
    BY <1>r, <2>1 DEF Editing, Locals
  <2>5. \A c \in Clients \ {e} : Editing(c)' => Prevails(c)'
    BY <1>0, <2>1, <2>2, StepOthers
  <2> QED
    BY <2>3, <2>4, <2>5
<1>8. ASSUME NEW e \in Clients, RefreshRead(e) \/ RefreshFill(e) \/ GetCached(e) \/ GetStored(e)
                                  \/ FillCache(e) \/ Classify(e) \/ FileSnapshot(e)
      PROVE  Rest'
  <2> DEFINE me == client[e]
             you == client'[e]
             t == client[e].topic
  <2>0. me \in Locals
    BY <1>r
  <2>1. /\ table' = table
        /\ \A d \in Clients \ {e} : client'[d] = client[d]
        /\ you.call = me.call /\ you.topic = me.topic /\ you.bound = me.bound
        /\ you.others = me.others
    BY <1>8, <1>r DEF RefreshRead, RefreshFill, GetCached, Found, GetStored, FillCache,
         AfterFill, Classify,
       FileSnapshot, Locals
  <2>2. me.pc \in {"refresh", "refill", "get", "read", "fill", "classify", "file"}
    BY <1>8 DEF RefreshRead, RefreshFill, GetCached, Found, GetStored, FillCache,
         AfterFill, Classify,
       FileSnapshot
  <2>3. me.call = "add" => me.then # "classify" /\ t \in Topics
    BY <1>k DEF CallsKnown, Known
  <2>4. me.pc \in {"classify", "file"} \/ me.then # "end" => me.call \in {"add", "delete"}
    BY <1>k DEF CallsKnown, Known
  <2>5. behind' \/ cache' = table \/ (cache' = cache /\ ~behind)
    <3>1. CASE RefreshFill(e) \/ FillCache(e)
      BY <1>k, <3>1, CachedIsTable DEF RefreshFill, FillCache, AfterFill
    <3>2. CASE GetCached(e)
      BY <1>r, <3>2, Zenon DEF GetCached, Found
    <3>3. CASE RefreshRead(e) \/ GetStored(e) \/ Classify(e) \/ FileSnapshot(e)
      BY <1>r, <3>3, Zenon DEF RefreshRead, GetStored, Classify, Found, FileSnapshot
    <3> QED
      BY <1>8, <3>1, <3>2, <3>3
  <2>6. me.call \notin {"add", "delete"} => filed' = filed
    BY <1>8, <2>4 DEF RefreshRead, RefreshFill, GetCached, Found, GetStored, FillCache,
         AfterFill, Classify,
       FileSnapshot
  <2>7. CallsKnown'
    <3>1. /\ you.pc \notin {"idle", "accumulate", "replace"}
          /\ you.then \in {me.then, "end", "file"}
          /\ you.pc \in {"classify", "file"} \/ you.then # "end" => me.call \in {"add", "delete"}
      <4>1. CASE RefreshRead(e) \/ RefreshFill(e)
        BY <1>r, <2>0, <2>4, <4>1 DEF RefreshRead, RefreshFill, AfterRefresh, Locals
      <4>2. CASE GetCached(e)
        BY <1>r, <2>0, <2>4, <4>2 DEF GetCached, Found, Locals
      <4>3. CASE GetStored(e) \/ FillCache(e)
        BY <1>r, <2>0, <2>4, <4>3 DEF GetStored, FillCache, AfterFill, Locals
      <4>4. CASE Classify(e) \/ FileSnapshot(e)
        BY <1>r, <2>0, <2>4, <4>4 DEF Classify, Found, FileSnapshot, Locals
      <4> QED
        BY <1>8, <4>1, <4>2, <4>3, <4>4
    <3> QED
      BY <1>k, <2>1, <2>2, <3>1, StepKnown
  <2>8. \A c \in Clients \ {e} : Editing(c)' => Prevails(c)'
    BY <1>0, <2>1, <2>2, <2>5, <2>6, StepOthers
  <2>9. ASSUME Editing(e)' PROVE Prevails(e)'
    <3>1. Editing(e) /\ Prevails(e) /\ me.call = "add" /\ t \in Topics /\ me.then # "classify"
      BY <1>k, <2>1, <2>3, <2>9 DEF Editing
    <3>2. table[t].manual /\ Keeps(table, t)
      BY <3>1 DEF Prevails, Keeps
    <3>3. you.pc \in Refreshed => behind' \/ cache' = Empty \/ Keeps(cache', t)
      <4>1. CASE cache' = cache /\ ~behind /\ me.pc \in Refreshed
        BY <3>1, <4>1 DEF Prevails
      <4>2. CASE me.pc \notin Refreshed
        <5>1. CASE RefreshFill(e)
          BY <1>k, <3>2, <5>1, CachedIsTable DEF RefreshFill
        <5>2. CASE ~RefreshFill(e)
          BY <1>8, <1>r, <2>0, <4>2, <5>2
          DEF Refreshed, RefreshRead, GetCached, Found, GetStored,
             FillCache, AfterFill, Classify, FileSnapshot, Locals
        <5> QED
          BY <5>1, <5>2
      <4> QED
        BY <2>5, <3>2, <4>1, <4>2
    <3>4. /\ you.pc \in {"fill", "file", "end"} => you.blind \/ Keeps(you.rows, t)
          /\ Filed(you) => you.blind \/ filed' \in Manual(table)
      <4>1. CASE RefreshRead(e) \/ RefreshFill(e)
        BY <1>r, <2>0, <3>1, <4>1 DEF RefreshRead, RefreshFill, AfterRefresh, Filed, Locals
      <4>2. CASE GetCached(e)
        <5>1. me.pc = "get" /\ filed' = filed
          BY <4>2 DEF GetCached, Found
        <5>2. cache # Empty => behind \/ Keeps(cache, t)
          BY <3>1, <5>1 DEF Prevails, Refreshed
        <5>3. me.then = "end" => me.blind \/ filed \in Manual(table)
          BY <3>1, <5>1 DEF Prevails, Filed
        <5>4. \/ /\ cache # Empty
                 /\ you = [me EXCEPT !.pc = IF me.again THEN "fill" ELSE me.then,
                                     !.rows = cache, !.again = FALSE, !.blind = @ \/ behind]
              \/ you = [me EXCEPT !.pc = "read"]
          BY <1>r, <4>2 DEF GetCached, Found
        <5> QED
          BY <1>r, <2>0, <3>1, <5>1, <5>2, <5>3, <5>4 DEF Filed, Locals
      <4>3. CASE GetStored(e) \/ FillCache(e)
        <5>1. me.pc \in {"read", "fill"} /\ filed' = filed
          BY <4>3 DEF GetStored, FillCache, AfterFill
        <5>2. me.then = "end" => me.blind \/ filed \in Manual(table)
          BY <3>1, <5>1 DEF Prevails, Filed
        <5>3. you.rows = table \/ (you.rows = me.rows /\ me.pc = "fill")
          BY <1>r, <2>0, <4>3 DEF GetStored, FillCache, AfterFill, Locals
        <5>4. me.blind \/ Keeps(you.rows, t)
          BY <3>1, <3>2, <5>3 DEF Prevails
        <5>5. /\ you.blind = me.blind /\ you.then = me.then
              /\ you.pc \in {"fill", me.then}
          BY <1>r, <2>0, <4>3 DEF GetStored, FillCache, AfterFill, Locals
        <5> QED
          BY <2>0, <3>1, <5>1, <5>2, <5>4, <5>5 DEF Filed, Locals
      <4>4. CASE Classify(e)
        <5>1. me.pc = "classify" /\ filed' = filed
          BY <4>4 DEF Classify, Found
        <5>2. cache # Empty => behind \/ Keeps(cache, t)
          BY <3>1, <5>1 DEF Prevails, Refreshed
        <5>3. \/ /\ cache # Empty
                 /\ you = [me EXCEPT !.pc = "file", !.rows = cache, !.blind = @ \/ behind]
              \/ you = [me EXCEPT !.pc = "get", !.then = "file", !.again = TRUE]
          BY <1>r, <4>4 DEF Classify, Found
        <5> QED
          BY <1>r, <2>0, <5>2, <5>3 DEF Filed, Locals
      <4>5. CASE FileSnapshot(e)
        <5>1. /\ me.pc = "file" /\ filed' \in Picks(me.rows)
              /\ you = [me EXCEPT !.pc = "get", !.then = "end", !.again = FALSE]
          BY <1>r, <4>5 DEF FileSnapshot
        <5>2. me.blind \/ Keeps(me.rows, t)
          BY <3>1, <5>1 DEF Prevails
        <5>3. Keeps(me.rows, t) => filed' \in Manual(table)
          <6> SUFFICES ASSUME Keeps(me.rows, t) PROVE filed' \in Manual(table)
            OBVIOUS
          <6>1. t \in Manual(me.rows)
            BY <3>1 DEF Keeps, Manual
          <6>2. t \in Related(me.rows)
            BY <3>1 DEF Keeps, Related, None
          <6>3. Picks(me.rows) = Manual(me.rows)
            BY <6>1, <6>2 DEF Picks
          <6> QED
            BY <5>1, <6>3 DEF Keeps
        <5>4. you.pc = "get" /\ you.blind = me.blind
          BY <2>0, <5>1 DEF Locals
        <5> QED
          BY <5>2, <5>3, <5>4
      <4> QED
        BY <1>8, <4>1, <4>2, <4>3, <4>4, <4>5
    <3>5. \A rows : Keeps(rows, t) => rows[t].manual /\ Manual(rows) \subseteq Manual(table')
      BY <2>1 DEF Keeps
    <3> QED
      BY <2>1, <3>2, <3>3, <3>4, <3>5 DEF Prevails, Keeps
  <2> QED
    BY <2>7, <2>8, <2>9
<1>9. ASSUME NEW e \in Clients, Answer(e) \/ CallFails(e)
      PROVE  Rest'
  <2>1. /\ client[e].pc # "idle" /\ client'[e] = Idle
        /\ \A d \in Clients \ {e} : client'[d] = client[d]
        /\ UNCHANGED <<table, cache, filed>>
    BY <1>9, <1>r DEF Answer, CallFails
  <2>2. behind' \/ (cache' = cache /\ ~behind)
    BY <1>9, <1>r, <2>1, Zenon DEF Answer, CallFails
  <2>3. CallsKnown'
    BY <1>k, <2>1, StepKnown
  <2>4. \A c \in Clients \ {e} : Editing(c)' => Prevails(c)'
    BY <1>0, <2>1, <2>2, StepOthers
  <2> QED
    BY <1>e, <2>1, <2>3, <2>4
<1>10. ASSUME CacheExpires PROVE Rest'
  <2>1. cache' = Empty /\ UNCHANGED <<table, filed, client>>
    BY <1>10 DEF CacheExpires
  <2>2. CallsKnown'
    BY <1>k, <2>1 DEF CallsKnown, Known
  <2>3. ASSUME NEW c \in Clients, Editing(c)' PROVE Prevails(c)'
    <3>1. Editing(c)
      BY <2>1, <2>3 DEF Editing
    <3> QED
      BY <1>0, <2>1, <3>1, OthersPrevail
  <2> QED
    BY <2>2, <2>3
<1>11. ASSUME Restart PROVE Rest'
  <2>1. \A c \in Clients : client'[c] = Idle
    BY <1>11 DEF Restart
  <2>2. CallsKnown'
    BY <2>1 DEF CallsKnown, Known, Idle
  <2> QED
    BY <1>e, <2>1, <2>2
<1>12. ASSUME UNCHANGED vars PROVE Rest'
  BY <1>12, <1>k DEF vars, CallsKnown, Known, Editing, Prevails, Keeps, Filed, Manual
<1> HIDE DEF Rest
<1>13. Rest'
  BY <1>1, <1>2, <1>3, <1>4, <1>5, <1>6, <1>7, <1>8, <1>9, <1>10, <1>11, <1>12 DEF Next
<1> QED
  BY <1>0, <1>13 DEF KInv, Rest

\* Whatever readers and crawls do meanwhile, and whatever other topics the stock has,
\* an editor who has made a manual relation alone, and has not read a cache left
\* behind, is answered with it and finds the snapshot filed under a manual topic.
THEOREM ManualAlwaysPrevails == Spec => []ManualPrevails
<1>1. KInv => ManualPrevails
  <2> SUFFICES ASSUME KInv, NEW c \in Clients, client[c].pc = "end", Editing(c),
                      ~client[c].blind
               PROVE  /\ table[client[c].topic].manual
                      /\ client[c].rows[client[c].topic].manual
                      /\ filed \in Manual(table)
    BY DEF ManualPrevails, Editing
  <2> QED
    BY DEF KInv, Prevails, Keeps, Filed
<1> QED
  BY <1>1, KInvInit, KInvNext, PTL DEF Spec

-------------------------------------------------------------------------------
(***************************************************************************)
(* Hits.                                                                   *)
(***************************************************************************)
\* The listings that the crawls under way have yet to add, for calls as in k.
Owed(k, t) ==
  UNION {{c} \X Listings(k[c].from, t) : c \in {c \in Clients : k[c].pc = "accumulate"}}

\* The raw data has a date as it is listed, or not at all.
WholeDates ==
  \A d \in Dates, n \in Names :
    <<n, d>> \in raw => n \in Listed[d] /\ \A m \in Listed[d] : <<m, d>> \in raw

HInv ==
  /\ TypeOK
  /\ WholeDates
  /\ \A t \in Topics : IsFiniteSet(Owed(client, t))
  /\ HitsMatchRaw

LEMMA HitsOwed ==
  HitsMatchRaw <=>
    \A t \in counted : HitsOf(t, 1, LastDate) = table[t].hits + Cardinality(Owed(client, t))
BY DEF HitsMatchRaw, Owed

\* Calls that differ in one crawl differ by what it owes.
LEMMA OwedByOne ==
  ASSUME NEW k, NEW l, NEW c \in Clients, NEW t \in Topics,
         k[c].pc # "accumulate", l[c].pc = "accumulate", l[c].from \in Dates,
         \A d \in Clients \ {c} : k[d].pc = l[d].pc /\ k[d].from = l[d].from,
         IsFiniteSet(Owed(k, t)) \/ IsFiniteSet(Owed(l, t))
  PROVE  /\ IsFiniteSet(Owed(k, t)) /\ IsFiniteSet(Owed(l, t))
         /\ Cardinality(Owed(k, t)) \in Nat
         /\ Cardinality(Owed(l, t)) =
              Cardinality(Owed(k, t)) + Cardinality(Listings(l[c].from, t))
<1> DEFINE L == Listings(l[c].from, t)
           K == Owed(k, t)
           mine == {c} \X L
<1>1. IsFiniteSet(L) /\ Cardinality(L) \in Nat
  <2>1. L \in SUBSET Names
    BY RelationAssumption DEF Listings
  <2> QED
    BY <2>1, FS_Subset, FS_CardinalityType, RelationAssumption
<1>2. Owed(l, t) = K \cup mine
  BY DEF Owed
<1>3. K \cap mine = {}
  BY DEF Owed
<1>4. IsFiniteSet(mine) /\ Cardinality(mine) = Cardinality(L)
  <2>1. IsFiniteSet({c}) /\ Cardinality({c}) = 1
    BY FS_Singleton
  <2>2. IsFiniteSet(mine) /\ Cardinality(mine) = 1 * Cardinality(L)
    BY <1>1, <2>1, FS_Product
  <2> QED
    BY <1>1, <2>2
<1> HIDE DEF mine, K, L
<1>5. IsFiniteSet(K)
  <2>1. K \in SUBSET Owed(l, t)
    BY <1>2
  <2> QED
    BY <2>1, FS_Subset DEF K
<1>6. IsFiniteSet(Owed(l, t)) /\ Cardinality(Owed(l, t)) = Cardinality(K) + Cardinality(mine)
  <2>1. Cardinality({}) = 0
    BY FS_EmptySet
  <2>2. /\ IsFiniteSet(K \cup mine)
        /\ Cardinality(K \cup mine) = Cardinality(K) + Cardinality(mine) - Cardinality(K \cap mine)
    BY <1>4, <1>5, FS_Union
  <2>3. Cardinality(K) \in Nat /\ Cardinality(mine) \in Nat
    BY <1>1, <1>4, <1>5, FS_CardinalityType
  <2>4. Cardinality(K \cap mine) = 0
    BY <1>3, <2>1
  <2> QED
    BY <1>2, <2>2, <2>3, <2>4
<1>7. Cardinality(K) \in Nat
  BY <1>5, FS_CardinalityType
<1> QED
  BY <1>4, <1>5, <1>6, <1>7 DEF K, L

LEMMA OwedAlike ==
  ASSUME NEW k, NEW l, NEW t \in Topics,
         \A c \in Clients : /\ k[c].pc = "accumulate" <=> l[c].pc = "accumulate"
                            /\ k[c].pc = "accumulate" => k[c].from = l[c].from
  PROVE  Owed(k, t) = Owed(l, t)
BY DEF Owed

\* The raw rows of a date that was not there add its listings to the hits.
LEMMA DateAdds ==
  ASSUME raw \subseteq Names \X Dates, NEW d \in Dates, NEW t \in Topics,
         raw' = raw \cup (Listed[d] \X {d}),
         raw \cap (Listed[d] \X {d}) = {}
  PROVE  HitsOf(t, 1, LastDate)' = HitsOf(t, 1, LastDate) + Cardinality(Listings(d, t))
<1> DEFINE E == {e \in raw : Normalized[e[1]] = t /\ e[2] \in 1..LastDate}
           F == {e \in raw' : Normalized[e[1]] = t /\ e[2] \in 1..LastDate}
           L == Listings(d, t)
           new == L \X {d}
<1>1. HitsOf(t, 1, LastDate) = Cardinality(E) /\ HitsOf(t, 1, LastDate)' = Cardinality(F)
  BY DEF HitsOf, Aggregated
<1>2. IsFiniteSet(L) /\ Cardinality(L) \in Nat
  <2>1. L \in SUBSET Names
    BY RelationAssumption DEF Listings
  <2> QED
    BY <2>1, FS_Subset, FS_CardinalityType, RelationAssumption
<1>3. IsFiniteSet(new) /\ Cardinality(new) = Cardinality(L)
  <2>1. IsFiniteSet({d}) /\ Cardinality({d}) = 1
    BY FS_Singleton
  <2>2. IsFiniteSet(new) /\ Cardinality(new) = Cardinality(L) * 1
    BY <1>2, <2>1, FS_Product
  <2> QED
    BY <1>2, <2>2
<1>4. F = E \cup new
  BY DEF Listings, Dates
<1>5. E \cap new = {}
  BY DEF Listings
<1>6. IsFiniteSet(E)
  <2>1. IsFiniteSet(Dates)
    BY FS_Interval, RelationAssumption DEF Dates
  <2>2. IsFiniteSet(Names \X Dates)
    BY <2>1, FS_Product, RelationAssumption
  <2>3. E \in SUBSET (Names \X Dates)
    OBVIOUS
  <2> QED
    BY <2>2, <2>3, FS_Subset
<1> HIDE DEF E, F, L, new
<1>7. Cardinality(F) = Cardinality(E) + Cardinality(new) - Cardinality(E \cap new)
  BY <1>3, <1>4, <1>6, FS_Union
<1>8. Cardinality({}) = 0 /\ Cardinality(E) \in Nat
  BY <1>6, FS_EmptySet, FS_CardinalityType
<1>9. HitsOf(t, 1, LastDate)' = HitsOf(t, 1, LastDate) + Cardinality(L)
  <2>1. Cardinality(E \cap new) = 0
    BY <1>5, <1>8
  <2> QED
    BY <1>1, <1>2, <1>3, <1>7, <1>8, <2>1
<1> QED
  BY <1>9 DEF L

\* Neither raw data nor what is owed changes.
LEMMA HitsStay ==
  ASSUME HInv, raw' = raw,
         \A c \in Clients : /\ client'[c].pc = "accumulate" <=> client[c].pc = "accumulate"
                            /\ client[c].pc = "accumulate" => client'[c].from = client[c].from,
         counted' \subseteq counted,
         \A t \in counted' : table'[t].hits = table[t].hits
  PROVE  WholeDates' /\ (\A t \in Topics : IsFiniteSet(Owed(client, t)))' /\ HitsMatchRaw'
<1>1. \A t \in Topics : Owed(client', t) = Owed(client, t)
  BY OwedAlike
<1>2. \A t \in counted : HitsOf(t, 1, LastDate) = table[t].hits + Cardinality(Owed(client, t))
  BY HitsOwed DEF HInv
<1>3. \A t \in counted' : HitsOf(t, 1, LastDate)' = table'[t].hits + Cardinality(Owed(client', t))
  BY <1>1, <1>2 DEF HitsOf, Aggregated, HInv, TypeOK
<1>4. HitsMatchRaw'
  BY <1>3, HitsOwed DEF HitsMatchRaw, Owed
<1>5. WholeDates'
  BY DEF HInv, WholeDates
<1>6. (\A t \in Topics : IsFiniteSet(Owed(client, t)))'
  BY <1>1 DEF HInv, Owed
<1> QED
  BY <1>4, <1>5, <1>6

LEMMA HInvInit == Init => HInv
<1> SUFFICES ASSUME Init PROVE HInv
  OBVIOUS
<1>1. \A t \in Topics : Owed(client, t) = {}
  BY DEF Init, Idle, Owed
<1>2. raw = {} /\ table = Empty /\ counted \subseteq Topics
  BY DEF Init
<1>3. \A t \in Topics : HitsOf(t, 1, LastDate) = Cardinality({}) /\ table[t].hits = 0
  BY <1>2 DEF HitsOf, Aggregated, Empty, None
<1>4. IsFiniteSet({}) /\ Cardinality({}) = 0
  BY FS_EmptySet
<1>5. HitsMatchRaw
  BY <1>1, <1>2, <1>3, <1>4, HitsOwed
<1>6. WholeDates
  BY <1>2 DEF WholeDates
<1> QED
  BY <1>1, <1>4, <1>5, <1>6, TypeInit DEF HInv

LEMMA HInvNext == HInv /\ [Next]_vars => HInv'
<1> SUFFICES ASSUME HInv, [Next]_vars PROVE HInv'
  OBVIOUS
<1> DEFINE Rest == WholeDates /\ (\A t \in Topics : IsFiniteSet(Owed(client, t))) /\ HitsMatchRaw
<1>r. /\ TypeOK /\ table \in Rows /\ client \in [Clients -> Locals]
      /\ counted \subseteq Topics /\ raw \subseteq Names \X Dates
  BY DEF HInv, TypeOK
<1>0. TypeOK'
  BY <1>r, TypeNext
<1>h. \A t \in counted : HitsOf(t, 1, LastDate) = table[t].hits + Cardinality(Owed(client, t))
  BY HitsOwed DEF HInv
<1>i. Idle.pc = "idle"
  BY DEF Idle
<1>n. \A t \in Topics : table[t].hits \in Nat
  BY <1>r DEF Rows, None
<1>b. ASSUME NEW e \in Clients, NEW new \in Locals, Begin(e, new)
      PROVE  /\ client[e].pc = "idle" /\ client'[e].pc = new.pc /\ client'[e].from = new.from
             /\ \A d \in Clients \ {e} : /\ client'[d].pc = client[d].pc
                                         /\ client'[d].from = client[d].from
  <2>1. client[e].pc = "idle" /\ client'[e].pc = new.pc
    BY <1>b, <1>r, BeginLocals
  <2>2. client'[e].from = new.from
    <3>1. \E S : client'[e] = [new EXCEPT !.others = S]
      BY <1>b, <1>r, BeginHistory
    <3> QED
      BY <3>1 DEF Locals
  <2>3. ASSUME NEW d \in Clients \ {e}
        PROVE  client'[d].pc = client[d].pc /\ client'[d].from = client[d].from
    <3>1. client[d] \in Locals
      BY <1>r
    <3>2. client'[d] = client[d] \/ client'[d] = [client[d] EXCEPT !.others = @ \cup {new.call}]
      BY <1>b, <1>r, BeginHistory
    <3> QED
      BY <3>1, <3>2 DEF Locals
  <2> QED
    BY <2>1, <2>2, <2>3
<1>1. ASSUME NEW e \in Clients, NEW t \in Topics, AddManualRelation(e, t)
      PROVE  Rest'
  <2> DEFINE new == [Idle EXCEPT !.pc = "refresh", !.call = "add", !.topic = t,
                                 !.bound = Upserted(t)[t].manual]
  <2>1. new \in Locals /\ new.pc = "refresh"
    BY <1>r, UpsertedRows, IdleIsLocals DEF Locals, Calls
  <2>2. Begin(e, new) /\ raw' = raw /\ counted' = counted \ {t} /\ table' = Upserted(t)
    BY <1>1 DEF AddManualRelation, TableBecomes
  <2> HIDE DEF new
  <2>3. \A u \in counted' : table'[u].hits = table[u].hits
    BY <1>r, <2>2 DEF Upserted
  <2>4. \A c \in Clients : /\ client'[c].pc = "accumulate" <=> client[c].pc = "accumulate"
                           /\ client[c].pc = "accumulate" => client'[c].from = client[c].from
    BY <1>b, <2>1, <2>2
  <2> QED
    BY <2>2, <2>3, <2>4, HitsStay
<1>2. ASSUME NEW e \in Clients, NEW t \in Topics, DeleteRelation(e, t)
      PROVE  Rest'
  <2> DEFINE new == [Idle EXCEPT !.pc = "get", !.call = "delete", !.topic = t,
                                 !.then = "classify"]
  <2>1. new \in Locals /\ new.pc = "get"
    BY IdleIsLocals DEF Locals, Calls
  <2>2. /\ Begin(e, new) /\ raw' = raw /\ counted' = counted \ {t}
        /\ table' = [table EXCEPT ![t] = None]
    BY <1>2 DEF DeleteRelation
  <2> HIDE DEF new
  <2>3. \A u \in counted' : table'[u].hits = table[u].hits
    BY <1>r, <2>2
  <2>4. \A c \in Clients : /\ client'[c].pc = "accumulate" <=> client[c].pc = "accumulate"
                           /\ client[c].pc = "accumulate" => client'[c].from = client[c].from
    BY <1>b, <2>1, <2>2
  <2> QED
    BY <2>2, <2>3, <2>4, HitsStay
<1>3. ASSUME NEW e \in Clients, NEW d \in Dates, CrawlWithParams(e, d)
      PROVE  Rest'
  <2> DEFINE new == [Idle EXCEPT !.pc = "accumulate", !.call = "crawl", !.from = d]
  <2>1. new \in Locals /\ new.pc = "accumulate" /\ new.from = d
    BY IdleIsLocals DEF Locals, Calls
  <2>2. /\ Begin(e, new) /\ table' = table /\ raw' = raw \cup (Listed[d] \X {d})
        /\ counted' = IF raw' = raw THEN counted \ OfDate(d) ELSE counted
    BY <1>3 DEF CrawlWithParams, UpsertedRaw
  <2> HIDE DEF new
  <2>3. /\ client[e].pc # "accumulate" /\ client'[e].pc = "accumulate" /\ client'[e].from = d
        /\ \A c \in Clients \ {e} : /\ client'[c].pc = client[c].pc
                                    /\ client'[c].from = client[c].from
    BY <1>b, <2>1, <2>2
  <2>4. ASSUME NEW t \in Topics
        PROVE  /\ IsFiniteSet(Owed(client', t)) /\ Cardinality(Owed(client, t)) \in Nat
               /\ Cardinality(Owed(client', t)) =
                    Cardinality(Owed(client, t)) + Cardinality(Listings(d, t))
    <3>1. IsFiniteSet(Owed(client, t))
      BY DEF HInv
    <3>2. /\ IsFiniteSet(Owed(client', t)) /\ Cardinality(Owed(client, t)) \in Nat
          /\ Cardinality(Owed(client', t)) =
               Cardinality(Owed(client, t)) + Cardinality(Listings(client'[e].from, t))
      <4>1. PICK k : k = client
        OBVIOUS
      <4>2. PICK l : l = client'
        OBVIOUS
      <4>3. /\ k[e].pc # "accumulate" /\ l[e].pc = "accumulate" /\ l[e].from \in Dates
            /\ \A c \in Clients \ {e} : k[c].pc = l[c].pc /\ k[c].from = l[c].from
            /\ IsFiniteSet(Owed(k, t))
        BY <2>3, <3>1, <4>1, <4>2
      <4>4. /\ IsFiniteSet(Owed(l, t)) /\ Cardinality(Owed(k, t)) \in Nat
            /\ Cardinality(Owed(l, t)) =
                 Cardinality(Owed(k, t)) + Cardinality(Listings(l[e].from, t))
        BY <4>3, OwedByOne, ZenonT(40)
      <4> QED
        BY <4>1, <4>2, <4>4
    <3> QED
      BY <2>3, <3>2
  <2>5. WholeDates'
    BY <2>2, RelationAssumption DEF HInv, WholeDates
  <2>6. ASSUME NEW t \in counted'
        PROVE  HitsOf(t, 1, LastDate)' = table'[t].hits + Cardinality(Owed(client', t))
    <3>1. t \in counted /\ t \in Topics
      BY <1>r, <2>2, <2>6
    <3>2. HitsOf(t, 1, LastDate) = table[t].hits + Cardinality(Owed(client, t))
      BY <1>h, <3>1
    <3>3. Cardinality(Listings(d, t)) \in Nat
      BY <3>1, ListingsCounted
    <3>4. CASE raw' = raw
      <4>1. Listings(d, t) = {}
        BY <2>2, <2>6, <3>1, <3>4 DEF OfDate
      <4>2. Cardinality(Owed(client', t)) = Cardinality(Owed(client, t))
        <5>1. Cardinality(Listings(d, t)) = 0
          BY <4>1, FS_EmptySet
        <5> QED
          BY <2>4, <3>1, <5>1
      <4> QED
        BY <2>2, <3>2, <3>4, <4>2 DEF HitsOf, Aggregated
    <3>5. CASE raw' # raw
      <4>1. raw \cap (Listed[d] \X {d}) = {}
        <5> SUFFICES ASSUME NEW m \in Listed[d], <<m, d>> \in raw PROVE FALSE
          OBVIOUS
        <5>1. \A n \in Listed[d] : <<n, d>> \in raw
          BY RelationAssumption DEF HInv, WholeDates
        <5>2. raw' = raw
          BY <2>2, <5>1
        <5> QED
          BY <3>5, <5>2
      <4>2. HitsOf(t, 1, LastDate)' = HitsOf(t, 1, LastDate) + Cardinality(Listings(d, t))
        BY <1>r, <2>2, <3>1, <4>1, DateAdds
      <4> QED
        BY <1>n, <2>2, <2>4, <3>1, <3>2, <3>3, <4>2
    <3> QED
      BY <3>4, <3>5
  <2>7. HitsMatchRaw'
    BY <2>6, HitsOwed DEF HitsMatchRaw, Owed
  <2>8. (\A t \in Topics : IsFiniteSet(Owed(client, t)))'
    BY <2>4 DEF Owed
  <2> QED
    BY <2>5, <2>7, <2>8
<1>4. ASSUME NEW e \in Clients, NEW from \in Dates, NEW to \in Dates,
             RebuildTopicRelations(e, from, to)
      PROVE  Rest'
  <2> DEFINE rows == [t \in Topics |-> [hits |-> HitsOf(t, from, to), manual |-> FALSE]]
             new == [Idle EXCEPT !.pc = "replace", !.call = "rebuild", !.from = from,
                                 !.to = to, !.rows = rows]
  <2>1. rows \in Rows
    BY <1>r, RebuiltRows
  <2>2. Begin(e, new) /\ UNCHANGED <<table, raw, counted>>
    BY <1>4 DEF RebuildTopicRelations, Rebuilt
  <2> HIDE DEF rows
  <2>3. new \in Locals /\ new.pc = "replace"
    BY <2>1, IdleIsLocals DEF Locals, Calls
  <2> HIDE DEF new
  <2>4. \A c \in Clients : /\ client'[c].pc = "accumulate" <=> client[c].pc = "accumulate"
                           /\ client[c].pc = "accumulate" => client'[c].from = client[c].from
    BY <1>b, <2>2, <2>3
  <2> QED
    BY <2>2, <2>4, HitsStay
<1>5. ASSUME NEW e \in Clients, BeginRead(e)
      PROVE  Rest'
  <2>1. ASSUME NEW new \in Locals, Begin(e, new), new.pc \in {"read", "get"}
        PROVE  Rest'
    <3>1. UNCHANGED <<table, raw, counted>>
      BY <1>5 DEF BeginRead, Found
    <3>2. \A c \in Clients : /\ client'[c].pc = "accumulate" <=> client[c].pc = "accumulate"
                             /\ client[c].pc = "accumulate" => client'[c].from = client[c].from
      BY <1>b, <2>1
    <3> QED
      BY <3>1, <3>2, HitsStay
  <2>2. /\ [Idle EXCEPT !.pc = "read", !.call = "page"] \in Locals
        /\ [Idle EXCEPT !.pc = "read", !.call = "page"].pc = "read"
        /\ [Idle EXCEPT !.pc = "get", !.call = "heat", !.again = TRUE] \in Locals
        /\ [Idle EXCEPT !.pc = "get", !.call = "heat", !.again = TRUE].pc = "get"
    BY IdleIsLocals DEF Locals, Calls
  <2> QED
    BY <1>5, <2>1, <2>2 DEF BeginRead, Found
<1>6. ASSUME NEW e \in Clients, AccumulateHits(e)
      PROVE  Rest'
  <2> DEFINE d == client[e].from
  <2>1. /\ client[e].pc = "accumulate" /\ d \in Dates /\ raw' = raw
        /\ \A c \in Clients \ {e} : client'[c] = client[c]
    BY <1>6, <1>r DEF AccumulateHits, Locals
  <2>2. client'[e].pc # "accumulate"
    BY <1>6, <1>r, <1>i DEF AccumulateHits, Locals
  <2>3. ASSUME NEW t \in Topics
        PROVE  /\ IsFiniteSet(Owed(client', t)) /\ Cardinality(Owed(client', t)) \in Nat
               /\ Cardinality(Owed(client, t)) =
                    Cardinality(Owed(client', t)) + Cardinality(Listings(d, t))
    <3>1. IsFiniteSet(Owed(client, t))
      BY DEF HInv
    <3> QED
      BY <2>1, <2>2, <3>1, OwedByOne
  <2>4. \/ table' = Accumulated(d) /\ counted' = counted
        \/ table' = table /\ counted' = counted \ OfDate(d)
    BY <1>6 DEF AccumulateHits, TableBecomes
  <2>5. ASSUME NEW t \in counted'
        PROVE  HitsOf(t, 1, LastDate)' = table'[t].hits + Cardinality(Owed(client', t))
    <3>1. t \in counted /\ t \in Topics
      BY <1>r, <2>4, <2>5
    <3>2. /\ HitsOf(t, 1, LastDate) = table[t].hits + Cardinality(Owed(client, t))
          /\ HitsOf(t, 1, LastDate)' = HitsOf(t, 1, LastDate)
      BY <1>h, <2>1, <3>1 DEF HitsOf, Aggregated
    <3>3. Cardinality(Listings(d, t)) \in Nat /\ table[t].hits \in Nat
      BY <1>n, <2>1, <3>1, ListingsCounted
    <3>4. CASE table' = Accumulated(d)
      <4>1. Accumulated(d)[t] = [table[t] EXCEPT !.hits = @ + Cardinality(Listings(d, t))]
        BY <3>1 DEF Accumulated
      <4>2. table[t] \in [hits : Nat, manual : BOOLEAN]
        BY <1>r, <3>1, RowShape
      <4>3. table'[t].hits = table[t].hits + Cardinality(Listings(d, t))
        BY <3>4, <4>1, <4>2
      <4> QED
        BY <2>3, <3>1, <3>2, <3>3, <4>3
    <3>5. CASE table' = table /\ counted' = counted \ OfDate(d)
      <4>1. Listings(d, t) = {}
        BY <2>5, <3>1, <3>5 DEF OfDate
      <4>2. Cardinality(Owed(client', t)) = Cardinality(Owed(client, t))
        <5>1. Cardinality(Listings(d, t)) = 0
          BY <4>1, FS_EmptySet
        <5> QED
          BY <2>3, <3>1, <5>1
      <4> QED
        BY <3>2, <3>5, <4>2
    <3> QED
      BY <2>4, <3>4, <3>5
  <2>6. HitsMatchRaw'
    BY <2>5, HitsOwed DEF HitsMatchRaw, Owed
  <2>7. WholeDates'
    BY <2>1 DEF HInv, WholeDates
  <2>8. (\A t \in Topics : IsFiniteSet(Owed(client, t)))'
    BY <2>3 DEF Owed
  <2> QED
    BY <2>6, <2>7, <2>8
<1>7. ASSUME NEW e \in Clients, ReplaceHits(e)
      PROVE  Rest'
  <2> DEFINE rows == client[e].rows
  <2>1. /\ client[e].pc = "replace" /\ raw' = raw /\ table' = Replaced(rows)
        /\ client' = [client EXCEPT ![e].pc = "refresh"] /\ rows \in Rows
    BY <1>7, <1>r DEF ReplaceHits, TableBecomes, Locals
  <2>2. \A c \in Clients : /\ client'[c].pc = "accumulate" <=> client[c].pc = "accumulate"
                           /\ client[c].pc = "accumulate" => client'[c].from = client[c].from
    BY <1>r, <2>1 DEF Locals
  <2>3. \A t \in Topics : Owed(client', t) = Owed(client, t)
    BY <2>2, OwedAlike
  <2>4. ASSUME NEW t \in counted'
        PROVE  HitsOf(t, 1, LastDate)' = table'[t].hits + Cardinality(Owed(client', t))
    <3>1. \/ t \in counted /\ rows[t].hits = 0
          \/ /\ t \in Related(rows) /\ rows[t].hits = HitsOf(t, 1, LastDate)
             /\ \A c \in Clients : client[c].pc # "accumulate"
      BY <1>7, <2>4 DEF ReplaceHits
    <3>2. HitsOf(t, 1, LastDate)' = HitsOf(t, 1, LastDate)
      BY <2>1 DEF HitsOf, Aggregated
    <3>3. CASE t \in counted /\ rows[t].hits = 0
      <4>1. table'[t] = table[t]
        BY <1>r, <2>1, <3>3 DEF Replaced
      <4> QED
        BY <1>h, <1>r, <2>3, <3>2, <3>3, <4>1
    <3>4. CASE /\ t \in Related(rows) /\ rows[t].hits = HitsOf(t, 1, LastDate)
               /\ \A c \in Clients : client[c].pc # "accumulate"
      <4>1. t \in Topics /\ rows[t].hits \in Nat \ {0}
        BY <2>1, <3>4 DEF Related, Rows
      <4>2. table'[t] = rows[t]
        BY <2>1, <4>1 DEF Replaced
      <4>3. Owed(client, t) = {}
        BY <3>4 DEF Owed
      <4>4. Cardinality(Owed(client', t)) = 0
        BY <2>3, <4>1, <4>3, FS_EmptySet
      <4> QED
        BY <3>2, <3>4, <4>1, <4>2, <4>4
    <3> QED
      BY <3>1, <3>3, <3>4
  <2>5. HitsMatchRaw'
    BY <2>4, HitsOwed DEF HitsMatchRaw, Owed
  <2>6. WholeDates'
    BY <2>1 DEF HInv, WholeDates
  <2>7. (\A t \in Topics : IsFiniteSet(Owed(client, t)))'
    BY <2>3 DEF HInv, Owed
  <2> QED
    BY <2>5, <2>6, <2>7
<1>8. ASSUME NEW e \in Clients,
             \/ RefreshRead(e) \/ RefreshFill(e) \/ GetCached(e) \/ GetStored(e)
             \/ FillCache(e) \/ Classify(e) \/ FileSnapshot(e) \/ Answer(e) \/ CallFails(e)
      PROVE  Rest'
  <2>1. /\ UNCHANGED <<table, raw, counted>>
        /\ \A c \in Clients \ {e} : client'[c] = client[c]
        /\ client[e].pc # "accumulate"
    BY <1>8, <1>r DEF RefreshRead, RefreshFill, GetCached, Found, GetStored, FillCache,
         AfterFill, Classify,
       FileSnapshot, Answer, CallFails
  <2>2. client'[e].pc # "accumulate"
    <3>1. CASE RefreshRead(e) \/ RefreshFill(e)
      BY <1>r, <3>1 DEF RefreshRead, RefreshFill, AfterRefresh, Locals
    <3>2. CASE GetCached(e) \/ GetStored(e) \/ FillCache(e)
      BY <1>r, <3>2 DEF GetCached, Found, GetStored, FillCache, AfterFill, Locals
    <3>3. CASE Classify(e) \/ FileSnapshot(e)
      BY <1>r, <3>3 DEF Classify, Found, FileSnapshot, Locals
    <3>4. CASE Answer(e) \/ CallFails(e)
      BY <1>i, <1>r, <3>4 DEF Answer, CallFails
    <3> QED
      BY <1>8, <3>1, <3>2, <3>3, <3>4
  <2> QED
    BY <2>1, <2>2, HitsStay
<1>9. ASSUME CacheExpires \/ UNCHANGED vars PROVE Rest'
  <2>1. UNCHANGED <<table, raw, counted, client>>
    BY <1>9 DEF CacheExpires, vars
  <2> QED
    BY <2>1, HitsStay
<1>10. ASSUME Restart PROVE Rest'
  <2>1. /\ raw' = raw /\ table' = table
        /\ \A c \in Clients : client'[c].pc = "idle"
        /\ counted' = counted \ UNION {OfDate(client[c].from) :
                        c \in {c \in Clients : client[c].pc = "accumulate"}}
    BY <1>10, <1>i DEF Restart
  <2>2. \A t \in Topics : Owed(client', t) = {}
    BY <2>1 DEF Owed
  <2>3. ASSUME NEW t \in counted'
        PROVE  HitsOf(t, 1, LastDate)' = table'[t].hits + Cardinality(Owed(client', t))
    <3>1. t \in counted /\ t \in Topics
      BY <1>r, <2>1, <2>3
    <3>2. \A c \in Clients : client[c].pc = "accumulate" => Listings(client[c].from, t) = {}
      BY <2>1, <2>3, <3>1 DEF OfDate
    <3>3. Owed(client, t) = {}
      BY <3>2 DEF Owed
    <3> QED
      BY <1>h, <2>1, <2>2, <3>1, <3>3 DEF HitsOf, Aggregated
  <2>4. HitsMatchRaw'
    BY <2>3, HitsOwed DEF HitsMatchRaw, Owed
  <2>5. WholeDates'
    BY <2>1 DEF HInv, WholeDates
  <2>6. (\A t \in Topics : IsFiniteSet(Owed(client, t)))'
    BY <2>2, FS_EmptySet DEF Owed
  <2> QED
    BY <2>4, <2>5, <2>6
<1> HIDE DEF Rest
<1>11. Rest'
  BY <1>1, <1>2, <1>3, <1>4, <1>5, <1>6, <1>7, <1>8, <1>9, <1>10 DEF Next
<1> QED
  BY <1>0, <1>11 DEF HInv, Rest

\* For any number of crawls, rebuilds, editors and failures, the hits of a topic none of
\* the disturbing ones has touched are those of the raw data, but for what crawls under
\* way have yet to add.
THEOREM HitsAlwaysMatch == Spec => []HitsMatchRaw
<1>1. HInv => HitsMatchRaw
  BY DEF HInv
<1> QED
  BY <1>1, HInvInit, HInvNext, PTL DEF Spec

===============================================================================
