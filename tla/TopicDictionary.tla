--------------------------- MODULE TopicDictionary ---------------------------
(***************************************************************************)
(* The dictionary of raw topic names: rows that editors create, change and *)
(* delete by /topic-dictionary, and two cached copies, one of which the    *)
(* list of the editors is served from, and the other one the crawls read.  *)
(* dal/repo/topic_dictionary_repo.go: both are filled in two steps and     *)
(* cleared in two steps, with no lock around them.                         *)
(*                                                                         *)
(* The rows are the number of edits they are the result of.                *)
(***************************************************************************)
EXTENDS Integers

CONSTANTS
  Editors,   \* concurrent requests that change the rows
  Lookups,   \* concurrent lists and crawls
  MaxEdited, \* bound on edits
  MaxLosses  \* bound on expiries and restarts

ASSUME DictionaryAssumption == MaxEdited \in Nat /\ MaxLosses \in Nat

VARIABLES
  dictionary, \* topic_dictionary
  copies,     \* [map, all]: the two cached copies
  editor,     \* where each request is
  lookup,     \* [at, copy, late] of each list or crawl
  losses,
  behind      \* [map, all], history: this copy was read before an edit was through,
              \* and cached after

dictVars == <<dictionary, copies, editor, lookup, losses, behind>>

NoCopy == -1
NoCopies == [map |-> NoCopy, all |-> NoCopy]
NoneBehind == [map |-> FALSE, all |-> FALSE]
NoLookup == [at |-> "idle", copy |-> NoCopy, late |-> FALSE]

DictInit ==
  /\ dictionary = 0
  /\ copies = NoCopies
  /\ editor = [e \in Editors |-> "idle"]
  /\ lookup = [l \in Lookups |-> NoLookup]
  /\ losses = 0
  /\ behind = NoneBehind

\* Create, Update or Delete of a row.
Edited == dictionary + 1

\* A request to do so; one that fails changes nothing.
Save(e) ==
  /\ editor[e] = "idle"
  /\ dictionary < MaxEdited
  /\ dictionary' = Edited
  /\ editor' = [editor EXCEPT ![e] = "clearAll"]
  /\ lookup' = [l \in Lookups |->
       [lookup[l] EXCEPT !.late = @ \/ lookup[l].at \in {"setMap", "setAll"}]]
  /\ UNCHANGED <<copies, losses, behind>>

\* invalidateCaches, in this order.
ClearAll(e) ==
  /\ editor[e] = "clearAll"
  /\ copies' = [copies EXCEPT !.all = NoCopy]
  /\ behind' = [behind EXCEPT !.all = FALSE]
  /\ editor' = [editor EXCEPT ![e] = "clearMap"]
  /\ UNCHANGED <<dictionary, lookup, losses>>

\* Mutant: the copy of the list is cleared once more.
Bug_WithoutMap == [copies EXCEPT !.all = NoCopy]

\* ClearAllMap
WithoutMap == [copies EXCEPT !.map = NoCopy]

ClearAllMap(e) ==
  /\ editor[e] = "clearMap"
  /\ copies' = WithoutMap
  /\ behind' = [behind EXCEPT !.map = FALSE]
  /\ editor' = [editor EXCEPT ![e] = "idle"]
  /\ UNCHANGED <<dictionary, lookup, losses>>

\* A look at one of the copies.  One that finds it is done.
Miss(l, key) ==
  /\ lookup[l].at = "idle"
  /\ copies[key] = NoCopy
  /\ lookup' = [lookup EXCEPT ![l] = [NoLookup EXCEPT !.at = "read"]]
  /\ UNCHANGED <<dictionary, copies, editor, losses, behind>>

\* GetAll of the list, GetAllMap of a crawl.
List(l) == Miss(l, "all")
NamesOfCrawl(l) == Miss(l, "map")

ReadDictionary(l) ==
  /\ lookup[l].at = "read"
  /\ lookup' = [lookup EXCEPT ![l] = [at |-> "setMap", copy |-> dictionary, late |-> FALSE]]
  /\ UNCHANGED <<dictionary, copies, editor, losses, behind>>

\* SetAllMap, also when the list was asked for: first one key, then the other.
SetAllMap(l) ==
  \/ /\ lookup[l].at = "setMap"
     /\ copies' = [copies EXCEPT !.map = lookup[l].copy]
     /\ behind' = [behind EXCEPT !.map = lookup[l].late]
     /\ lookup' = [lookup EXCEPT ![l].at = "setAll"]
     /\ UNCHANGED <<dictionary, editor, losses>>
  \/ /\ lookup[l].at = "setAll"
     /\ copies' = [copies EXCEPT !.all = lookup[l].copy]
     /\ behind' = [behind EXCEPT !.all = lookup[l].late]
     /\ lookup' = [lookup EXCEPT ![l] = NoLookup]
     /\ UNCHANGED <<dictionary, editor, losses>>

\* The copies expire, and with them, if the process ends, the requests.
Lose ==
  /\ losses < MaxLosses
  /\ losses' = losses + 1
  /\ copies' = NoCopies
  /\ behind' = NoneBehind
  /\ \/ UNCHANGED <<editor, lookup>>
     \/ /\ editor' = [e \in Editors |-> "idle"]
        /\ lookup' = [l \in Lookups |-> NoLookup]
  /\ UNCHANGED dictionary

DictNext ==
  \/ \E e \in Editors : Save(e) \/ ClearAll(e) \/ ClearAllMap(e)
  \/ \E l \in Lookups :
       NamesOfCrawl(l) \/ List(l) \/ ReadDictionary(l) \/ SetAllMap(l)
  \/ Lose

DictSpec == DictInit /\ [][DictNext]_dictVars

-------------------------------------------------------------------------------
\* What crawls normalise names by and what editors are shown is the table, and so the
\* same, unless an edit is not through yet, or a copy was read before one was and
\* cached after.  An edit in the middle of a fill may spoil one copy and not the other.
DictionaryCurrent ==
  /\ \/ copies.map \in {NoCopy, dictionary}
     \/ behind.map
     \/ \E e \in Editors : editor[e] \in {"clearAll", "clearMap"}
  /\ \/ copies.all \in {NoCopy, dictionary}
     \/ behind.all
     \/ \E e \in Editors : editor[e] = "clearAll"
===============================================================================
