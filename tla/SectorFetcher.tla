---------------------------- MODULE SectorFetcher ----------------------------
(***************************************************************************)
(* The changes of the sectors a run of the LLM is told of:                 *)
(* FetchSectorChanges of internal/service/classify/sector_fetcher.go.      *)
(*                                                                         *)
(* Runs that overlap find the cache old and fetch the pages of the list at *)
(* the same time, outside of the lock; whoever comes second with the lock  *)
(* gives its own pages up.  A map of changes is known by the time its      *)
(* first page was asked for.                                               *)
(***************************************************************************)
EXTENDS Integers

CONSTANTS
  Askers,       \* the goroutines that run the classification
  SectorTTL,    \* sectorCacheTTL, 600 seconds, where a comment says 60
  PageTimeout,  \* of the http client, 10 seconds
  PageCount,    \* sectorPageCount, 5
  MaxTime       \* bound: when time ends

\* A fetch cannot take as long as the cache lives.
ASSUME SectorAssumption ==
  /\ SectorTTL \in Nat /\ PageTimeout \in Nat /\ MaxTime \in Nat
  /\ PageCount \in Nat \ {0}
  /\ PageCount * PageTimeout < SectorTTL

VARIABLES
  time,
  sectors,      \* the cached changes: since when they are cached, and asked for
  fetches,      \* of each asker, see NoFetch
  told          \* the newest changes anybody has been given

sectorVars == <<time, sectors, fetches, told>>

\* The zero time is longer ago than the cache lives.
Never == 0 - SectorTTL

\* page: the page that is asked for, since when; asked: when the first one was; floor:
\* what others had been given as the call began; got: what it was given.
NoFetch ==
  [at |-> "idle", page |-> 0, since |-> 0, asked |-> 0, floor |-> Never, got |-> Never]

SectorInit ==
  /\ time = 0
  /\ sectors = [cached |-> Never, asked |-> Never]
  /\ fetches = [a \in Askers |-> NoFetch]
  /\ told = Never

-------------------------------------------------------------------------------
SectorsFresh == time - sectors.cached < SectorTTL

Returns(a, floor, changes) ==
  /\ fetches' = [fetches EXCEPT ![a] =
                   [at |-> "told", page |-> 0, since |-> 0, asked |-> 0,
                    floor |-> floor, got |-> changes]]
  /\ told' = IF changes > told THEN changes ELSE told

\* The first look, with the read lock.
FetchSectorChanges(a) ==
  /\ fetches[a].at \in {"idle", "told"}
  /\ IF SectorsFresh
     THEN Returns(a, told, sectors.asked)
     ELSE /\ fetches' = [fetches EXCEPT ![a] =
                           [at |-> "page", page |-> 1, since |-> time, asked |-> time,
                            floor |-> told, got |-> Never]]
          /\ UNCHANGED told
  /\ UNCHANGED <<time, sectors>>

\* A page that is full is followed by the next one, up to the last.
FetchPage(a) ==
  /\ fetches[a].at = "page"
  /\ \/ /\ fetches[a].page < PageCount
        /\ fetches' = [fetches EXCEPT ![a].page = @ + 1, ![a].since = time]
     \/ fetches' = [fetches EXCEPT ![a].at = "store"]
  /\ UNCHANGED <<time, sectors, told>>

\* A page that fails, or takes too long, fails the call: the run goes on without changes.
PageFails(a) ==
  /\ fetches[a].at = "page"
  /\ fetches' = [fetches EXCEPT ![a] = NoFetch]
  /\ UNCHANGED <<time, sectors, told>>

\* Mutant: whoever comes last stores its changes.
Bug_StoreSectors(a) ==
  /\ fetches[a].at = "store"
  /\ sectors' = [cached |-> time, asked |-> fetches[a].asked]
  /\ Returns(a, fetches[a].floor, fetches[a].asked)
  /\ UNCHANGED time

\* The second look, with the lock.
StoreSectors(a) ==
  /\ fetches[a].at = "store"
  /\ IF SectorsFresh
     THEN /\ Returns(a, fetches[a].floor, sectors.asked)
          /\ UNCHANGED sectors
     ELSE /\ sectors' = [cached |-> time, asked |-> fetches[a].asked]
          /\ Returns(a, fetches[a].floor, fetches[a].asked)
  /\ UNCHANGED time

\* Time passes while pages are awaited, none longer than the client's timeout; what
\* follows a page takes no time.
Passes ==
  /\ time < MaxTime
  /\ \A a \in Askers :
       /\ fetches[a].at # "store"
       /\ fetches[a].at = "page" => time - fetches[a].since < PageTimeout
  /\ time' = time + 1
  /\ UNCHANGED <<sectors, fetches, told>>

\* The cache is lost with the process, and with it whoever asks.
FetcherRestarts ==
  /\ sectors' = [cached |-> Never, asked |-> Never]
  /\ fetches' = [a \in Askers |-> NoFetch]
  /\ UNCHANGED <<time, told>>

SectorNext ==
  \/ \E a \in Askers :
       \/ FetchSectorChanges(a)
       \/ FetchPage(a)
       \/ PageFails(a)
       \/ StoreSectors(a)
  \/ Passes
  \/ FetcherRestarts

SectorSpec == SectorInit /\ [][SectorNext]_sectorVars

-------------------------------------------------------------------------------
\* Changes never go back in time: whoever asks after somebody has been given changes is
\* given none that were asked for earlier, whichever fetches overlap.
ChangesNeverGoBack ==
  \A a \in Askers : fetches[a].at = "told" => fetches[a].got >= fetches[a].floor

\* Nobody is given changes that are older than the cache lives and a fetch takes.
ChangesAreRecent ==
  [][\A a \in Askers :
       (fetches'[a].at = "told" /\ fetches'[a] # fetches[a]) =>
         time - fetches'[a].got < SectorTTL + PageCount * PageTimeout]_sectorVars
===============================================================================
