------------------------------- MODULE PoolView -------------------------------
(***************************************************************************)
(* GET /pool/reclassify for today: reclassifyToday of                      *)
(* internal/service/pool/pool_service.go and the handler around it, beside *)
(* the monitor of PoolMonitor.                                             *)
(*                                                                         *)
(* A view reads the two pools, the classification, the quotes and the      *)
(* times of the first seals from the cache, each under the lock and all of *)
(* them with ticks, resets and restarts in between: it joins five pictures *)
(* taken at five moments.                                                  *)
(***************************************************************************)
EXTENDS PoolMonitor

VARIABLE
  view  \* the local variables of one request

viewVars == <<vars, view>>

\* history: the stocks whose pools have not changed since the view began (settled);
\* those that have left the limit-up pool since, or were in both pools (torn).
NoView ==
  [pc |-> "idle", date |-> 0, limitUp |-> {}, above5 |-> {},
   settled |-> {}, torn |-> {}]

ViewInit == Init /\ view = NoView

-------------------------------------------------------------------------------
\* Mutant: the stocks with a gain are read first.
Bug_ViewPools ==
  \/ /\ view.pc = "idle"
     /\ view' = [NoView EXCEPT !.pc = "pools", !.date = today, !.above5 = above5[today],
                               !.settled = Stocks,
                               !.torn = limitUp[today] \cap above5[today]]
  \/ /\ view.pc = "pools"
     /\ view' = [view EXCEPT !.pc = "classification", !.limitUp = limitUp[view.date]]

ViewLimitUp ==
  /\ view.pc = "idle"
  /\ view' = [NoView EXCEPT !.pc = "pools", !.date = today, !.limitUp = limitUp[today],
                            !.settled = Stocks,
                            !.torn = limitUp[today] \cap above5[today]]

ViewAbove5 ==
  /\ view.pc = "pools"
  /\ view' = [view EXCEPT !.pc = "classification", !.above5 = above5[view.date]]

\* GetLimitUpMembers, and then GetAbove5Members.
ViewPools == ViewLimitUp \/ ViewAbove5

Members == view.limitUp \cup view.above5

\* Without a classification, or with two empty pools, the data is not ready.
Ready == Members # {} /\ classif[view.date] # [s \in Stocks |-> "none"]

ViewClassification ==
  /\ view.pc = "classification"
  /\ view' = IF Ready THEN [view EXCEPT !.pc = "join"] ELSE NoView

\* GetBatch of the cached quotes.
Quoted == {s \in Stocks : quoteCache[s] # "unseen"}

\* Mutant: the second loop goes over the members of both pools.
Bug_ViewJoin ==
  /\ view.pc = "join"
  /\ LET shown == Members \cap Monitored \cap Quoted
     IN  \/ view' = [view EXCEPT !.pc = "answered", !.limitUp = @ \cap shown,
                                !.above5 = shown]
         \/ view' = NoView

\* The items of each pool: its members that have a row in stock_basic and a quote.
\* If the rows cannot be loaded, an error the code drops, there are no items.
ViewJoin ==
  /\ view.pc = "join"
  /\ LET shown == Members \cap Monitored \cap Quoted
     IN  \/ view' = [view EXCEPT !.pc = "answered", !.limitUp = @ \cap shown,
                                !.above5 = @ \cap shown]
         \/ view' = NoView

\* GetTodayFirstLimitTimes, for the items of the limit-up pool, and the answer.
ViewFirstTimes == view.pc = "answered" /\ view' = NoView

ViewStep ==
  /\ ViewPools \/ ViewClassification \/ ViewJoin \/ ViewFirstTimes
  /\ UNCHANGED vars

-------------------------------------------------------------------------------
SymDiff(a, b) == (a \ b) \cup (b \ a)

\* A step of the monitor while a view is under way.  A restart ends the view; a view
\* that is not done by midnight is left out.  What is in an answer is settled when
\* it is put together: what happens during the last read is left out as well.
MonitorStep ==
  /\ Next
  /\ view.pc # "answered"
  /\ view' =
       IF view = NoView \/ FreshProcess' \/ today' # today THEN NoView
       ELSE LET d == view.date
                moved == SymDiff(limitUp[d], limitUp'[d]) \cup SymDiff(above5[d], above5'[d])
            IN  [view EXCEPT !.settled = @ \ moved,
                             !.torn = @ \cup (limitUp[d] \ limitUp'[d])
                                        \cup (limitUp'[d] \cap above5'[d])]

ViewNext == MonitorStep \/ ViewStep

ViewSpec == ViewInit /\ [][ViewNext]_viewVars

-------------------------------------------------------------------------------
Answered == view.pc = "answered"

\* A stock is shown twice, sealed and not sealed, only if its limit has opened
\* while the view was being put together, or if both pools really held it, which
\* takes a reset of the states in trading hours: reading the limit-up pool first
\* makes a stock that seals in between disappear, and not show up twice.
ShownTwiceOnlyIfTorn ==
  Answered => view.limitUp \cap view.above5 \subseteq view.torn

\* A stock the ticks left where it was during the view is shown there, and nowhere
\* else, whatever happened to the others.
SettledShown ==
  Answered =>
    \A s \in view.settled \cap Monitored \cap Quoted :
      /\ s \in view.limitUp <=> s \in limitUp[today]
      /\ s \in view.above5 <=> s \in above5[today]
===============================================================================
