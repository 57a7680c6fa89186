------------------------------- MODULE ViewProofs -------------------------------
(***************************************************************************)
(* Proofs about PoolView, for any stocks, tickers, days, moves and faults, *)
(* operators included: what a view joins from pictures taken at different  *)
(* moments.                                                                *)
(***************************************************************************)
EXTENDS PoolView, TLAPS

\* The fields of the record.
Shaped ==
  view = [pc |-> view.pc, date |-> view.date, limitUp |-> view.limitUp,
          above5 |-> view.above5, settled |-> view.settled, torn |-> view.torn]

\* Between the reads of the two pools, what has been read of the first is there still,
\* and only there, or known to be torn; after them, what is in both is known to be.
TornKnown ==
  /\ view.pc = "pools" => view.limitUp \ view.torn \subseteq limitUp[view.date] \ above5[view.date]
  /\ view.pc \in {"classification", "join", "answered"} =>
       view.limitUp \cap view.above5 \subseteq view.torn

\* What is settled has been read as it is.
SettledRead ==
  /\ view.pc # "idle" => view.date = today
  /\ view.pc \in {"pools", "classification", "join"} =>
       \A s \in view.settled : s \in view.limitUp <=> s \in limitUp[today]
  /\ view.pc \in {"classification", "join"} =>
       \A s \in view.settled : s \in view.above5 <=> s \in above5[today]
  /\ SettledShown

ViewInv == Shaped /\ TornKnown /\ SettledRead

LEMMA IdleView == NoView.pc = "idle"
BY DEF NoView

LEMMA ViewInitHolds == ViewInit => ViewInv
BY DEF ViewInit, ViewInv, Shaped, TornKnown, SettledRead, SettledShown, Quoted, Answered,
       NoView

\* The end of a view.
LEMMA IdleHolds == ASSUME view' = NoView PROVE ViewInv'
BY DEF ViewInv, Shaped, TornKnown, SettledRead, SettledShown, Quoted, Answered, NoView

LEMMA MonitorStepHolds == ViewInv /\ MonitorStep => ViewInv'
<1> SUFFICES ASSUME ViewInv, MonitorStep PROVE ViewInv'
  OBVIOUS
<1> DEFINE d == view.date
           moved == SymDiff(limitUp[d], limitUp'[d]) \cup SymDiff(above5[d], above5'[d])
           torn == view.torn \cup (limitUp[d] \ limitUp'[d]) \cup (limitUp'[d] \cap above5'[d])
<1>1. CASE view = NoView \/ FreshProcess' \/ today' # today
  BY <1>1, IdleHolds DEF MonitorStep
<1>2. CASE view # NoView /\ today' = today
           /\ view' = [view EXCEPT !.settled = @ \ moved, !.torn = torn]
  <2>1. /\ Shaped' /\ view'.pc = view.pc /\ view'.date = d
        /\ view'.limitUp = view.limitUp /\ view'.above5 = view.above5
        /\ view'.settled = view.settled \ moved /\ view'.torn = torn
    BY <1>2 DEF ViewInv, Shaped
  <2>2. TornKnown'
    BY <2>1 DEF ViewInv, TornKnown
  <2>3. view.pc # "answered"
    BY DEF MonitorStep
  <2>4. CASE view.pc = "idle"
    BY <1>2, <2>1, <2>2, <2>4 DEF ViewInv, SettledRead, SettledShown, Quoted, Answered
  <2>5. CASE view.pc # "idle"
    <3>1. d = today
      BY <2>5 DEF ViewInv, SettledRead
    <3>2. SettledRead'
      BY <1>2, <2>1, <2>3, <3>1
      DEF ViewInv, SettledRead, SettledShown, Quoted, Answered, SymDiff
    <3> QED
      BY <2>1, <2>2, <3>2 DEF ViewInv
  <2> QED
    BY <2>4, <2>5
<1> QED
  BY <1>1, <1>2 DEF MonitorStep

LEMMA ViewStepHolds == ViewInv /\ ViewStep => ViewInv'
<1> SUFFICES ASSUME ViewInv, ViewStep PROVE ViewInv'
  OBVIOUS
<1>1. UNCHANGED <<today, limitUp, above5, quoteCache, classif>>
  BY DEF ViewStep, vars, envVars, poolVars, classVars
<1>2. CASE ViewPools
  <2>1. CASE view.pc = "idle"
    <3>1. view' = [NoView EXCEPT !.pc = "pools", !.date = today, !.limitUp = limitUp[today],
                               !.settled = Stocks,
                               !.torn = limitUp[today] \cap above5[today]]
      BY <1>2, <2>1 DEF ViewPools, ViewLimitUp, ViewAbove5
    <3>2. /\ Shaped' /\ view'.pc = "pools" /\ view'.date = today
          /\ view'.limitUp = limitUp[today] /\ view'.torn = limitUp[today] \cap above5[today]
      BY <3>1 DEF Shaped, NoView
    <3> QED
      BY <1>1, <3>2 DEF ViewInv, TornKnown, SettledRead, SettledShown, Quoted, Answered
  <2>2. CASE view.pc = "pools"
    <3>1. view' = [view EXCEPT !.pc = "classification", !.above5 = above5[view.date]]
      BY <1>2, <2>2 DEF ViewPools, ViewLimitUp, ViewAbove5
    <3>2. /\ Shaped' /\ view'.pc = "classification" /\ view'.date = view.date
          /\ view'.limitUp = view.limitUp /\ view'.above5 = above5[view.date]
          /\ view'.torn = view.torn /\ view'.settled = view.settled
      BY <3>1 DEF ViewInv, Shaped
    <3> QED
      BY <1>1, <2>2, <3>2
      DEF ViewInv, TornKnown, SettledRead, SettledShown, Quoted, Answered
  <2> QED
    BY <1>2, <2>1, <2>2 DEF ViewPools, ViewLimitUp, ViewAbove5
<1>3. CASE ViewClassification
  <2>1. CASE view' = [view EXCEPT !.pc = "join"]
    <3>1. /\ Shaped' /\ view'.pc = "join" /\ view'.date = view.date
          /\ view'.limitUp = view.limitUp /\ view'.above5 = view.above5
          /\ view'.torn = view.torn /\ view'.settled = view.settled
      BY <2>1 DEF ViewInv, Shaped
    <3> QED
      BY <1>1, <1>3, <3>1
      DEF ViewInv, ViewClassification, TornKnown, SettledRead, SettledShown, Quoted,
          Answered
  <2> QED
    BY <1>3, <2>1, IdleHolds DEF ViewClassification
<1>4. CASE ViewJoin
  <2> DEFINE shown == Members \cap Monitored \cap Quoted
  <2>1. CASE view' = [view EXCEPT !.pc = "answered", !.limitUp = @ \cap shown,
                                !.above5 = @ \cap shown]
    <3>1. /\ Shaped' /\ view'.pc = "answered" /\ view'.date = view.date
          /\ view'.limitUp = view.limitUp \cap shown /\ view'.above5 = view.above5 \cap shown
          /\ view'.torn = view.torn /\ view'.settled = view.settled
      BY <2>1 DEF ViewInv, Shaped
    <3>2. view.pc = "join"
      BY <1>4 DEF ViewJoin
    <3>3. TornKnown'
      BY <3>1, <3>2 DEF ViewInv, TornKnown
    <3>4. SettledShown'
      BY <1>1, <3>1, <3>2 DEF ViewInv, SettledRead, SettledShown, Quoted, Answered, Members
    <3>5. SettledRead'
      BY <1>1, <3>1, <3>2, <3>4 DEF ViewInv, SettledRead
    <3> QED
      BY <3>1, <3>3, <3>5 DEF ViewInv
  <2> QED
    BY <1>4, <2>1, IdleHolds DEF ViewJoin
<1>5. CASE ViewFirstTimes
  BY <1>5, IdleHolds DEF ViewFirstTimes
<1> QED
  BY <1>2, <1>3, <1>4, <1>5 DEF ViewStep

LEMMA ViewNextHolds == ViewInv /\ [ViewNext]_viewVars => ViewInv'
<1>1. ViewInv /\ UNCHANGED viewVars => ViewInv'
  BY DEF ViewInv, Shaped, TornKnown, SettledRead, SettledShown, Quoted, Answered, viewVars,
         vars, envVars, poolVars
<1> QED
  BY <1>1, MonitorStepHolds, ViewStepHolds DEF ViewNext

\* A stock is in both lists of an answer of GET /pool/reclassify only if its limit has
\* opened in between, or if both pools held it: ShownTwiceOnlyIfTorn, of the order in
\* which reclassifyToday reads the pools.
THEOREM TwiceOnlyIfTorn == ViewSpec => []ShownTwiceOnlyIfTorn
<1>1. ViewInv => ShownTwiceOnlyIfTorn
  BY DEF ViewInv, TornKnown, ShownTwiceOnlyIfTorn, Answered
<1> QED
  BY <1>1, ViewInitHolds, ViewNextHolds, PTL DEF ViewSpec

\* What the ticks leave where it is during a view is shown there and nowhere else:
\* SettledShown, of the join of pools, rows and quotes in reclassifyToday.
THEOREM SettledIsShown == ViewSpec => []SettledShown
<1>1. ViewInv => SettledShown
  BY DEF ViewInv, SettledRead
<1> QED
  BY <1>1, ViewInitHolds, ViewNextHolds, PTL DEF ViewSpec
=============================================================================
