------------------------ MODULE MonitorLifecycleProofs ------------------------
(***************************************************************************)
(* Proofs about MonitorLifecycle for any number of requests: with patient  *)
(* operators there is at most one loop, the running flag tells the truth,  *)
(* and the service can always stop the loop there is.                      *)
(***************************************************************************)
EXTENDS MonitorLifecycle, TLAPS

\* No start is on its way in when a loop is on its way out or a stop is being
\* served: a start that found the flag down then would make a second loop.
NoStartWhileLeaving ==
  Patient =>
    \A d \in Starters : loop[d] = "spawned" =>
      /\ ~running => \A c \in Starters : ~Live(c)
      /\ \A r \in StopRequests : answer[r] # "stopping"

LInv == TypeOK /\ OneLoop /\ FlagIsTrue /\ LoopsCanBeStopped /\ NoStartWhileLeaving

LEMMA LInvInit == Init => LInv
<1> SUFFICES ASSUME Init PROVE LInv
  OBVIOUS
<1>1. TypeOK
  BY DEF Init, TypeOK, Starters, LoopStates, Answers
<1>2. \A c \in Starters : ~Live(c)
  BY DEF Init, Live
<1>3. OneLoop /\ FlagIsTrue /\ LoopsCanBeStopped
  BY <1>2 DEF Init, OneLoop, FlagIsTrue, LoopsCanBeStopped
<1>4. NoStartWhileLeaving
  BY <1>2 DEF Init, NoStartWhileLeaving
<1> QED
  BY <1>1, <1>3, <1>4 DEF LInv

LEMMA TypeNext == TypeOK /\ [Next]_vars => TypeOK'
<1> SUFFICES ASSUME TypeOK, [Next]_vars PROVE TypeOK'
  OBVIOUS
<1> USE DEF TypeOK, LoopStates, Answers, Starters
<1>1. ASSUME NEW r \in StartRequests, HandleStart(r) \/ RequestEnds(r)
      PROVE  TypeOK'
  BY <1>1 DEF HandleStart, RequestEnds
<1>2. ASSUME NEW r \in StopRequests, HandleStop(r) \/ Stop(r)
      PROVE  TypeOK'
  BY <1>2 DEF HandleStop, Stop
<1>3. ASSUME NEW c \in Starters,
             \/ StartReturns(c) \/ StartEnters(c)
             \/ BeginTick(c) \/ EndTick(c) \/ LoopEnds(c) \/ LLMEnds(c)
      PROVE  TypeOK'
  BY <1>3 DEF StartReturns, StartEnters, BeginTick, EndTick, LoopEnds, LLMEnds
<1>4. CASE UNCHANGED vars
  BY <1>4 DEF vars
<1> QED
  BY <1>1, <1>2, <1>3, <1>4 DEF Next

LEMMA LInvNext == LInv /\ [Next]_vars => LInv'
<1> SUFFICES ASSUME LInv, [Next]_vars, Patient PROVE LInv'
  <2> SUFFICES ASSUME LInv, [Next]_vars, ~Patient PROVE LInv'
    OBVIOUS
  <2> QED
    BY TypeNext DEF LInv, OneLoop, FlagIsTrue, LoopsCanBeStopped, NoStartWhileLeaving
<1> USE DEF LInv
<1>0. TypeOK'
  BY TypeNext
<1> DEFINE Rest == OneLoop /\ FlagIsTrue /\ LoopsCanBeStopped /\ NoStartWhileLeaving
<1>1. ASSUME NEW r \in StartRequests, HandleStart(r)
      PROVE  Rest'
  <2>1. /\ \A c \in Starters : ~Leaving(c)
        /\ \A q \in StopRequests : answer[q] # "stopping"
    BY <1>1 DEF HandleStart, MayStart
  <2>2. /\ UNCHANGED <<running, cancel, ctxDone>>
        /\ running => loop' = loop
        /\ \A c \in Starters : loop'[c] = loop[c] \/ (c = r /\ loop'[c] = "spawned")
        /\ \A q \in StopRequests : answer'[q] = answer[q]
    BY <1>1, LifecycleAssumption DEF HandleStart, TypeOK
  <2>3. ~running => \A c \in Starters : ~Live(c)
    BY <2>1 DEF FlagIsTrue, Leaving
  <2>4. \A c \in Starters : Live(c)' => Live(c)
    BY <2>2 DEF Live
  <2>5. running => \A c \in Starters : Live(c)' <=> Live(c)
    BY <2>2 DEF Live
  <2> QED
    BY <2>1, <2>2, <2>3, <2>4, <2>5
       DEF OneLoop, FlagIsTrue, LoopsCanBeStopped, NoStartWhileLeaving
<1>2. ASSUME NEW r \in StartRequests, RequestEnds(r)
      PROVE  Rest'
  BY <1>2 DEF RequestEnds, OneLoop, FlagIsTrue, LoopsCanBeStopped, NoStartWhileLeaving, Live
<1>3. ASSUME NEW r \in StopRequests, HandleStop(r)
      PROVE  Rest'
  <2>1. \A c \in Starters : loop[c] # "spawned"
    BY <1>3 DEF HandleStop, MayStop
  <2> QED
    BY <1>3, <2>1
       DEF HandleStop, OneLoop, FlagIsTrue, LoopsCanBeStopped, NoStartWhileLeaving, Live
<1>4. ASSUME NEW r \in StopRequests, Stop(r)
      PROVE  Rest'
  <2>1. \A c \in Starters : loop[c] # "spawned"
    BY <1>4 DEF Stop, NoStartWhileLeaving
  <2>2. \A c \in Starters : Live(c) => c \in ctxDone'
    BY <1>4, LifecycleAssumption DEF Stop, LoopsCanBeStopped
  <2>3. \A c \in Starters : Live(c)' <=> Live(c)
    BY <1>4 DEF Stop, Live
  <2> QED
    BY <1>4, <2>1, <2>2, <2>3
       DEF Stop, OneLoop, FlagIsTrue, LoopsCanBeStopped, NoStartWhileLeaving
<1>5. ASSUME NEW c \in Starters, StartReturns(c)
      PROVE  Rest'
  <2>1. \A d \in Starters : Live(d)' <=> Live(d)
    BY <1>5 DEF StartReturns, Live, TypeOK
  <2>2. \A d \in Starters : loop'[d] = "spawned" => loop[d] = "spawned"
    BY <1>5 DEF StartReturns, TypeOK
  <2> QED
    BY <1>5, <2>1, <2>2
       DEF StartReturns, OneLoop, FlagIsTrue, LoopsCanBeStopped, NoStartWhileLeaving
<1>6. ASSUME NEW c \in Starters, StartEnters(c)
      PROVE  Rest'
  <2>1. \A d \in Starters : ~Live(d)
    BY <1>6 DEF StartEnters, StartRefused, NoStartWhileLeaving
  <2>2. \A d \in Starters : Live(d)' <=> d = c
    BY <1>6, <2>1 DEF StartEnters, Live, TypeOK
  <2>3. \A d \in Starters : loop'[d] = "spawned" => loop[d] = "spawned"
    BY <1>6 DEF StartEnters, TypeOK
  <2> QED
    BY <1>6, <2>2, <2>3
       DEF StartEnters, OneLoop, FlagIsTrue, LoopsCanBeStopped, NoStartWhileLeaving
<1>7. ASSUME NEW c \in Starters, BeginTick(c) \/ EndTick(c)
      PROVE  Rest'
  <2>1. \A d \in Starters : Live(d)' <=> Live(d)
    BY <1>7 DEF BeginTick, EndTick, Live, TypeOK
  <2>2. \A d \in Starters : loop'[d] = "spawned" => loop[d] = "spawned"
    BY <1>7 DEF BeginTick, EndTick, TypeOK
  <2> QED
    BY <1>7, <2>1, <2>2
       DEF BeginTick, EndTick, OneLoop, FlagIsTrue, LoopsCanBeStopped, NoStartWhileLeaving
<1>8. ASSUME NEW c \in Starters, LoopEnds(c)
      PROVE  Rest'
  <2>1. \A d \in Starters : ~Live(d)'
    BY <1>8 DEF LoopEnds, OneLoop, Live, TypeOK
  <2>2. \A d \in Starters : loop'[d] = "spawned" => loop[d] = "spawned"
    BY <1>8 DEF LoopEnds, TypeOK
  <2> QED
    BY <1>8, <2>1, <2>2
       DEF LoopEnds, OneLoop, FlagIsTrue, LoopsCanBeStopped, NoStartWhileLeaving
<1>9. CASE UNCHANGED <<running, cancel, loop, ctxDone, answer>>
  <2>1. \A c \in Starters : Live(c)' <=> Live(c)
    BY <1>9 DEF Live
  <2>2. OneLoop'
    BY <2>1 DEF OneLoop
  <2>3. FlagIsTrue'
    BY <1>9, <2>1 DEF FlagIsTrue
  <2>4. LoopsCanBeStopped'
    BY <1>9, <2>1 DEF LoopsCanBeStopped
  <2>5. NoStartWhileLeaving'
    BY <1>9, <2>1 DEF NoStartWhileLeaving
  <2> QED
    BY <1>0, <2>2, <2>3, <2>4, <2>5
<1> QED
  BY <1>0, <1>1, <1>2, <1>3, <1>4, <1>5, <1>6, <1>7, <1>8, <1>9 DEF Next, LLMEnds, vars

LEMMA LInvHolds == Spec => []LInv
BY LInvInit, LInvNext, PTL DEF Spec

\* However many requests race to start the monitor, one loop at most ticks.
THEOREM AtMostOneLoop == Spec => []OneLoop
<1>1. LInv => OneLoop
  BY DEF LInv
<1> QED
  BY <1>1, LInvHolds, PTL

\* The flag that every handler decides by is never wrong about the loop.
THEOREM FlagTellsTheTruth == Spec => []FlagIsTrue
<1>1. LInv => FlagIsTrue
  BY DEF LInv
<1> QED
  BY <1>1, LInvHolds, PTL

\* A loop nothing has told to end is the one the service holds a cancel for.
THEOREM NoOrphanLoop == Spec => []LoopsCanBeStopped
<1>1. LInv => LoopsCanBeStopped
  BY DEF LInv
<1> QED
  BY <1>1, LInvHolds, PTL
===============================================================================
