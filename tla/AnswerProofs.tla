------------------------------ MODULE AnswerProofs ------------------------------
(***************************************************************************)
(* Proofs about what is made of the answers of the vendor (TushareClient), *)
(* of its quotes (QuoteStream), of the answers of the LLM (LLMClassify)    *)
(* and the changes of sectors it is told of (SectorFetcher), and of the    *)
(* numbers of days (DayCounts): for any configuration of retries, any      *)
(* stocks, names, runs and days, any previous close from 20 fen up, and    *)
(* every outcome of the floating-point product.                            *)
(***************************************************************************)
EXTENDS LLMClassify, DayCounts, TushareClient, QuoteStream, SectorFetcher,
        SequenceTheorems, TLAPS

(***************************************************************************)
(* Numbers of days.                                                        *)
(***************************************************************************)
DayRows == [limitUp : BOOLEAN, times : Nat, days : Nat]

\* Yesterday's row is yesterday's, or too low; with the exchange's list its number of
\* times is that of the exchange.  Today's row, if there is one, is of today.
DayInv ==
  /\ today \in Classes
  /\ sealed \in Nat /\ strong \in Nat
  /\ filed \in DayRows /\ tonight \in DayRows
  /\ listed \in BOOLEAN
  /\ kept \in [list : BOOLEAN, rows : BOOLEAN]
  /\ filed.times <= sealed /\ filed.days <= strong
  /\ listed => sealed = IF filed.limitUp THEN filed.times ELSE 0
  /\ today = "weak" => tonight.days = 0
  /\ tonight.times <= LimitTimes /\ tonight.days <= StrongDays
  /\ tonight.days = 0 => tonight = NoRow /\ ~kept.list /\ ~kept.rows
  /\ tonight.days # 0 => tonight.limitUp = (today = "sealed")
  /\ kept.list => tonight.times = LimitTimes
  /\ kept.rows => tonight.days = LiveDays

LEMMA DayInitHolds == DayInit => DayInv
BY DEF DayInit, DayInv, DayRows, NoRow, Classes, LimitTimes, StrongDays, LiveDays, HasRow

LEMMA DayNextHolds == DayInv /\ [DayNext]_dayVars => DayInv'
<1> SUFFICES ASSUME DayInv, [DayNext]_dayVars PROVE DayInv'
  OBVIOUS
<1>n. NoRow \in DayRows /\ NoRow.days = 0 /\ NoRow.times = 0 /\ NoRow.limitUp = FALSE
  BY DEF NoRow, DayRows
<1>1. CASE Trade
  <2>1. /\ today' \in Classes /\ tonight = NoRow
        /\ UNCHANGED <<sealed, strong, filed, tonight, listed, kept>>
    BY <1>1 DEF Trade
  <2>2. ~kept.list /\ ~kept.rows
    BY <1>n, <2>1 DEF DayInv
  <2>3. LimitTimes' \in Nat /\ StrongDays' \in Nat
    BY <2>1 DEF DayInv, LimitTimes, StrongDays
  <2> QED
    BY <1>n, <2>1, <2>2, <2>3 DEF DayInv
<1>2. CASE TakeSnapshot
  <2>1. PICK given \in BOOLEAN, readable \in BOOLEAN :
          /\ tonight' = [limitUp |-> today = "sealed",
                         times |-> FiledTimes(given), days |-> FiledDays(readable)]
          /\ kept' = [list |-> given, rows |-> readable]
    BY <1>2 DEF TakeSnapshot
  <2>2. today # "weak" /\ UNCHANGED <<today, sealed, strong, filed, listed>>
    BY <1>2 DEF TakeSnapshot
  <2>3. /\ FiledTimes(given) \in Nat /\ FiledTimes(given) <= LimitTimes
        /\ given => FiledTimes(given) = LimitTimes
    BY DEF FiledTimes, LimitTimes, DayInv
  <2>4. /\ FiledDays(readable) \in Nat \ {0} /\ FiledDays(readable) <= StrongDays
        /\ readable => FiledDays(readable) = LiveDays
    BY <2>2 DEF FiledDays, StrongDays, LiveDays, HasRow, DayInv, DayRows
  <2>5. /\ tonight' \in DayRows /\ tonight'.times = FiledTimes(given)
        /\ tonight'.days = FiledDays(readable)
    BY <2>1, <2>3, <2>4 DEF DayRows
  <2>6. tonight'.limitUp = (today = "sealed")
    BY <2>1
  <2>7. kept' \in [list : BOOLEAN, rows : BOOLEAN]
    BY <2>1
  <2>8. kept'.list = given /\ kept'.rows = readable
    BY <2>1
  <2>9. LimitTimes' = LimitTimes /\ StrongDays' = StrongDays /\ LiveDays' = LiveDays
    BY <2>2 DEF LimitTimes, StrongDays, LiveDays, HasRow
  <2> QED
    BY <2>2, <2>3, <2>4, <2>5, <2>6, <2>7, <2>8, <2>9 DEF DayInv
<1>3. CASE NextDay
  <2>1. /\ sealed' = LimitTimes /\ strong' = StrongDays /\ filed' = tonight
        /\ listed' = (today = "weak" \/ kept.list) /\ today' \in Classes /\ tonight' = NoRow
        /\ kept' = [list |-> FALSE, rows |-> FALSE]
    BY <1>3 DEF NextDay
  <2>2. sealed' \in Nat /\ strong' \in Nat
    BY <2>1 DEF LimitTimes, StrongDays, DayInv
  <2>3. LimitTimes' \in Nat /\ StrongDays' \in Nat
    BY <2>1, <2>2 DEF LimitTimes, StrongDays
  <2>4. kept' \in [list : BOOLEAN, rows : BOOLEAN] /\ ~kept'.list /\ ~kept'.rows
    BY <2>1
  <2>5. listed' \in BOOLEAN
    BY <2>1 DEF DayInv
  <2>6. listed' => sealed' = IF filed'.limitUp THEN filed'.times ELSE 0
    <3>1. CASE today = "weak"
      BY <1>n, <2>1, <3>1 DEF DayInv, LimitTimes
    <3>2. CASE today # "weak" /\ kept.list
      <4>1. tonight.days # 0 /\ tonight.times = LimitTimes
        BY <3>2 DEF DayInv
      <4>2. tonight.limitUp = (today = "sealed")
        BY <4>1 DEF DayInv
      <4> QED
        BY <2>1, <4>1, <4>2 DEF LimitTimes
    <3> QED
      BY <2>1, <3>1, <3>2
  <2>7. filed'.times <= sealed' /\ filed'.days <= strong'
    BY <2>1 DEF DayInv
  <2> QED
    BY <1>n, <2>1, <2>2, <2>3, <2>4, <2>5, <2>6, <2>7 DEF DayInv
<1>4. CASE UNCHANGED dayVars
  BY <1>4 DEF dayVars, DayInv, LimitTimes, StrongDays, LiveDays, HasRow
<1> QED
  BY <1>1, <1>2, <1>3, <1>4 DEF DayNext

\* On any day, the view shows at most the numbers of days there have been.
THEOREM NeverMoreDaysShown == DaySpec => []LiveNeverOverstated
<1>1. DayInv => LiveNeverOverstated
  BY DEF DayInv, DayRows, Classes, LiveNeverOverstated, LiveTimes, LimitTimes, LiveDays,
    StrongDays, CarriedDays, HasRow
<1> QED
  BY <1>1, DayInitHolds, DayNextHolds, PTL DEF DaySpec

\* On any day, the numbers shown are those that are filed, if the snapshots have their data.
THEOREM ShownDaysAreFiled == DaySpec => []LiveIsFiled
<1>1. DayInv => LiveIsFiled
  <2> SUFFICES ASSUME DayInv, HasRow(tonight)
               PROVE  /\ (kept.list /\ listed /\ today = "sealed") => tonight.times = LiveTimes
                      /\ kept.rows => tonight.days = LiveDays
                      /\ (kept.rows /\ HasRow(filed)) => tonight.days = PastDays
    BY DEF LiveIsFiled
  <2>1. kept.rows => tonight.days = LiveDays
    BY DEF DayInv
  <2>2. ASSUME kept.list, listed, today = "sealed" PROVE tonight.times = LiveTimes
    BY <2>2 DEF DayInv, DayRows, LimitTimes, LiveTimes
  <2>3. today # "weak"
    BY DEF DayInv, HasRow
  <2>4. ASSUME kept.rows, HasRow(filed) PROVE tonight.days = PastDays
    BY <2>1, <2>3, <2>4 DEF LiveDays, PastDays
  <2> QED
    BY <2>1, <2>2, <2>4
<1> QED
  BY <1>1, DayInitHolds, DayNextHolds, PTL DEF DaySpec

-------------------------------------------------------------------------------
(***************************************************************************)
(* The answers of the LLM.                                                 *)
(***************************************************************************)
Answers == [name : Names \cup {"none"}, id : BOOLEAN]

AnswerMaps == [Codes -> Answers]

CallRecords ==
  [at : {"idle", "load", "fill", "ask", "cache", "save"}, limitUp : SUBSET Codes,
   strong : SUBSET Codes, found : AnswerMaps]

LLMTypes ==
  /\ answers \in AnswerMaps
  /\ rows \in [Codes -> Names \cup {"none"}]
  /\ calls \in [Callers -> CallRecords]
  /\ adrift \subseteq Codes

\* The cache has an answer with an id, unless it is known not to.
Covered(s) == s \in adrift \/ answers[s].id

AllCovered == \A s \in Codes : rows[s] # "none" => Covered(s)

\* Once the table has been asked, or there are answers, the stored ones are covered; so
\* is what a call is about to store.
LLMInv ==
  /\ \/ Answered(answers) # {}
     \/ \E c \in Callers : calls[c].at \in {"fill", "ask", "cache", "save"}
     => AllCovered
  /\ \A c \in Callers :
       calls[c].at = "save" => \A s \in Answered(calls[c].found) : Covered(s)

LEMMA NothingTyped ==
  /\ Nothing \in AnswerMaps /\ Answered(Nothing) = {} /\ NoAnswer \in Answers
  /\ NoAnswer.name = "none" /\ ~NoAnswer.id
BY DEF Nothing, NoAnswer, AnswerMaps, Answers, Answered

LEMMA IdleTyped == Idle \in CallRecords /\ Idle.at = "idle" /\ Idle.found = Nothing
BY NothingTyped DEF Idle, CallRecords

LEMMA FromRowsTyped ==
  ASSUME rows \in [Codes -> Names \cup {"none"}]
  PROVE  /\ FromRows \in AnswerMaps
         /\ \A s \in Codes : rows[s] # "none" => s \in Answered(FromRows)
<1>1. FromRows \in AnswerMaps
  BY NothingTyped DEF FromRows, AnswerMaps, Answers
<1>2. ASSUME NEW s \in Codes, rows[s] # "none" PROVE FromRows[s] # NoAnswer
  <2>1. FromRows[s].name = rows[s]
    BY <1>2 DEF FromRows
  <2> QED
    BY <1>2, <2>1, NothingTyped
<1> QED
  BY <1>1, <1>2 DEF Answered

LEMMA MergedTyped ==
  ASSUME answers \in AnswerMaps, NEW results \in AnswerMaps
  PROVE  /\ Merged(results) \in AnswerMaps
         /\ \A s \in Codes : Merged(results)[s] = IF s \in Answered(results) THEN results[s]
                                                  ELSE answers[s]
BY DEF Merged, AnswerMaps, Answered

LEMMA LLMInitHolds == LLMInit => LLMTypes /\ LLMInv
<1> SUFFICES ASSUME LLMInit PROVE LLMTypes /\ LLMInv
  OBVIOUS
<1>1. LLMTypes
  BY NothingTyped, IdleTyped DEF LLMInit, LLMTypes
<1>2. LLMInv
  BY NothingTyped, IdleTyped DEF LLMInit, LLMInv
<1> QED
  BY <1>1, <1>2

LEMMA LLMNextHolds == LLMTypes /\ LLMInv /\ [LLMNext]_llmVars => LLMTypes' /\ LLMInv'
<1> SUFFICES ASSUME LLMTypes, LLMInv, [LLMNext]_llmVars PROVE LLMTypes' /\ LLMInv'
  OBVIOUS
<1>r. /\ answers \in AnswerMaps /\ rows \in [Codes -> Names \cup {"none"}]
      /\ calls \in [Callers -> CallRecords] /\ adrift \subseteq Codes
      /\ \A c \in Callers : calls[c] \in CallRecords /\ calls[c].found \in AnswerMaps
  BY DEF LLMTypes, CallRecords
<1>a. ASSUME NEW c \in Callers, calls[c].at \in {"fill", "ask", "cache", "save"}
      PROVE  AllCovered
  BY <1>a DEF LLMInv
\* A step of a call that changes nothing but its own variables.
<1>s. ASSUME NEW c \in Callers, NEW new \in CallRecords, calls' = [calls EXCEPT ![c] = new],
             new.at \in {"fill", "ask", "cache", "save"} => AllCovered,
             new.at # "save", UNCHANGED <<answers, rows, adrift>>
      PROVE  LLMTypes' /\ LLMInv'
  <2>1. \A d \in Callers : calls'[d] = calls[d] \/ calls'[d] = new
    BY <1>r, <1>s
  <2>2. LLMTypes'
    BY <1>r, <1>s DEF LLMTypes
  <2>3. LLMInv'
    BY <1>s, <2>1 DEF LLMInv, AllCovered, Covered, Answered
  <2> QED
    BY <2>2, <2>3
<1>1. ASSUME NEW c \in Callers, NEW limitUp \in SUBSET Codes, Begin(c, limitUp)
      PROVE  LLMTypes' /\ LLMInv'
  <2> DEFINE new == [at |-> IF Answered(answers) = {} THEN "load" ELSE "ask",
                     limitUp |-> Left(limitUp, answers),
                     strong |-> Left(Codes \ limitUp, answers),
                     found |-> Nothing]
  <2>1. calls' = [calls EXCEPT ![c] = new] /\ UNCHANGED <<answers, rows, adrift>>
    BY <1>1 DEF Begin
  <2>2. Left(limitUp, answers) \in SUBSET Codes /\ Left(Codes \ limitUp, answers) \in SUBSET Codes
    BY DEF Left
  <2>3. new \in CallRecords /\ new.at = IF Answered(answers) = {} THEN "load" ELSE "ask"
    BY <2>2, NothingTyped DEF CallRecords
  <2> HIDE DEF new
  <2>4. new.at \in {"fill", "ask", "cache", "save"} => AllCovered
    BY <2>3 DEF LLMInv
  <2> QED
    BY <1>s, <2>1, <2>3, <2>4
<1>2. ASSUME NEW c \in Callers, LoadRows(c) PROVE LLMTypes' /\ LLMInv'
  <2>1. PICK found \in {FromRows, Nothing} :
          calls' = [calls EXCEPT ![c] =
            [at |-> "fill", found |-> found,
             limitUp |-> Left(@.limitUp, found), strong |-> Left(@.strong, found)]]
    BY <1>2 DEF LoadRows
  <2> DEFINE new == [at |-> "fill", found |-> found,
                     limitUp |-> Left(calls[c].limitUp, found),
                     strong |-> Left(calls[c].strong, found)]
  <2>2. found \in AnswerMaps
    BY <1>r, <2>1, FromRowsTyped, NothingTyped
  <2>3. /\ Left(calls[c].limitUp, found) \in SUBSET Codes
        /\ Left(calls[c].strong, found) \in SUBSET Codes
    BY <1>r DEF Left, CallRecords
  <2>4. new \in CallRecords /\ new.at = "fill"
    BY <2>2, <2>3 DEF CallRecords
  <2>5. calls' = [calls EXCEPT ![c] = new]
    BY <1>r, <2>1
  <2> HIDE DEF new
  <2>6. \A d \in Callers : calls'[d] = calls[d] \/ calls'[d] = new
    BY <1>r, <2>5
  <2>7. adrift' = adrift \cup Answered(FromRows) /\ UNCHANGED <<answers, rows>>
    BY <1>2 DEF LoadRows
  <2>8. LLMTypes'
    BY <1>r, <2>4, <2>5, <2>7 DEF LLMTypes, Answered
  <2>9. AllCovered'
    BY <1>r, <2>7, FromRowsTyped DEF AllCovered, Covered
  <2>10. LLMInv'
    BY <2>4, <2>6, <2>7, <2>9 DEF LLMInv, Covered, Answered
  <2> QED
    BY <2>8, <2>10
<1>3. ASSUME NEW c \in Callers, FillCache(c) PROVE LLMTypes' /\ LLMInv'
  <2> DEFINE new == [calls[c] EXCEPT !.at = "ask", !.found = Nothing]
  <2>1. /\ answers' = Merged(calls[c].found)
        /\ adrift' = adrift \cup Answered(calls[c].found)
        /\ calls' = [calls EXCEPT ![c] = new] /\ UNCHANGED rows
    BY <1>3, <1>r DEF FillCache
  <2>2. new \in CallRecords /\ new.at = "ask"
    BY <1>r, NothingTyped DEF CallRecords
  <2> HIDE DEF new
  <2>3. \A d \in Callers : calls'[d] = calls[d] \/ calls'[d] = new
    BY <1>r, <2>1
  <2>4. LLMTypes'
    BY <1>r, <2>1, <2>2, MergedTyped DEF LLMTypes, Answered
  <2>5. \A s \in Codes : Covered(s) => Covered(s)'
    BY <1>r, <2>1, MergedTyped DEF Covered
  <2>6. AllCovered'
    BY <1>3, <1>a, <2>1, <2>5 DEF FillCache, AllCovered
  <2>7. LLMInv'
    BY <2>2, <2>3, <2>5, <2>6 DEF LLMInv, Answered
  <2> QED
    BY <2>4, <2>7
<1>4. ASSUME NEW c \in Callers, Ask(c) PROVE LLMTypes' /\ LLMInv'
  <2>1. PICK answered \in SUBSET Codes, lookup \in BOOLEAN :
          \E name \in [answered -> Names] :
            calls' = [calls EXCEPT ![c] =
              IF answered = {} THEN Idle
              ELSE [Idle EXCEPT
                     !.at = "cache",
                     !.found = [s \in Codes |->
                       IF s \in answered THEN WithId(s, name[s], lookup) ELSE NoAnswer]]]
    <3>1. \A group \in SUBSET Codes : \A two \in Asked(group) : two \in SUBSET Codes
      BY DEF Asked
    <3> QED
      BY <1>4, <1>r, <3>1 DEF Ask, CallRecords
  <2>0. PICK name \in [answered -> Names] :
          calls' = [calls EXCEPT ![c] =
            IF answered = {} THEN Idle
            ELSE [Idle EXCEPT
                   !.at = "cache",
                   !.found = [s \in Codes |->
                     IF s \in answered THEN WithId(s, name[s], lookup) ELSE NoAnswer]]]
    BY <2>1
  <2> DEFINE found == [s \in Codes |->
                         IF s \in answered THEN WithId(s, name[s], lookup) ELSE NoAnswer]
             new == [Idle EXCEPT !.at = "cache", !.found = found]
  <2>2. \A s \in answered : WithId(s, name[s], lookup) \in Answers
    BY DEF WithId, Answers
  <2>3. found \in AnswerMaps
    BY <2>2, NothingTyped DEF AnswerMaps
  <2>4. calls' = [calls EXCEPT ![c] = Idle] \/ calls' = [calls EXCEPT ![c] = new]
    BY <2>0
  <2> HIDE DEF found
  <2>5. new \in CallRecords /\ new.at = "cache"
    BY <2>3, IdleTyped DEF CallRecords
  <2> HIDE DEF new
  <2>6. AllCovered /\ UNCHANGED <<answers, rows, adrift>>
    BY <1>4, <1>a DEF Ask
  <2> QED
    BY <1>s, <2>4, <2>5, <2>6, IdleTyped
<1>5. ASSUME NEW c \in Callers, CacheAnswers(c) PROVE LLMTypes' /\ LLMInv'
  <2> DEFINE new == [calls[c] EXCEPT !.at = "save"]
  <2>1. /\ answers' = Merged(calls[c].found)
        /\ adrift' = {s \in Codes : IF calls[c].found[s] = NoAnswer THEN s \in adrift
                                    ELSE ~calls[c].found[s].id}
        /\ calls' = [calls EXCEPT ![c] = new] /\ UNCHANGED rows
    BY <1>5, <1>r DEF CacheAnswers
  <2>2. new \in CallRecords /\ new.at = "save" /\ new.found = calls[c].found
    BY <1>r DEF CallRecords
  <2> HIDE DEF new
  <2>3. \A d \in Callers : calls'[d] = calls[d] \/ calls'[d] = new
    BY <1>r, <2>1
  <2>4. LLMTypes'
    BY <1>r, <2>1, <2>2, MergedTyped DEF LLMTypes
  <2>5. \A s \in Codes : \/ s \in Answered(calls[c].found) /\ Covered(s)'
                         \/ s \notin Answered(calls[c].found) /\ (Covered(s) => Covered(s)')
    <3> SUFFICES ASSUME NEW s \in Codes
                 PROVE  /\ s \in Answered(calls[c].found) => Covered(s)'
                        /\ s \notin Answered(calls[c].found) /\ Covered(s) => Covered(s)'
      OBVIOUS
    <3>1. answers'[s] = IF s \in Answered(calls[c].found) THEN calls[c].found[s] ELSE answers[s]
      BY <1>r, <2>1, MergedTyped
    <3>2. CASE s \in Answered(calls[c].found)
      <4>1. calls[c].found[s] # NoAnswer /\ answers'[s].id = calls[c].found[s].id
        BY <3>1, <3>2 DEF Answered
      <4>2. s \in adrift' <=> ~calls[c].found[s].id
        BY <2>1, <4>1
      <4> QED
        BY <3>2, <4>1, <4>2 DEF Covered
    <3>3. CASE s \notin Answered(calls[c].found)
      <4>1. calls[c].found[s] = NoAnswer /\ answers'[s].id = answers[s].id
        BY <3>1, <3>3 DEF Answered
      <4>2. s \in adrift' <=> s \in adrift
        BY <2>1, <4>1
      <4> QED
        BY <3>3, <4>1, <4>2 DEF Covered
    <3> QED
      BY <3>2, <3>3
  <2>6. AllCovered'
    BY <1>5, <1>a, <2>1, <2>5 DEF CacheAnswers, AllCovered
  <2>7. ASSUME NEW d \in Callers, calls'[d].at = "save", NEW s \in Answered(calls'[d].found)
        PROVE  Covered(s)'
    <3>1. s \in Codes
      BY DEF Answered
    <3>2. CASE calls'[d] = new
      BY <2>2, <2>5, <2>7, <3>1, <3>2
    <3>3. CASE calls'[d] = calls[d]
      <4>1. Covered(s)
        BY <2>7, <3>3 DEF LLMInv
      <4> QED
        BY <2>5, <3>1, <4>1
    <3> QED
      BY <2>3, <3>2, <3>3
  <2>8. (\A d \in Callers :
          calls[d].at = "save" => \A s \in Answered(calls[d].found) : Covered(s))'
    BY <2>7
  <2>9. LLMInv'
    BY <2>6, <2>8 DEF LLMInv
  <2> QED
    BY <2>4, <2>9
<1>6. ASSUME NEW c \in Callers, SaveAnswers(c) PROVE LLMTypes' /\ LLMInv'
  <2>1. /\ calls' = [calls EXCEPT ![c] = Idle] /\ calls[c].at = "save"
        /\ UNCHANGED <<answers, adrift>>
    BY <1>6 DEF SaveAnswers
  <2>2. \A s \in Codes : rows'[s] = rows[s] \/ (/\ s \in Answered(calls[c].found)
                                               /\ rows'[s] = calls[c].found[s].name)
    BY <1>6 DEF SaveAnswers, Answered
  <2>3. \A s \in Codes : calls[c].found[s].name \in Names \cup {"none"}
    BY <1>r DEF AnswerMaps, Answers
  <2>4. rows' \in [Codes -> Names \cup {"none"}]
    <3>1. CASE UNCHANGED rows
      BY <1>r, <3>1
    <3>2. CASE rows' = [s \in Codes |-> IF calls[c].found[s] # NoAnswer
                                        THEN calls[c].found[s].name ELSE rows[s]]
      BY <1>r, <2>3, <3>2
    <3> QED
      BY <1>6, <3>1, <3>2 DEF SaveAnswers
  <2>5. LLMTypes'
    BY <1>r, <2>1, <2>4, IdleTyped DEF LLMTypes
  <2>6. \A d \in Callers : calls'[d] = calls[d] \/ calls'[d].at = "idle"
    BY <1>r, <2>1, IdleTyped
  <2>7. AllCovered'
    <3>1. AllCovered
      BY <1>a, <2>1
    <3>2. \A s \in Answered(calls[c].found) : Covered(s)
      BY <2>1 DEF LLMInv
    <3> QED
      BY <2>1, <2>2, <3>1, <3>2 DEF AllCovered, Covered
  <2>8. LLMInv'
    BY <2>1, <2>6, <2>7 DEF LLMInv, Covered, Answered
  <2> QED
    BY <2>5, <2>8
<1>7. CASE ProcessEnds
  <2>1. /\ answers' = Nothing /\ calls' = [c \in Callers |-> Idle] /\ adrift' = {}
        /\ UNCHANGED rows
    BY <1>7 DEF ProcessEnds
  <2>2. LLMTypes'
    BY <1>r, <2>1, NothingTyped, IdleTyped DEF LLMTypes
  <2>3. Answered(answers') = {}
    BY <2>1, NothingTyped
  <2>4. \A c \in Callers : calls'[c].at = "idle"
    BY <2>1, IdleTyped
  <2>5. LLMInv'
    BY <2>3, <2>4 DEF LLMInv, Answered
  <2> QED
    BY <2>2, <2>5
<1>8. CASE RequestRecovers
  <2>1. /\ calls' = [calls EXCEPT !["request"] = Idle] /\ "request" \in Callers
        /\ UNCHANGED <<answers, rows, adrift>>
    BY <1>8 DEF RequestRecovers, Callers
  <2> QED
    BY <1>s, <2>1, IdleTyped
<1>9. CASE UNCHANGED llmVars
  <2>1. UNCHANGED <<answers, rows, calls, adrift>>
    BY <1>9 DEF llmVars
  <2> QED
    BY <2>1 DEF LLMTypes, LLMInv, AllCovered, Covered, Answered
<1> QED
  BY <1>1, <1>2, <1>3, <1>4, <1>5, <1>6, <1>7, <1>8, <1>9
  DEF LLMNext, BeginLoop, BeginRequest, Callers

\* Whatever runs overlap, fail or are cut off: a snapshot finds the answer to every stock
\* that has one, in the cache if that has any with an id, in the table if not; the only
\* ones it may miss are those known to have come without an id.
THEOREM AnswersAreFound == LLMSpec => []NoAnswerLost
<1>1. LLMTypes /\ LLMInv => NoAnswerLost
  <2> SUFFICES ASSUME LLMTypes, LLMInv, NEW s \in Codes, rows[s] \in Known, s \notin adrift
               PROVE  s \in DOMAIN LoadLLMResults(Codes)
    BY DEF NoAnswerLost
  <2> DEFINE cached == {c \in Codes : answers[c].id}
             stored == {c \in Codes : rows[c] \in Known}
  <2>1. CASE cached = {}
    <3>1. LoadLLMResults(Codes) = [c \in stored |-> rows[c]]
      BY <2>1 DEF LoadLLMResults
    <3> QED
      BY <3>1
  <2>2. CASE cached # {}
    <3>1. PICK c \in Codes : answers[c].id
      BY <2>2
    <3>2. c \in Answered(answers)
      BY <3>1, NothingTyped DEF Answered
    <3>3. rows[s] # "none"
      BY LLMAssumption
    <3>4. answers[s].id
      BY <3>2, <3>3 DEF LLMInv, AllCovered, Covered
    <3>5. LoadLLMResults(Codes) = [d \in cached |-> answers[d].name]
      BY <2>2 DEF LoadLLMResults
    <3> QED
      BY <3>4, <3>5
  <2> QED
    BY <2>1, <2>2
<1> QED
  BY <1>1, LLMInitHolds, LLMNextHolds, PTL DEF LLMSpec

-------------------------------------------------------------------------------
(***************************************************************************)
(* The calls of the vendor.                                                *)
(***************************************************************************)
Final == {"table", "moved", "refused"}

\* What is known of a call that has not ended: no attempt was final, and there may be
\* one more.
Trying ==
  /\ Len(attempts) <= retry.retries
  /\ \A i \in 1..Len(attempts) : attempts[i] \notin Final
  /\ items = {}

ClientInv ==
  /\ request \in Feeds /\ retry.retries \in Nat /\ attempts \in Seq(Outcomes)
  /\ phase # "done" => Trying
  /\ CallerIsTold

\* The place of each field in a row.
CellsMeant(api) ==
  \A f \in DOMAIN api.cell :
    /\ api.cell[f] \in Nat /\ api.width \in Nat /\ api.cell[f] < api.width
    /\ api.fields[api.cell[f] + 1] = Meant[f]

LEMMA FeedsMeant == ASSUME NEW api \in Feeds PROVE CellsMeant(api)
<1>1. CellsMeant(StockBasicFeed)
  BY DEF StockBasicFeed, Meant, CellsMeant
<1>2. CellsMeant(StockSTFeed)
  BY DEF StockSTFeed, Meant, CellsMeant
<1>3. CellsMeant(RealtimeFeed)
  BY DEF RealtimeFeed, Meant, CellsMeant
<1>4. CellsMeant(DailyFeed)
  BY DEF DailyFeed, Meant, CellsMeant
<1>5. CellsMeant(LimitListFeed)
  BY DEF LimitListFeed, Meant, CellsMeant
<1>6. CellsMeant(DailyBasicFeed)
  BY DEF DailyBasicFeed, Meant, CellsMeant
<1> QED
  BY <1>1, <1>2, <1>3, <1>4, <1>5, <1>6 DEF Feeds

\* Rows of any length, long ones included.
LEMMA ItemsMeant ==
  ASSUME NEW api \in Feeds, NEW given,
         \A row \in given : row.cells \in Int,
         NEW item \in Items(api, given), NEW f \in DOMAIN item
  PROVE  item[f] = Meant[f] \/ (item[f] = "0" /\ f \in Numbers)
<1>1. PICK row \in given :
        /\ row.cells >= api.width
        /\ item = [g \in DOMAIN api.cell |->
                     IF api.cell[g] < row.cells
                     THEN Converted(g, api.fields[api.cell[g] + 1], row.odd)
                     ELSE "out of range"]
  BY DEF Items
<1>2. f \in DOMAIN api.cell
  BY <1>1
<1>3. api.cell[f] < row.cells /\ api.fields[api.cell[f] + 1] = Meant[f]
  <2>1. CellsMeant(api)
    BY FeedsMeant
  <2>2. row.cells \in Int /\ row.cells >= api.width
    BY <1>1
  <2>3. /\ api.cell[f] \in Nat /\ api.width \in Nat /\ api.cell[f] < api.width
        /\ api.fields[api.cell[f] + 1] = Meant[f]
    BY <1>2, <2>1 DEF CellsMeant
  <2> QED
    BY <2>2, <2>3
<1>4. item[f] = Converted(f, Meant[f], row.odd)
  BY <1>1, <1>2, <1>3
<1> QED
  BY <1>4 DEF Converted

LEMMA ClientInitHolds == ClientInit => ClientInv
<1> SUFFICES ASSUME ClientInit PROVE ClientInv
  OBVIOUS
<1>1. retry.retries \in Nat
  BY RetryAssumption DEF ClientInit
<1> QED
  BY <1>1 DEF ClientInit, ClientInv, Trying, CallerIsTold

LEMMA ClientNextHolds == ClientInv /\ [ClientNext]_clientVars => ClientInv'
<1> SUFFICES ASSUME ClientInv, [ClientNext]_clientVars PROVE ClientInv'
  OBVIOUS
<1>1. CASE Call
  BY <1>1 DEF Call, ClientInv, Trying, CallerIsTold
<1>2. CASE Attempt
  <2>1. PICK outcome \in Outcomes,
             given \in SUBSET [cells : {request.width - 1, request.width}, odd : BOOLEAN] :
          /\ given # {} => outcome = "table"
          /\ attempts' = Append(attempts, outcome)
          /\ phase' = IF Retryable(outcome) /\ ~Exhausted(Len(attempts'))
                      THEN "wait" ELSE "done"
          /\ items' = Items(request, given)
    BY <1>2 DEF Attempt
  <2>2. UNCHANGED <<request, retry, cancel>> /\ Trying
    BY <1>2 DEF Attempt, ClientInv
  <2> DEFINE n == Len(attempts)
  <2>3. /\ attempts' \in Seq(Outcomes) /\ Len(attempts') = n + 1 /\ n \in Nat
        /\ attempts'[n + 1] = outcome
        /\ \A i \in 1..n : attempts'[i] = attempts[i]
    BY <2>1 DEF ClientInv
  <2>4. Retryable(outcome) <=> outcome \notin Final
    BY DEF Retryable, Final
  <2>5. given = {} => items' = {}
    BY <2>1 DEF Items
  <2>6. \A i \in 1..n : attempts'[i] \notin Final
    BY <2>2, <2>3 DEF Trying
  <2>7. retry.retries \in Nat /\ n <= retry.retries
    BY <2>2 DEF ClientInv, Trying
  <2>8. phase' # "done" => Trying'
    <3> SUFFICES ASSUME phase' # "done" PROVE Trying'
      OBVIOUS
    <3>1. outcome \notin Final /\ n + 1 <= retry.retries
      BY <2>1, <2>3, <2>4, <2>7 DEF Exhausted
    <3>2. items' = {}
      BY <2>1, <2>5, <3>1 DEF Final
    <3>3. \A i \in 1..n + 1 : attempts'[i] \notin Final
      BY <2>3, <2>6, <3>1
    <3> QED
      BY <2>2, <2>3, <3>1, <3>2, <3>3 DEF Trying
  <2>9. phase' = "done" => outcome \in Final \/ n + 1 = retry.retries + 1
    BY <2>1, <2>3, <2>4, <2>7 DEF Exhausted
  <2>10. ASSUME NEW item \in items'
         PROVE  /\ outcome = "table"
                /\ \A f \in DOMAIN item :
                     item[f] = Meant[f] \/ (item[f] = "0" /\ f \in Numbers)
    <3>1. given # {}
      BY <2>1, <2>5, <2>10
    <3>2. \A row \in given : row.cells \in Int
      <4>1. request.width \in Int
        BY DEF ClientInv, Feeds, StockBasicFeed, StockSTFeed, RealtimeFeed, DailyFeed,
          LimitListFeed, DailyBasicFeed
      <4> QED
        BY <4>1
    <3> QED
      BY <2>1, <3>1, <3>2, ItemsMeant DEF ClientInv
  <2>11. CallerIsTold'
    <3> SUFFICES ASSUME phase' = "done"
                 PROVE  /\ n + 1 <= retry.retries + 1
                        /\ \A i \in 1..n : attempts'[i] \notin Final
                        /\ outcome \in Final \/ n + 1 = retry.retries + 1
                        /\ \A item \in items' :
                             /\ outcome = "table"
                             /\ \A f \in DOMAIN item :
                                  item[f] = Meant[f] \/ (item[f] = "0" /\ f \in Numbers)
      BY <2>2, <2>3 DEF CallerIsTold, Final
    <3> QED
      BY <2>6, <2>7, <2>9, <2>10
  <2> QED
    BY <2>2, <2>3, <2>8, <2>11 DEF ClientInv
<1>3. CASE WaitEnds
  BY <1>3 DEF WaitEnds, ClientInv, Trying, CallerIsTold
<1>4. CASE WaitCancelled
  <2>1. /\ phase # "done" /\ cancel # "no"
        /\ UNCHANGED <<request, retry, attempts, cancel, items>>
    BY <1>4 DEF WaitCancelled
  <2>2. Trying /\ Len(attempts) \in Nat
    BY <2>1 DEF ClientInv
  <2>3. /\ Len(attempts) <= retry.retries + 1
        /\ \A i \in 1..Len(attempts) - 1 : attempts[i] \notin Final
        /\ items = {}
    BY <2>2 DEF Trying, ClientInv
  <2>4. CallerIsTold'
    BY <2>1, <2>3 DEF CallerIsTold, Final
  <2> QED
    BY <2>1, <2>2, <2>4 DEF ClientInv, Trying
<1>5. CASE CallerLeaves
  BY <1>5 DEF CallerLeaves, ClientInv, Trying, CallerIsTold
<1>6. CASE UNCHANGED clientVars
  BY <1>6 DEF clientVars, ClientInv, Trying, CallerIsTold
<1> QED
  BY <1>1, <1>2, <1>3, <1>4, <1>5, <1>6 DEF ClientNext

\* Whatever is configured, and whenever the caller leaves: the end of a call is what the
\* caller is told it is.
THEOREM EndsAreTold == ClientSpec => []CallerIsTold
<1>1. ClientInv => CallerIsTold
  BY DEF ClientInv
<1> QED
  BY <1>1, ClientInitHolds, ClientNextHolds, PTL DEF ClientSpec

-------------------------------------------------------------------------------
(***************************************************************************)
(* Quotes and limits.                                                      *)
(***************************************************************************)

\* The state of a stock is sealed exactly when its last quote was at the computed
\* limit price or above: what the properties say of states follows from what
\* arithmetic says of prices.
QuoteInv ==
  /\ prefix \in Prefixes
  /\ preClose \in PreCloses
  /\ threshold \in CalcLimitUpPrice(preClose, Ratio)
  /\ price \in Nat
  /\ state \in LimitStates
  /\ state \in SealedStates <=> price >= threshold

\* The rules have no gap: every symbol has one of three ratios, the exchange's.
LEMMA Ratios ==
  ASSUME prefix \in Prefixes
  PROVE  Ratio \in {10, 20, 30} /\ NominalRatio(DetectBoard(prefix)) = Ratio
BY DEF Ratio, NominalRatio, LimitUpRatio, DetectBoard, Prefixes

\* The possible limit-up prices of a previous close, as inequalities: the cut-off
\* product, or a fen less where the product is a whole number of fen.
LEMMA ThresholdBounds ==
  ASSUME NEW pre \in Nat, pre > 0, NEW ratio \in {10, 20, 30},
         NEW th \in CalcLimitUpPrice(pre, ratio)
  PROVE  /\ th \in Int
         /\ 100 * th <= pre * (100 + ratio)
         /\ pre * (100 + ratio) <= 100 * (th + 1)
<1>1. CASE ratio = 10
  BY <1>1 DEF CalcLimitUpPrice
<1>2. CASE ratio = 20
  BY <1>2 DEF CalcLimitUpPrice
<1>3. CASE ratio = 30
  BY <1>3 DEF CalcLimitUpPrice
<1> QED
  BY <1>1, <1>2, <1>3

\* The same for this stock, with the product of its own ratio named.
LEMMA LimitBounds ==
  ASSUME QuoteInv
  PROVE  \E product \in Nat :
           /\ product \in {110 * preClose, 120 * preClose, 130 * preClose}
           /\ ExchangeLimit = (product + 50) \div 100
           /\ preClose \in Nat /\ preClose >= 20
           /\ threshold \in Int
           /\ 100 * threshold <= product
           /\ product <= 100 * (threshold + 1)
<1>1. preClose \in Nat /\ preClose >= 20
  BY PreClosesAssumption DEF QuoteInv
<1>2. Ratio \in {10, 20, 30} /\ NominalRatio(DetectBoard(prefix)) = Ratio
  BY Ratios DEF QuoteInv
<1>3. /\ threshold \in Int
      /\ 100 * threshold <= preClose * (100 + Ratio)
      /\ preClose * (100 + Ratio) <= 100 * (threshold + 1)
  BY <1>1, <1>2, ThresholdBounds DEF QuoteInv
<1>4. ExchangeLimit = (preClose * (100 + Ratio) + 50) \div 100
  BY <1>2 DEF ExchangeLimit
<1>5. CASE Ratio = 10
  BY <1>1, <1>3, <1>4, <1>5
<1>6. CASE Ratio = 20
  BY <1>1, <1>3, <1>4, <1>6
<1>7. CASE Ratio = 30
  BY <1>1, <1>3, <1>4, <1>7
<1> QED
  BY <1>2, <1>5, <1>6, <1>7

LEMMA QuoteInvInit == Init => QuoteInv
<1> SUFFICES ASSUME Init PROVE QuoteInv
  OBVIOUS
<1>1. preClose \in Nat /\ preClose >= 20
  BY PreClosesAssumption DEF Init
<1>2. threshold \in Int /\ preClose * (100 + Ratio) <= 100 * (threshold + 1)
  BY <1>1, Ratios, ThresholdBounds DEF Init
<1>3. Ratio \in {10, 20, 30}
  BY Ratios DEF Init
<1>4. price < threshold
  <2>1. CASE Ratio = 10
    BY <1>1, <1>2, <2>1 DEF Init
  <2>2. CASE Ratio = 20
    BY <1>1, <1>2, <2>2 DEF Init
  <2>3. CASE Ratio = 30
    BY <1>1, <1>2, <2>3 DEF Init
  <2> QED
    BY <1>3, <2>1, <2>2, <2>3
<1> QED
  BY <1>1, <1>2, <1>4 DEF Init, QuoteInv, SealedStates, LimitStates

LEMMA QuoteInvNext == QuoteInv /\ [Quote]_vars => QuoteInv'
<1> SUFFICES ASSUME QuoteInv, [Quote]_vars PROVE QuoteInv'
  OBVIOUS
<1>1. CASE Quote
  <2>1. preClose > 0 /\ threshold \in Int /\ ExchangeLimit \in Nat
    BY LimitBounds
  <2>2. price' \in Nat
    BY <1>1, <2>1 DEF Quote
  <2>3. QuoteClass(preClose, price', threshold) = "limit" <=> price' >= threshold
    BY <2>1, <2>2, PreClosesAssumption DEF QuoteClass, QuoteInv
  <2>4. /\ state' \in LimitStates
        /\ state' \in SealedStates <=> QuoteClass(preClose, price', threshold) = "limit"
    BY <1>1 DEF Quote, NextLimitState, SealedStates, LimitStates
  <2> QED
    BY <1>1, <2>2, <2>3, <2>4 DEF Quote, QuoteInv, Ratio
<1>2. CASE UNCHANGED vars
  BY <1>2 DEF vars, QuoteInv, Ratio
<1> QED
  BY <1>1, <1>2

LEMMA QuoteInvHolds == Spec => []QuoteInv
BY QuoteInvInit, QuoteInvNext, PTL DEF Spec

\* Truncation and rounding never lift the computed limit price above the price
\* trading stops at: a stock at its limit is found sealed.
THEOREM LimitIsAlwaysSealed == Spec => []LimitIsSealed
<1>1. QuoteInv => LimitIsSealed
  <2> SUFFICES ASSUME QuoteInv, price = ExchangeLimit PROVE price >= threshold
    BY DEF LimitIsSealed, QuoteInv
  <2> QED
    BY LimitBounds
<1> QED
  BY <1>1, QuoteInvHolds, PTL

\* A stock found sealed is within a fen of the exchange's limit price.
THEOREM SealedIsAlwaysNearLimit == Spec => []SealedIsNearLimit
<1>1. QuoteInv => SealedIsNearLimit
  <2> SUFFICES ASSUME QuoteInv, price >= threshold PROVE price >= ExchangeLimit - 1
    BY DEF SealedIsNearLimit, QuoteInv
  <2>1. ExchangeLimit <= threshold + 1
    BY LimitBounds
  <2> QED
    BY <2>1, LimitBounds DEF QuoteInv
<1> QED
  BY <1>1, QuoteInvHolds, PTL

\* From 20 fen up, the 5% filter of the feed never hides a sealed stock.
THEOREM SealedIsAlwaysFetched == Spec => []SealedIsFetched
<1>1. QuoteInv => SealedIsFetched
  <2> SUFFICES ASSUME QuoteInv, price >= threshold PROVE Above5Pct(preClose, price)
    BY DEF SealedIsFetched, QuoteInv
  <2>1. /\ preClose \in Nat /\ preClose >= 20 /\ threshold \in Int
        /\ 110 * preClose <= 100 * (threshold + 1)
    BY LimitBounds
  <2>2. 20000 * (price - preClose) >= 999 * preClose
    BY <2>1 DEF QuoteInv
  <2> QED
    BY <2>2 DEF Above5Pct, QuoteInv
<1> QED
  BY <1>1, QuoteInvHolds, PTL

-------------------------------------------------------------------------------
(***************************************************************************)
(* Changes of sectors.                                                     *)
(***************************************************************************)
Fetches ==
  [at : {"idle", "page", "store", "told"}, page : Nat, since : Int, asked : Int,
   floor : Int, got : Int]

Asking(a) == fetches[a].at \in {"page", "store"}

\* The time of a fetch is that of its pages.
InTime(a) ==
  LET f == fetches[a]
  IN  /\ 0 <= f.asked /\ f.asked <= f.since /\ f.since <= time
      /\ f.page \in 1..PageCount
      /\ f.since - f.asked <= (f.page - 1) * PageTimeout
      /\ time - f.since <= PageTimeout

\* What has been told is what the cache has had, which is no newer than the cache has
\* now; what is asked for while there is none is as new as all that has been told.
SectorInv ==
  /\ time \in Nat /\ told \in Int /\ Never <= told /\ told <= time
  /\ sectors \in [cached : Int, asked : Int]
  /\ fetches \in [Askers -> Fetches]
  /\ \/ sectors.cached = Never /\ sectors.asked = Never
     \/ /\ told <= sectors.asked
        /\ sectors.asked <= sectors.cached /\ sectors.cached <= time
        /\ sectors.cached - sectors.asked <= PageCount * PageTimeout
  /\ \A a \in Askers :
       /\ Asking(a) => InTime(a)
       /\ Asking(a) /\ sectors.cached = Never => told <= fetches[a].asked
       /\ fetches[a].floor <= told
  /\ ChangesNeverGoBack

LEMMA NeverIsPast == Never \in Int /\ Never <= 0 /\ ~(0 - Never < SectorTTL)
BY SectorAssumption DEF Never

\* A fetch takes no longer than its pages may.
LEMMA FetchesAreShort ==
  ASSUME SectorInv, NEW a \in Askers, Asking(a)
  PROVE  /\ fetches[a].asked \in Int /\ fetches[a].asked <= time
         /\ time - fetches[a].asked <= PageCount * PageTimeout
<1> DEFINE f == fetches[a]
<1>1. /\ f.asked \in Int /\ f.since \in Int /\ f.page \in Nat /\ time \in Nat
      /\ InTime(a)
  BY DEF SectorInv, Fetches
<1>2. (f.page - 1) * PageTimeout + PageTimeout = f.page * PageTimeout
  BY <1>1, SectorAssumption
<1>3. (PageCount - f.page) * PageTimeout >= 0
  <2>1. PageCount - f.page \in Nat
    BY <1>1, SectorAssumption DEF InTime
  <2>2. \A m, n \in Nat : m * n >= 0
    OBVIOUS
  <2> QED
    BY <2>1, <2>2, SectorAssumption
<1>4. (PageCount - f.page) * PageTimeout = PageCount * PageTimeout - f.page * PageTimeout
  BY <1>1, SectorAssumption
<1>5. time - f.asked <= f.page * PageTimeout
  <2>1. f.page * PageTimeout \in Int /\ (f.page - 1) * PageTimeout \in Int
    BY <1>1, SectorAssumption
  <2> HIDE DEF f
  <2> QED
    BY <1>1, <1>2, <2>1, SectorAssumption DEF InTime, f
<1>6. f.page * PageTimeout \in Int /\ PageCount * PageTimeout \in Int
  BY <1>1, SectorAssumption
<1>7. f.page * PageTimeout <= PageCount * PageTimeout
  BY <1>3, <1>4, <1>6
<1> QED
  BY <1>1, <1>5, <1>6, <1>7 DEF InTime

\* What is stored is newer than whatever has been told.
LEMMA StoredIsNewer ==
  ASSUME SectorInv, NEW a \in Askers, Asking(a), ~SectorsFresh
  PROVE  told <= fetches[a].asked
<1>1. CASE sectors.cached = Never
  BY <1>1 DEF SectorInv
<1>2. CASE sectors.cached # Never
  <2>1. /\ told <= sectors.asked /\ sectors.asked <= sectors.cached
        /\ told \in Int /\ sectors.asked \in Int /\ sectors.cached \in Int /\ time \in Nat
    BY <1>2 DEF SectorInv
  <2>2. time - sectors.cached >= SectorTTL
    BY <2>1, SectorAssumption DEF SectorsFresh
  <2>3. PageCount * PageTimeout \in Int /\ PageCount * PageTimeout < SectorTTL
    BY SectorAssumption
  <2> QED
    BY <2>1, <2>2, <2>3, FetchesAreShort, SectorAssumption
<1> QED
  BY <1>1, <1>2

LEMMA SectorInitHolds == SectorInit => SectorInv
BY NeverIsPast DEF SectorInit, SectorInv, NoFetch, Fetches, Asking, ChangesNeverGoBack

\* A call that ends with changes at least as new as all that has been told keeps the
\* invariant, if they are the cached ones by then.
LEMMA ReturnsHold ==
  ASSUME SectorInv, NEW a \in Askers, NEW floor \in Int, floor <= told,
         sectors' \in [cached : Int, asked : Int],
         Returns(a, floor, sectors'.asked), UNCHANGED time,
         told <= sectors'.asked, sectors'.cached # Never,
         sectors'.asked <= sectors'.cached, sectors'.cached <= time,
         sectors'.cached - sectors'.asked <= PageCount * PageTimeout
  PROVE  SectorInv'
<1> DEFINE new == [at |-> "told", page |-> 0, since |-> 0, asked |-> 0, floor |-> floor,
                    got |-> sectors'.asked]
<1>1. /\ fetches' = [fetches EXCEPT ![a] = new]
      /\ told' = sectors'.asked
  BY DEF Returns, SectorInv
<1>2. /\ new \in Fetches /\ new.at = "told" /\ new.floor = floor
      /\ new.got = sectors'.asked
  <2>1. sectors'.asked \in Int /\ Never \in Int
    BY NeverIsPast
  <2> QED
    BY <2>1 DEF Fetches
<1>3. PageCount * PageTimeout \in Int
  BY SectorAssumption
<1> HIDE DEF new
<1>4. /\ time' \in Nat /\ told' \in Int /\ Never <= told' /\ told' <= time' /\ told <= told'
  BY <1>1, NeverIsPast DEF SectorInv
<1>5. fetches' \in [Askers -> Fetches]
  BY <1>1, <1>2 DEF SectorInv
<1>6. ASSUME NEW b \in Askers
      PROVE  /\ Asking(b)' => InTime(b)'
             /\ fetches'[b].floor <= told'
             /\ fetches'[b].at = "told" => fetches'[b].got >= fetches'[b].floor
  <2>1. CASE b = a
    BY <2>1, <1>1, <1>2, <1>4 DEF SectorInv, Asking
  <2>2. CASE b # a
    <3>1. fetches'[b] = fetches[b]
      BY <2>2, <1>1 DEF SectorInv
    <3>2. fetches[b].floor \in Int /\ fetches[b].floor <= told /\ told \in Int
      BY DEF SectorInv, Fetches
    <3> QED
      BY <3>1, <3>2, <1>4 DEF SectorInv, Asking, InTime, ChangesNeverGoBack
  <2> QED
    BY <2>1, <2>2
<1> QED
  BY <1>1, <1>3, <1>4, <1>5, <1>6 DEF SectorInv, ChangesNeverGoBack

LEMMA SectorNextHolds == SectorInv /\ [SectorNext]_sectorVars => SectorInv'
<1> SUFFICES ASSUME SectorInv, [SectorNext]_sectorVars PROVE SectorInv'
  OBVIOUS
<1> USE SectorAssumption, NeverIsPast
<1>i. PageCount * PageTimeout \in Int /\ PageCount * PageTimeout < SectorTTL
  OBVIOUS
<1>s. ASSUME NEW a \in Askers, NEW new \in Fetches,
             fetches' = [fetches EXCEPT ![a] = new], UNCHANGED <<time, sectors, told>>,
             new.at # "told", new.floor <= told,
             new.at \in {"page", "store"} =>
               /\ 0 <= new.asked /\ new.asked <= new.since /\ new.since <= time
               /\ new.page \in 1..PageCount
               /\ new.since - new.asked <= (new.page - 1) * PageTimeout
               /\ time - new.since <= PageTimeout
               /\ sectors.cached = Never => told <= new.asked
      PROVE  SectorInv'
  <2>1. fetches' \in [Askers -> Fetches]
    BY <1>s DEF SectorInv
  <2>2. \A b \in Askers : fetches'[b] = IF b = a THEN new ELSE fetches[b]
    BY <1>s DEF SectorInv
  <2>3. \A b \in Askers :
          /\ Asking(b)' => InTime(b)'
          /\ Asking(b)' /\ sectors'.cached = Never => told' <= fetches'[b].asked
          /\ fetches'[b].floor <= told'
    BY <2>2, <1>s DEF SectorInv, Asking, InTime
  <2>4. ChangesNeverGoBack'
    BY <2>2, <1>s DEF SectorInv, ChangesNeverGoBack
  <2> QED
    BY <2>1, <2>3, <2>4, <1>s DEF SectorInv
<1>1. ASSUME NEW a \in Askers, FetchSectorChanges(a) PROVE SectorInv'
  <2>1. CASE SectorsFresh
    <3>1. /\ Returns(a, told, sectors.asked) /\ UNCHANGED <<time, sectors>>
      BY <1>1, <2>1 DEF FetchSectorChanges
    <3>2. sectors.cached # Never
      BY <2>1 DEF SectorsFresh, SectorInv, Never
    <3>3. told \in Int /\ sectors \in [cached : Int, asked : Int]
      BY DEF SectorInv
    <3> QED
      BY <3>1, <3>2, <3>3, ReturnsHold DEF SectorInv
  <2>2. CASE ~SectorsFresh
    <3> DEFINE new == [at |-> "page", page |-> 1, since |-> time, asked |-> time,
                        floor |-> told, got |-> Never]
    <3>1. fetches' = [fetches EXCEPT ![a] = new] /\ UNCHANGED <<time, sectors, told>>
      BY <1>1, <2>2 DEF FetchSectorChanges
    <3>2. /\ new \in Fetches /\ new.at = "page" /\ new.page = 1 /\ new.since = time
          /\ new.asked = time /\ new.floor = told
      <4>1. time \in Int /\ told \in Int
        BY DEF SectorInv
      <4> QED
        BY <4>1 DEF Fetches
    <3>3. time \in Nat /\ told \in Int /\ told <= time
      BY DEF SectorInv
    <3>4. /\ time - time <= (1 - 1) * PageTimeout /\ time - time <= PageTimeout
          /\ 0 <= time /\ time <= time /\ 1 \in 1..PageCount
      BY <3>3
    <3> HIDE DEF new
    <3>5. /\ 0 <= new.asked /\ new.asked <= new.since /\ new.since <= time
          /\ new.page \in 1..PageCount
          /\ new.since - new.asked <= (new.page - 1) * PageTimeout
          /\ time - new.since <= PageTimeout
          /\ told <= new.asked
      BY <3>2, <3>3, <3>4
    <3>6. new.floor <= told /\ new.at # "told"
      BY <3>2, <3>3
    <3> QED
      BY <3>1, <3>2, <3>5, <3>6, <1>s
  <2> QED
    BY <2>1, <2>2
<1>2. ASSUME NEW a \in Askers, FetchPage(a) PROVE SectorInv'
  <2>1. /\ fetches[a].at = "page" /\ fetches[a] \in Fetches /\ UNCHANGED <<time, sectors, told>>
        /\ InTime(a) /\ fetches[a].floor <= told
        /\ sectors.cached = Never => told <= fetches[a].asked
        /\ time \in Nat
    BY <1>2 DEF FetchPage, SectorInv, Asking
  <2>2. CASE fetches' = [fetches EXCEPT ![a].at = "store"]
    <3> DEFINE new == [fetches[a] EXCEPT !.at = "store"]
    <3>1. fetches' = [fetches EXCEPT ![a] = new]
      BY <2>2
    <3>2. /\ new \in Fetches /\ new.at = "store" /\ new.page = fetches[a].page
          /\ new.since = fetches[a].since /\ new.asked = fetches[a].asked
          /\ new.floor = fetches[a].floor
      BY <2>1 DEF Fetches
    <3> HIDE DEF new
    <3> QED
      BY <3>1, <3>2, <2>1, <1>s DEF InTime
  <2>3. CASE /\ fetches[a].page < PageCount
             /\ fetches' = [fetches EXCEPT ![a].page = @ + 1, ![a].since = time]
    <3> DEFINE new == [fetches[a] EXCEPT !.page = @ + 1, !.since = time]
    <3>1. fetches' = [fetches EXCEPT ![a] = new]
      BY <2>3, <2>1 DEF SectorInv
    <3>2. /\ new \in Fetches /\ new.at = "page" /\ new.page = fetches[a].page + 1
          /\ new.since = time /\ new.asked = fetches[a].asked
          /\ new.floor = fetches[a].floor
      <4>1. fetches[a].page + 1 \in Nat /\ time \in Int
        BY <2>1 DEF Fetches
      <4> QED
        BY <2>1, <4>1 DEF Fetches
    <3> HIDE DEF new
    <3> DEFINE p == fetches[a].page
               since == fetches[a].since
               asked == fetches[a].asked
    <3>3. p \in 1..PageCount /\ since \in Int /\ asked \in Int /\ p < PageCount
      BY <2>1, <2>3 DEF InTime, Fetches
    <3>4. /\ 0 <= asked /\ asked <= since /\ since <= time
          /\ since - asked <= (p - 1) * PageTimeout
          /\ time - since <= PageTimeout
      BY <2>1 DEF InTime
    <3>5. /\ (p - 1) * PageTimeout + PageTimeout = (p + 1 - 1) * PageTimeout
          /\ (p - 1) * PageTimeout \in Int /\ (p + 1 - 1) * PageTimeout \in Int
      BY <3>3
    <3>6. time - asked <= (p + 1 - 1) * PageTimeout
      <4> HIDE DEF p, since, asked
      <4> QED
        BY <3>3, <3>4, <3>5, <2>1
    <3>7. /\ p + 1 \in 1..PageCount /\ asked <= time /\ time <= time
          /\ time - time <= PageTimeout
      <4> HIDE DEF p, since, asked
      <4> QED
        BY <3>3, <3>4, <2>1
    <3>8. /\ 0 <= new.asked /\ new.asked <= new.since /\ new.since <= time
          /\ new.page \in 1..PageCount
          /\ time - new.since <= PageTimeout
          /\ sectors.cached = Never => told <= new.asked
      BY <3>2, <3>4, <3>7, <2>1
    <3>9. new.since - new.asked <= (new.page - 1) * PageTimeout
      <4>1. /\ new.since - new.asked = time - asked
            /\ (new.page - 1) * PageTimeout = (p + 1 - 1) * PageTimeout
        <5>1. new.page - 1 = p + 1 - 1
          BY <3>2, <3>3
        <5> QED
          BY <5>1, <3>2
      <4> QED
        BY <4>1, <3>6
    <3>10. new.floor <= told /\ new.at # "told"
      BY <3>2, <2>1
    <3> QED
      BY <3>1, <3>2, <3>8, <3>9, <3>10, <2>1, <1>s
  <2> QED
    BY <1>2, <2>2, <2>3 DEF FetchPage
<1>3. ASSUME NEW a \in Askers, PageFails(a) PROVE SectorInv'
  <2>1. fetches' = [fetches EXCEPT ![a] = NoFetch] /\ UNCHANGED <<time, sectors, told>>
    BY <1>3 DEF PageFails
  <2>2. NoFetch \in Fetches /\ NoFetch.at = "idle" /\ NoFetch.floor = Never
    BY DEF NoFetch, Fetches
  <2>3. Never <= told
    BY DEF SectorInv
  <2> QED
    BY <2>1, <2>2, <2>3, <1>s
<1>4. ASSUME NEW a \in Askers, StoreSectors(a) PROVE SectorInv'
  <2>1. /\ Asking(a) /\ fetches[a] \in Fetches /\ fetches[a].floor \in Int
        /\ fetches[a].floor <= told
    BY <1>4 DEF StoreSectors, Asking, SectorInv, Fetches
  <2>2. CASE SectorsFresh
    <3>1. /\ Returns(a, fetches[a].floor, sectors.asked) /\ UNCHANGED <<time, sectors>>
      BY <1>4, <2>2 DEF StoreSectors
    <3>2. sectors.cached # Never
      BY <2>2 DEF SectorsFresh, SectorInv, Never
    <3>3. sectors \in [cached : Int, asked : Int]
      BY DEF SectorInv
    <3> QED
      BY <2>1, <3>1, <3>2, <3>3, ReturnsHold DEF SectorInv
  <2>3. CASE ~SectorsFresh
    <3>1. /\ sectors' = [cached |-> time, asked |-> fetches[a].asked]
          /\ Returns(a, fetches[a].floor, fetches[a].asked) /\ UNCHANGED time
      BY <1>4, <2>3 DEF StoreSectors
    <3>2. /\ fetches[a].asked \in Int /\ fetches[a].asked <= time
          /\ time - fetches[a].asked <= PageCount * PageTimeout
      BY <2>1, FetchesAreShort
    <3>3. told <= fetches[a].asked
      BY <2>1, <2>3, StoredIsNewer
    <3>4. time \in Nat /\ time # Never
      BY DEF SectorInv, Never
    <3> QED
      BY <2>1, <3>1, <3>2, <3>3, <3>4, ReturnsHold
  <2> QED
    BY <2>2, <2>3
<1>5. ASSUME Passes PROVE SectorInv'
  <2>1. /\ time' = time + 1 /\ UNCHANGED <<sectors, fetches, told>> /\ time \in Nat
        /\ \A a \in Askers : /\ fetches[a].at # "store"
                             /\ fetches[a].at = "page" => time - fetches[a].since < PageTimeout
    BY <1>5 DEF Passes, SectorInv
  <2>2. ASSUME NEW a \in Askers, Asking(a) PROVE InTime(a)'
    <3>1. InTime(a) /\ fetches[a] \in Fetches /\ time - fetches[a].since < PageTimeout
      BY <2>1, <2>2 DEF SectorInv, Asking
    <3> QED
      BY <2>1, <3>1 DEF InTime, Fetches
  <2>3. told \in Int /\ sectors.cached \in Int /\ told <= time' /\ (sectors.cached <= time => sectors.cached <= time')
    BY <2>1 DEF SectorInv
  <2> QED
    BY <2>1, <2>2, <2>3 DEF SectorInv, Asking, ChangesNeverGoBack
<1>6. ASSUME FetcherRestarts PROVE SectorInv'
  BY <1>6 DEF FetcherRestarts, SectorInv, NoFetch, Fetches, Asking, ChangesNeverGoBack
<1>7. CASE UNCHANGED sectorVars
  BY <1>7 DEF sectorVars, SectorInv, Asking, InTime, ChangesNeverGoBack
<1> QED
  BY <1>1, <1>2, <1>3, <1>4, <1>5, <1>6, <1>7 DEF SectorNext

\* For any number of callers, pages and timeouts, as long as a fetch ends before the cache
\* it fills does: changes never go back in time.
THEOREM SectorsNeverGoBack == SectorSpec => []ChangesNeverGoBack
<1>1. SectorInv => ChangesNeverGoBack
  BY DEF SectorInv
<1> QED
  BY <1>1, SectorInitHolds, SectorNextHolds, PTL DEF SectorSpec

\* For any of these, nobody is given changes that are older than the cache lives and a
\* fetch may take.
THEOREM SectorsAreRecent == SectorSpec => ChangesAreRecent
<1>1. ASSUME SectorInv, [SectorNext]_sectorVars, NEW a \in Askers,
             fetches'[a].at = "told" /\ fetches'[a] # fetches[a]
      PROVE  time - fetches'[a].got < SectorTTL + PageCount * PageTimeout
  <2>1. /\ PageCount * PageTimeout \in Int /\ SectorTTL \in Int /\ time \in Nat
        /\ PageCount * PageTimeout < SectorTTL
        /\ sectors \in [cached : Int, asked : Int] /\ fetches \in [Askers -> Fetches]
    BY <1>1, SectorAssumption DEF SectorInv
  <2>2. CASE SectorsFresh /\ \E floor \in {told, fetches[a].floor} : Returns(a, floor, sectors.asked)
    <3>1. fetches'[a].got = sectors.asked
      BY <2>1, <2>2 DEF Returns
    <3>2. sectors.cached # Never
      BY <2>1, <2>2, SectorAssumption DEF SectorsFresh, Never
    <3>3. sectors.cached - sectors.asked <= PageCount * PageTimeout
      BY <1>1, <3>2 DEF SectorInv
    <3> QED
      BY <2>1, <2>2, <3>1, <3>3 DEF SectorsFresh
  <2>3. CASE Asking(a) /\ Returns(a, fetches[a].floor, fetches[a].asked)
    <3>1. fetches'[a].got = fetches[a].asked
      BY <2>1, <2>3 DEF Returns
    <3> QED
      BY <1>1, <2>1, <2>3, <3>1, FetchesAreShort, SectorAssumption
  <2>4. \/ SectorsFresh /\ \E floor \in {told, fetches[a].floor} : Returns(a, floor, sectors.asked)
        \/ Asking(a) /\ Returns(a, fetches[a].floor, fetches[a].asked)
    <3>1. ASSUME NEW b \in Askers,
                 FetchSectorChanges(b) \/ FetchPage(b) \/ PageFails(b) \/ StoreSectors(b)
          PROVE  b = a
      <4>1. \E new : fetches' = [fetches EXCEPT ![b] = new]
        <5>1. CASE FetchSectorChanges(b)
          BY <5>1 DEF FetchSectorChanges, Returns
        <5>2. CASE FetchPage(b)
          <6> DEFINE next == [fetches[b] EXCEPT !.page = @ + 1, !.since = time]
                     last == [fetches[b] EXCEPT !.at = "store"]
          <6>1. CASE fetches' = [fetches EXCEPT ![b].page = @ + 1, ![b].since = time]
            <7>1. fetches' = [fetches EXCEPT ![b] = next]
              BY <6>1, <2>1
            <7> QED
              BY <7>1
          <6>2. CASE fetches' = [fetches EXCEPT ![b].at = "store"]
            <7>1. fetches' = [fetches EXCEPT ![b] = last]
              BY <6>2
            <7> QED
              BY <7>1
          <6> QED
            BY <5>2, <6>1, <6>2 DEF FetchPage
        <5>3. CASE PageFails(b)
          BY <5>3 DEF PageFails
        <5>4. CASE StoreSectors(b)
          BY <5>4 DEF StoreSectors, Returns
        <5> QED
          BY <3>1, <5>1, <5>2, <5>3, <5>4
      <4> QED
        BY <1>1, <2>1, <4>1
    <3>2. CASE FetchSectorChanges(a)
      BY <1>1, <2>1, <3>2 DEF FetchSectorChanges
    <3>3. CASE FetchPage(a)
      BY <1>1, <2>1, <3>3 DEF FetchPage, Fetches
    <3>4. CASE PageFails(a)
      BY <1>1, <2>1, <3>4 DEF PageFails, NoFetch
    <3>5. CASE StoreSectors(a)
      BY <3>5 DEF StoreSectors, Asking
    <3>6. ~(Passes \/ UNCHANGED sectorVars)
      BY <1>1 DEF Passes, sectorVars
    <3>7. ~FetcherRestarts
      BY <1>1 DEF FetcherRestarts, NoFetch
    <3> QED
      BY <1>1, <3>1, <3>2, <3>3, <3>4, <3>5, <3>6, <3>7 DEF SectorNext
  <2> QED
    BY <2>2, <2>3, <2>4
<1>2. SectorInv /\ [SectorNext]_sectorVars =>
        [\A a \in Askers :
           (fetches'[a].at = "told" /\ fetches'[a] # fetches[a]) =>
             time - fetches'[a].got < SectorTTL + PageCount * PageTimeout]_sectorVars
  BY <1>1
<1> QED
  BY <1>2, SectorInitHolds, SectorNextHolds, PTL DEF SectorSpec, ChangesAreRecent

===============================================================================
