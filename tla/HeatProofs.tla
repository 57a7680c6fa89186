------------------------------ MODULE HeatProofs ------------------------------
(***************************************************************************)
(* Proofs about HeatClassify, for any stocks and topics, any lists of      *)
(* relations, whatever their lengths, and any counts: a loop over a list   *)
(* is a recursive function of the position, so what it returns is shown by *)
(* induction on the position; what a stock has got stays right because     *)
(* heat does not change in a run, and the topics of limit-up stocks do not *)
(* once these are done.                                                    *)
(***************************************************************************)
EXTENDS HeatClassify, FiniteSetTheorems, WellFoundedInduction, TLAPS

-------------------------------------------------------------------------------
(***************************************************************************)
(* Induction, for sets of numbers.                                         *)
(***************************************************************************)
\* A set of numbers that is not empty has a least one.
LEMMA LeastNumber ==
  ASSUME NEW T, T \subseteq Nat, T # {}
  PROVE  \E m \in T : \A n \in T : m <= n
<1> DEFINE R == OpToRel(<, Nat)
<1>1. IsWellFoundedOn(R, Nat)
  BY NatLessThanWellFounded
<1>2. \E m \in T : \A n \in T : ~(<<n, m>> \in R)
  <2> HIDE DEF R
  <2> QED BY <1>1, WFMin
<1>3. \A n, m \in Nat : n < m => <<n, m>> \in R
  BY DEF R, OpToRel
<1> HIDE DEF R
<1>4. PICK m \in T : \A n \in T : ~(<<n, m>> \in R)
  BY <1>2
<1>5. \A n \in T : ~(n < m)
  BY <1>3, <1>4
<1>6. \A n \in T : n \in Nat /\ m \in Nat
  OBVIOUS
<1>7. \A n \in T : m <= n
  BY <1>5, <1>6
<1> QED
  BY <1>7

\* A set with 0 and, with any number, the next one has all numbers.
LEMMA SetInduction ==
  ASSUME NEW S, 0 \in S, \A n \in Nat : n \in S => n + 1 \in S
  PROVE  Nat \subseteq S
<1> DEFINE T == {n \in Nat : n \notin S}
<1>1. SUFFICES ASSUME T # {} PROVE FALSE
  OBVIOUS
<1>2. PICK m \in T : \A n \in T : m <= n
  BY <1>1, LeastNumber
<1>3. m # 0 /\ m \in Nat
  OBVIOUS
<1>4. m - 1 \in Nat /\ m - 1 \notin T
  BY <1>2, <1>3
<1> QED
  BY <1>2, <1>3, <1>4

\* A loop of n turns, each of which makes its result from the one before, has a result
\* after each turn.
LEMMA LoopExists ==
  ASSUME NEW n \in Nat, NEW A, NEW first \in A, NEW Turn \in [1..n -> [A -> A]]
  PROVE  \E f \in [0..n -> A] : f[0] = first /\ \A i \in 1..n : f[i] = Turn[i][f[i - 1]]
<1> DEFINE Run(k, f) == f[0] = first /\ \A i \in 1..k : f[i] = Turn[i][f[i - 1]]
           S == {k \in Nat : k <= n => \E f \in [0..k -> A] : Run(k, f)}
<1>1. 0 \in S
  <2>1. [i \in 0..0 |-> first] \in [0..0 -> A] /\ Run(0, [i \in 0..0 |-> first])
    OBVIOUS
  <2> QED
    BY <2>1
<1>2. ASSUME NEW k \in Nat, k \in S PROVE k + 1 \in S
  <2>1. SUFFICES ASSUME k + 1 <= n PROVE \E g \in [0..(k + 1) -> A] : Run(k + 1, g)
    OBVIOUS
  <2>2. PICK f \in [0..k -> A] : Run(k, f)
    BY <1>2, <2>1
  <2> DEFINE g == [i \in 0..(k + 1) |-> IF i <= k THEN f[i] ELSE Turn[i][f[i - 1]]]
  <2>3. \A i \in 0..k : i \in 0..(k + 1) /\ g[i] = f[i] /\ f[i] \in A
    OBVIOUS
  <2>4. k + 1 \in 1..n /\ f[k] \in A
    BY <2>1, <2>3
  <2>5. g[k + 1] = Turn[k + 1][f[k]] /\ Turn[k + 1][f[k]] \in A
    BY <2>4
  <2>6. \A i \in 0..(k + 1) : i \in 0..k \/ i = k + 1
    OBVIOUS
  <2>7. \A i \in 0..(k + 1) : g[i] \in A
    BY <2>3, <2>5, <2>6
  <2>8. g \in [0..(k + 1) -> A]
    BY <2>7
  <2> HIDE DEF g
  <2>9. \A i \in 1..(k + 1) : g[i] = Turn[i][g[i - 1]]
    <3> TAKE i \in 1..(k + 1)
    <3>1. CASE i = k + 1
      <4>1. i - 1 = k /\ g[i - 1] = f[k]
        BY <3>1, <2>3
      <4> QED
        BY <3>1, <4>1, <2>5
    <3>2. CASE i \in 1..k
      <4>1. i \in 0..k /\ i - 1 \in 0..k
        BY <3>2
      <4>2. g[i] = f[i] /\ g[i - 1] = f[i - 1]
        BY <4>1, <2>3
      <4> QED
        BY <3>2, <4>2, <2>2
    <3> QED
      BY <3>1, <3>2
  <2>10. 0 \in 0..k /\ g[0] = first
    BY <2>2, <2>3
  <2> QED
    BY <2>8, <2>9, <2>10
<1>3. Nat \subseteq S
  <2> HIDE DEF S
  <2> QED
    BY <1>1, <1>2, SetInduction
<1> QED
  BY <1>3

-------------------------------------------------------------------------------
(***************************************************************************)
(* The two loops over the relations of a stock.                            *)
(***************************************************************************)
\* One turn of the loop of pickBestTopicBySimpleHeat.
BestStep(best, rels, allowed, prefer, i) ==
  best[i] = IF /\ rels[i].topic \in HeatMap \cap allowed
               /\ \A b \in best[i - 1] : ShouldReplace(rels[i].topic, b.topic, prefer)
            THEN {rels[i]} ELSE best[i - 1]

\* The loop that picks the best topic exists, and takes its turns one after the other.
LEMMA BestSteps ==
  ASSUME NEW rels, Len(rels) \in Nat, NEW allowed, NEW prefer
  PROVE  /\ BestSoFar(rels, allowed, prefer)[0] = {}
         /\ \A i \in 1..Len(rels) :
              BestStep(BestSoFar(rels, allowed, prefer), rels, allowed, prefer, i)
<1> DEFINE n == Len(rels)
           A == SUBSET {rels[i] : i \in 1..n}
           Turn == [i \in 1..n |-> [x \in A |->
                     IF /\ rels[i].topic \in HeatMap \cap allowed
                        /\ \A b \in x : ShouldReplace(rels[i].topic, b.topic, prefer)
                     THEN {rels[i]} ELSE x]]
           Loop(f) == [i \in 0..n |->
                         IF i = 0 THEN {}
                         ELSE IF /\ rels[i].topic \in HeatMap \cap allowed
                                 /\ \A b \in f[i - 1] :
                                      ShouldReplace(rels[i].topic, b.topic, prefer)
                              THEN {rels[i]} ELSE f[i - 1]]
<1>1. {} \in A /\ Turn \in [1..n -> [A -> A]]
  OBVIOUS
<1>2. PICK f \in [0..n -> A] : f[0] = {} /\ \A i \in 1..n : f[i] = Turn[i][f[i - 1]]
  <2> HIDE DEF A, Turn, n
  <2>1. n \in Nat
    BY DEF n
  <2> QED
    BY <1>1, <2>1, LoopExists
<1>3. f = Loop(f)
  <2>1. ASSUME NEW i \in 0..n PROVE f[i] = Loop(f)[i]
    <3>1. CASE i = 0
      BY <1>2, <3>1
    <3>2. CASE i # 0
      <4>1. i \in 1..n /\ i - 1 \in 0..n /\ f[i - 1] \in A
        BY <3>2
      <4>2. f[i] = Turn[i][f[i - 1]]
        BY <4>1, <1>2
      <4> QED
        BY <4>1, <4>2, <3>2
    <3> QED
      BY <3>1, <3>2
  <2> QED
    BY <2>1
<1>4. BestSoFar(rels, allowed, prefer) = CHOOSE g : g = Loop(g)
  BY DEF BestSoFar
<1> DEFINE best == BestSoFar(rels, allowed, prefer)
<1>5. best = Loop(best)
  <2> HIDE DEF Loop
  <2> QED BY <1>3, <1>4
<1>6. 0 \in 0..n /\ \A i \in 1..n : i \in 0..n /\ i # 0
  OBVIOUS
<1> HIDE DEF best
<1>7. \A i \in 0..n : best[i] = Loop(best)[i]
  BY <1>5
<1> QED
  BY <1>6, <1>7 DEF best, BestStep

\* The same of the loop that picks the latest manual relation.
LEMMA LatestSteps ==
  ASSUME NEW rels, Len(rels) \in Nat
  PROVE  LET latest == LatestSoFar(rels)
         IN  /\ latest[0] = {}
             /\ \A i \in 1..Len(rels) :
                  latest[i] = IF /\ rels[i].source = "manual"
                                 /\ \A l \in latest[i - 1] : rels[i].at > l.at
                              THEN {rels[i]} ELSE latest[i - 1]
<1> DEFINE n == Len(rels)
           A == SUBSET {rels[i] : i \in 1..n}
           Turn == [i \in 1..n |-> [x \in A |->
                     IF rels[i].source = "manual" /\ \A l \in x : rels[i].at > l.at
                     THEN {rels[i]} ELSE x]]
           Loop(f) == [i \in 0..n |->
                         IF i = 0 THEN {}
                         ELSE IF /\ rels[i].source = "manual"
                                 /\ \A l \in f[i - 1] : rels[i].at > l.at
                              THEN {rels[i]} ELSE f[i - 1]]
<1>1. {} \in A /\ Turn \in [1..n -> [A -> A]]
  OBVIOUS
<1>2. PICK f \in [0..n -> A] : f[0] = {} /\ \A i \in 1..n : f[i] = Turn[i][f[i - 1]]
  <2> HIDE DEF A, Turn, n
  <2>1. n \in Nat
    BY DEF n
  <2> QED
    BY <1>1, <2>1, LoopExists
<1>3. f = Loop(f)
  <2>1. ASSUME NEW i \in 0..n PROVE f[i] = Loop(f)[i]
    <3>1. CASE i = 0
      BY <1>2, <3>1
    <3>2. CASE i # 0
      <4>1. i \in 1..n /\ i - 1 \in 0..n /\ f[i - 1] \in A
        BY <3>2
      <4>2. f[i] = Turn[i][f[i - 1]]
        BY <4>1, <1>2
      <4> QED
        BY <4>1, <4>2, <3>2
    <3> QED
      BY <3>1, <3>2
  <2> QED
    BY <2>1
<1>4. LatestSoFar(rels) = CHOOSE g : g = Loop(g)
  BY DEF LatestSoFar
<1> DEFINE latest == LatestSoFar(rels)
<1>5. latest = Loop(latest)
  <2> HIDE DEF Loop
  <2> QED BY <1>3, <1>4
<1>6. 0 \in 0..n /\ \A i \in 1..n : i \in 0..n /\ i # 0
  OBVIOUS
<1> HIDE DEF latest
<1>7. \A i \in 0..n : latest[i] = Loop(latest)[i]
  BY <1>5
<1> QED
  BY <1>6, <1>7 DEF latest

\* The positions of a list.
Places(rels) == 1..Len(rels)

\* What is picked has heat, is allowed, and is one of the relations; and something is
\* picked if there is such a relation, wherever in the list it is.
LEMMA BestIsFound ==
  ASSUME NEW rels \in Seq(Relation), NEW allowed, NEW prefer
  PROVE  /\ (\E i \in Places(rels) : rels[i].topic \in HeatMap \cap allowed) =>
              PickBest(rels, allowed, prefer) # {}
         /\ \A b \in PickBest(rels, allowed, prefer) :
              b.topic \in HeatMap \cap allowed /\ b \in Range(rels)
<1> DEFINE n == Len(rels)
           best == BestSoFar(rels, allowed, prefer)
           Found(k) ==
             /\ (\E i \in 1..k : rels[i].topic \in HeatMap \cap allowed) => best[k] # {}
             /\ \A b \in best[k] :
                  b.topic \in HeatMap \cap allowed /\ \E i \in 1..k : b = rels[i]
           S == {k \in Nat : k <= n => Found(k)}
<1>n. n \in Nat /\ DOMAIN rels = 1..n
  OBVIOUS
<1>1. best[0] = {} /\ \A i \in 1..n : BestStep(best, rels, allowed, prefer, i)
  BY <1>n, BestSteps
<1> HIDE DEF best
<1>2. 0 \in S
  BY <1>1
<1>3. ASSUME NEW k \in Nat, k \in S PROVE k + 1 \in S
  <2>1. SUFFICES ASSUME k + 1 <= n PROVE Found(k + 1)
    OBVIOUS
  <2>2. Found(k) /\ k + 1 \in 1..n /\ (k + 1) - 1 = k
    BY <1>n, <1>3, <2>1
  <2>3. \A i \in 1..(k + 1) : i \in 1..k \/ i = k + 1
    OBVIOUS
  <2>4. \A i \in 1..k : i \in 1..(k + 1)
    OBVIOUS
  <2>5. k + 1 \in 1..(k + 1)
    OBVIOUS
  <2>6. best[k + 1] = IF /\ rels[k + 1].topic \in HeatMap \cap allowed
                         /\ \A b \in best[k] :
                              ShouldReplace(rels[k + 1].topic, b.topic, prefer)
                      THEN {rels[k + 1]} ELSE best[k]
    BY <1>1, <2>2 DEF BestStep
  <2> QED
    BY <2>2, <2>3, <2>4, <2>5, <2>6
<1>4. Nat \subseteq S
  <2> HIDE DEF S
  <2> QED
    BY <1>2, <1>3, SetInduction
<1>5. Found(n)
  <2>1. n \in S /\ n <= n
    <3> HIDE DEF S, n
    <3> QED
      BY <1>4, <1>n
  <2> HIDE DEF Found, n
  <2> QED
    BY <2>1
<1>6. \A i \in 1..n : rels[i] \in Range(rels)
  BY <1>n DEF Range
<1> QED
  BY <1>5, <1>6 DEF PickBest, Places, best

\* One manual relation is picked if there is any; and a relation of the list.
LEMMA LatestIsFound ==
  ASSUME NEW rels \in Seq(Relation)
  PROVE  /\ (\E i \in Places(rels) : rels[i].source = "manual") => PickManual(rels) # {}
         /\ \A l \in PickManual(rels) :
              PickManual(rels) = {l} /\ l \in Range(rels)
<1> DEFINE n == Len(rels)
           latest == LatestSoFar(rels)
           Found(k) ==
             /\ (\E i \in 1..k : rels[i].source = "manual") => latest[k] # {}
             /\ \A l \in latest[k] : latest[k] = {l} /\ \E i \in 1..k : l = rels[i]
           S == {k \in Nat : k <= n => Found(k)}
<1>n. n \in Nat /\ DOMAIN rels = 1..n
  OBVIOUS
<1>1. latest[0] = {}
      /\ \A i \in 1..n :
           latest[i] = IF /\ rels[i].source = "manual"
                          /\ \A l \in latest[i - 1] : rels[i].at > l.at
                       THEN {rels[i]} ELSE latest[i - 1]
  BY <1>n, LatestSteps
<1> HIDE DEF latest
<1>2. 0 \in S
  BY <1>1
<1>3. ASSUME NEW k \in Nat, k \in S PROVE k + 1 \in S
  <2>1. SUFFICES ASSUME k + 1 <= n PROVE Found(k + 1)
    OBVIOUS
  <2>2. Found(k) /\ k + 1 \in 1..n /\ (k + 1) - 1 = k
    BY <1>n, <1>3, <2>1
  <2>3. \A i \in 1..(k + 1) : i \in 1..k \/ i = k + 1
    OBVIOUS
  <2>4. \A i \in 1..k : i \in 1..(k + 1)
    OBVIOUS
  <2>5. k + 1 \in 1..(k + 1)
    OBVIOUS
  <2>6. latest[k + 1] = IF /\ rels[k + 1].source = "manual"
                           /\ \A l \in latest[k] : rels[k + 1].at > l.at
                        THEN {rels[k + 1]} ELSE latest[k]
    BY <1>1, <2>2
  <2> QED
    BY <2>2, <2>3, <2>4, <2>5, <2>6
<1>4. Nat \subseteq S
  <2> HIDE DEF S
  <2> QED
    BY <1>2, <1>3, SetInduction
<1>5. Found(n)
  <2>1. n \in S /\ n <= n
    <3> HIDE DEF S, n
    <3> QED
      BY <1>4, <1>n
  <2> HIDE DEF Found, n
  <2> QED
    BY <2>1
<1>6. \A i \in 1..n : rels[i] \in Range(rels)
  BY <1>n DEF Range
<1> QED
  BY <1>5, <1>6 DEF PickManual, Places, latest

\* A recent relation is picked if there is any: one of the most hits.
LEMMA RecentIsFound ==
  ASSUME NEW rels \in Seq(Relation), NEW i \in Places(rels),
         rels[i].topic \notin Filtered, IsRecent(rels[i])
  PROVE  PickRecent(rels) # {}
<1> DEFINE n == Len(rels)
           Good(j) == rels[j].topic \notin Filtered /\ IsRecent(rels[j])
           Most(j, k) == Good(j) /\ \A h \in 1..k : Good(h) => rels[j].hits >= rels[h].hits
           S == {k \in Nat :
                   k <= n => (\A h \in 1..k : ~Good(h)) \/ \E j \in 1..k : Most(j, k)}
<1>n. n \in Nat /\ DOMAIN rels = 1..n /\ \A j \in 1..n : rels[j] \in Relation
  OBVIOUS
<1>h. \A j \in 1..n : rels[j].hits \in Nat
  BY <1>n DEF Relation
<1> HIDE DEF Good
<1>1. 0 \in S
  OBVIOUS
<1>2. ASSUME NEW k \in Nat, k \in S PROVE k + 1 \in S
  <2>1. SUFFICES ASSUME k + 1 <= n, NEW g \in 1..(k + 1), Good(g)
                 PROVE  \E j \in 1..(k + 1) : Most(j, k + 1)
    OBVIOUS
  <2>2. k <= n /\ k + 1 \in 1..(k + 1) /\ k + 1 \in 1..n
    BY <1>n, <2>1
  <2>3. \A j \in 1..(k + 1) : (j \in 1..k \/ j = k + 1) /\ rels[j].hits \in Nat
    BY <1>n, <1>h, <2>1
  <2>4. \A j \in 1..k : j \in 1..(k + 1)
    OBVIOUS
  <2>5. CASE \A h \in 1..k : ~Good(h)
    <3>1. Most(k + 1, k + 1)
      BY <2>1, <2>3, <2>5
    <3> QED
      BY <3>1, <2>2
  <2>6. CASE \E j \in 1..k : Most(j, k)
    <3>1. PICK j \in 1..k : Most(j, k)
      BY <2>6
    <3>2. CASE Good(k + 1) /\ rels[k + 1].hits > rels[j].hits
      <4>1. Most(k + 1, k + 1)
        BY <3>1, <3>2, <2>2, <2>3, <2>4
      <4> QED
        BY <4>1, <2>2
    <3>3. CASE ~(Good(k + 1) /\ rels[k + 1].hits > rels[j].hits)
      <4>1. Most(j, k + 1)
        BY <3>1, <3>3, <2>2, <2>3, <2>4
      <4> QED
        BY <4>1, <3>1, <2>4
    <3> QED
      BY <3>2, <3>3
  <2> QED
    BY <1>2, <2>2, <2>5, <2>6
<1>3. Nat \subseteq S
  <2> HIDE DEF S
  <2> QED
    BY <1>1, <1>2, SetInduction
<1>4. n \in S
  <2> HIDE DEF S, n
  <2> QED
    BY <1>3, <1>n
<1>5. Good(i) /\ i \in 1..n
  BY DEF Good, Places
<1>6. PICK j \in 1..n : Most(j, n)
  BY <1>n, <1>4, <1>5
<1>7. rels[j] \in PickRecent(rels)
  BY <1>n, <1>6 DEF PickRecent, Range, Good
<1> QED
  BY <1>7

-------------------------------------------------------------------------------
(***************************************************************************)
(* Heat, and the order of topics.                                          *)
(***************************************************************************)
\* The type of the state; only strong stocks are judged.
HeatTypeOK ==
  /\ gain \in [HeatStocks -> {"limit", "strong", "rising", "flat"}]
  /\ relations \in [HeatStocks -> Seq(Relation)]
  /\ others \in [HeatTopics -> Tally]
  /\ counts \in [cached : [HeatTopics -> Nat], stored : [HeatTopics -> Nat]]
  /\ judged \subseteq Strong
  /\ results \in [HeatStocks -> Relation \cup {NoRelation}]

\* A topic has stocks of a group if one of these lists it.
LEMMA CountedIsNat ==
  ASSUME NEW group, group \subseteq HeatStocks, NEW t
  PROVE  Counted(group, t) \in Nat /\ (Counted(group, t) > 0 <=> \E s \in group : Lists(s, t))
<1> DEFINE T == {s \in group : Lists(s, t)}
<1>1. IsFiniteSet(T)
  BY HeatAssumption, FS_Subset
<1>2. Cardinality(T) \in Nat /\ (Cardinality(T) = 0 <=> T = {})
  BY <1>1, FS_CardinalityType, FS_EmptySet
<1>3. Counted(group, t) = Cardinality(T)
  BY DEF Counted
<1> HIDE DEF T
<1>4. Counted(group, t) \in Nat /\ (Counted(group, t) > 0 <=> T # {})
  BY <1>2, <1>3
<1> QED
  BY <1>4 DEF T

\* Limit-up stocks of a topic are counted.
LEMMA StatIsTally ==
  ASSUME HeatTypeOK, NEW t \in HeatTopics
  PROVE  Stat(t).limit \in Nat
<1>1. LimitUp \subseteq HeatStocks
  BY DEF LimitUp
<1>2. Counted(LimitUp, t) \in Nat
  BY <1>1, CountedIsNat
<1>3. others[t].limit \in Nat
  BY DEF HeatTypeOK, Tally
<1> QED
  BY <1>2, <1>3 DEF Stat

\* Where limit-ups are preferred, the topic that replaces another has no fewer of them,
\* and one that does not has no more.
LEMMA LimitUpsComeFirst ==
  ASSUME HeatTypeOK, NEW t \in HeatTopics, NEW u \in HeatTopics
  PROVE  IF ShouldReplace(t, u, TRUE) THEN Stat(u).limit <= Stat(t).limit
         ELSE Stat(t).limit <= Stat(u).limit
<1> DEFINE lead == Lead(t, u, TRUE)
<1>1. Stat(t).limit \in Nat /\ Stat(u).limit \in Nat
  BY StatIsTally
<1>2. lead[1] = Stat(t).limit - Stat(u).limit
  BY DEF Lead
<1>3. ShouldReplace(t, u, TRUE) <=>
        \E i \in 1..4 : lead[i] > 0 /\ \A j \in 1..(i - 1) : lead[j] = 0
  BY DEF ShouldReplace
<1> HIDE DEF lead
<1>4. ASSUME ShouldReplace(t, u, TRUE) PROVE lead[1] >= 0
  <2>1. PICK i \in 1..4 : lead[i] > 0 /\ \A j \in 1..(i - 1) : lead[j] = 0
    BY <1>3, <1>4
  <2>2. i = 1 \/ 1 \in 1..(i - 1)
    OBVIOUS
  <2> QED
    BY <2>1, <2>2, <1>2, <1>1
<1>5. ASSUME ~ShouldReplace(t, u, TRUE) PROVE lead[1] <= 0
  <2>1. 1 \in 1..4 /\ \A j \in 1..(1 - 1) : FALSE
    OBVIOUS
  <2>2. ~(lead[1] > 0)
    BY <2>1, <1>3, <1>5
  <2> QED
    BY <2>2, <1>2, <1>1
<1> QED
  <2>1. CASE ShouldReplace(t, u, TRUE)
    BY <2>1, <1>1, <1>2, <1>4
  <2>2. CASE ~ShouldReplace(t, u, TRUE)
    BY <2>2, <1>1, <1>2, <1>5
  <2> QED
    BY <2>1, <2>2

\* Where limit-ups are preferred, the topic picked has no fewer of them than any that could
\* have been: of three in a list, the last is compared to the better of the others.
LEMMA BestHasMostLimitUps ==
  ASSUME HeatTypeOK, NEW rels \in Seq(Relation), NEW allowed
  PROVE  \A b \in PickBest(rels, allowed, TRUE) : \A i \in Places(rels) :
           rels[i].topic \in HeatMap \cap allowed =>
             Stat(rels[i].topic).limit <= Stat(b.topic).limit
<1> DEFINE n == Len(rels)
           best == BestSoFar(rels, allowed, TRUE)
           Most(k) ==
             \A b \in best[k] :
               /\ best[k] = {b} /\ b \in Relation
               /\ \A i \in 1..k : rels[i].topic \in HeatMap \cap allowed =>
                    Stat(rels[i].topic).limit <= Stat(b.topic).limit
           None(k) == \A i \in 1..k : rels[i].topic \notin HeatMap \cap allowed
           S == {k \in Nat : k <= n => Most(k) /\ (best[k] = {} => None(k))}
<1>n. n \in Nat /\ \A i \in 1..n : rels[i] \in Relation /\ rels[i].topic \in HeatTopics
  <2>1. n \in Nat /\ \A i \in 1..n : rels[i] \in Relation
    OBVIOUS
  <2> QED
    BY <2>1 DEF Relation
<1>1. best[0] = {} /\ \A i \in 1..n : BestStep(best, rels, allowed, TRUE, i)
  BY <1>n, BestSteps
<1> HIDE DEF best
<1>2. 0 \in S
  BY <1>1
<1>3. ASSUME NEW k \in Nat, k \in S PROVE k + 1 \in S
  <2>1. SUFFICES ASSUME k + 1 <= n
                 PROVE  Most(k + 1) /\ (best[k + 1] = {} => None(k + 1))
    OBVIOUS
  <2>2. k + 1 \in 1..n /\ (k + 1) - 1 = k
    BY <1>3, <2>1
  <2>3. \A i \in 1..(k + 1) : i \in 1..k \/ i = k + 1
    OBVIOUS
  <2>4. Most(k) /\ (best[k] = {} => None(k))
    BY <1>3, <2>1
  <2> DEFINE r == rels[k + 1]
             Taken == /\ r.topic \in HeatMap \cap allowed
                      /\ \A b \in best[k] : ShouldReplace(r.topic, b.topic, TRUE)
  <2>5. best[k + 1] = IF /\ r.topic \in HeatMap \cap allowed
                         /\ \A b \in best[k] : ShouldReplace(r.topic, b.topic, TRUE)
                      THEN {r} ELSE best[k]
    BY <1>1, <2>2 DEF BestStep
  <2>6. r \in Relation /\ r.topic \in HeatTopics /\ Stat(r.topic).limit \in Nat
    BY <1>n, <2>2, StatIsTally
  <2>7. \A b \in best[k] : b.topic \in HeatTopics /\ Stat(b.topic).limit \in Nat
    BY <2>4, StatIsTally DEF Relation
  <2>8. \A i \in 1..k : Stat(rels[i].topic).limit \in Nat
    <3> TAKE i \in 1..k
    <3>1. i \in 1..n
      BY <2>1, <1>n
    <3> QED
      BY <3>1, <1>n, StatIsTally
  <2>9. CASE Taken
    <3>1. best[k + 1] = {r}
      BY <2>5, <2>9
    <3>2. ASSUME NEW i \in 1..(k + 1), rels[i].topic \in HeatMap \cap allowed
          PROVE  Stat(rels[i].topic).limit <= Stat(r.topic).limit
      <4>1. CASE i = k + 1
        BY <4>1, <2>6
      <4>2. CASE i \in 1..k
        <5>1. PICK b \in best[k] : TRUE
          BY <3>2, <4>2, <2>4
        <5>2. Stat(rels[i].topic).limit <= Stat(b.topic).limit
          BY <3>2, <4>2, <2>4
        <5>3. Stat(b.topic).limit <= Stat(r.topic).limit
          BY <2>6, <2>7, <2>9, LimitUpsComeFirst
        <5> QED
          BY <5>2, <5>3, <4>2, <2>6, <2>7, <2>8
      <4> QED
        BY <4>1, <4>2, <2>3
    <3> QED
      BY <3>1, <3>2, <2>6
  <2>10. CASE ~Taken
    <3>1. best[k + 1] = best[k]
      BY <2>5, <2>10
    <3>2. ASSUME NEW b \in best[k], r.topic \in HeatMap \cap allowed
          PROVE  Stat(r.topic).limit <= Stat(b.topic).limit
      <4>1. PICK c \in best[k] : ~ShouldReplace(r.topic, c.topic, TRUE)
        BY <2>10, <3>2
      <4>2. c = b
        BY <2>4
      <4> QED
        BY <4>1, <4>2, <2>6, <2>7, LimitUpsComeFirst
    <3> QED
      BY <3>1, <3>2, <2>3, <2>4, <2>10
  <2> QED
    BY <2>9, <2>10
<1>4. Nat \subseteq S
  <2> HIDE DEF S
  <2> QED
    BY <1>2, <1>3, SetInduction
<1>5. n \in S /\ best[n] = PickBest(rels, allowed, TRUE)
  <2> HIDE DEF S
  <2> QED
    BY <1>4, <1>n DEF PickBest, best
<1>6. Most(n)
  <2>1. n <= n
    BY <1>n
  <2> HIDE DEF Most, n
  <2> QED
    BY <1>5, <2>1
<1> QED
  BY <1>5, <1>6 DEF Places

-------------------------------------------------------------------------------
(***************************************************************************)
(* A run of the classification.                                            *)
(***************************************************************************)
\* What the judged stocks got.
Verdicts ==
  \A s \in judged :
    /\ PickManual(relations[s]) # {} => results[s] \in PickManual(relations[s])
    /\ (PickManual(relations[s]) = {} /\ PickRecent(relations[s]) # {}) =>
         results[s] \in PickRecent(relations[s])
    /\ (ByHeat(s) /\ results[s] # NoRelation) => results[s].topic \in HeatMap

\* The inductive invariant.  The two passes do not overlap, and nobody is placed before
\* its turn.
HeatInv ==
  /\ HeatTypeOK
  /\ judged \subseteq LimitUp \/ LimitUp \subseteq judged
  /\ \A s \in HeatStocks \ judged : results[s] = NoRelation
  /\ Verdicts
  /\ EveryStrongStockPlaced
  /\ LeadersShareTopics
  /\ FollowersJoinLeaders

\* Judging a stock leaves heat as it is.
LEMMA HeatStays ==
  ASSUME UNCHANGED <<gain, relations, others, counts>>
  PROVE  /\ Rising' = Rising /\ Strong' = Strong /\ LimitUp' = LimitUp
         /\ \A s, t : Lists(s, t)' <=> Lists(s, t)
         /\ Unavailable' <=> Unavailable
         /\ \A t : Stat(t)' = Stat(t)
         /\ HeatMap' = HeatMap
<1>1. Rising' = Rising /\ Strong' = Strong /\ LimitUp' = LimitUp
  BY DEF Rising, Strong, LimitUp
<1>2. \A s, t : Lists(s, t)' <=> Lists(s, t)
  BY DEF Lists
<1>3. Unavailable' <=> Unavailable
  BY DEF Unavailable
<1>4. \A t : Total(t)' = Total(t)
  BY DEF Total
<1>5. ASSUME NEW t
      PROVE  /\ Counted(Rising, t)' = Counted(Rising, t)
             /\ Counted(Strong, t)' = Counted(Strong, t)
             /\ Counted(LimitUp, t)' = Counted(LimitUp, t)
  <2>1. {s \in Rising : Lists(s, t)}' = {s \in Rising : Lists(s, t)}
    BY <1>1, <1>2
  <2>2. {s \in Strong : Lists(s, t)}' = {s \in Strong : Lists(s, t)}
    BY <1>1, <1>2
  <2>3. {s \in LimitUp : Lists(s, t)}' = {s \in LimitUp : Lists(s, t)}
    BY <1>1, <1>2
  <2> QED
    BY <2>1, <2>2, <2>3 DEF Counted
<1>6. \A t : Stat(t)' = Stat(t)
  BY <1>4, <1>5 DEF Stat
<1>7. HeatMap' = HeatMap
  BY <1>3, <1>4, <1>5 DEF HeatMap
<1> QED
  BY <1>1, <1>2, <1>3, <1>6, <1>7

\* A run starts with nobody judged.
LEMMA HeatInitHolds == HeatInit => HeatInv
<1> SUFFICES ASSUME HeatInit PROVE HeatInv
  OBVIOUS
<1>1. PICK in \in Inputs : /\ gain \in in.gain
                           /\ relations \in in.relations
                           /\ others \in in.others
                           /\ counts \in in.counts
  BY DEF HeatInit
<1>2. judged = {} /\ results = [s \in HeatStocks |-> NoRelation]
  BY DEF HeatInit
<1>3. HeatTypeOK
  BY <1>1, <1>2, HeatAssumption DEF HeatTypeOK
<1>4. judged \subseteq LimitUp /\ \A s \in HeatStocks \ judged : results[s] = NoRelation
  BY <1>2
<1>5. Verdicts /\ EveryStrongStockPlaced
  BY <1>2 DEF Verdicts, EveryStrongStockPlaced
<1>6. LeadersShareTopics /\ FollowersJoinLeaders
  BY <1>2 DEF LeadersShareTopics, FollowersJoinLeaders, ByHeat
<1> QED
  BY <1>3, <1>4, <1>5, <1>6 DEF HeatInv

\* The relations of a stock as a list and as a set, and their topics.
LEMMA RelationsOf ==
  ASSUME HeatTypeOK, NEW s \in HeatStocks
  PROVE  /\ relations[s] \in Seq(Relation)
         /\ Len(relations[s]) \in Nat
         /\ DOMAIN relations[s] = Places(relations[s])
         /\ \A i \in Places(relations[s]) :
              relations[s][i] \in Relation /\ relations[s][i].topic \in HeatTopics
         /\ Range(relations[s]) \subseteq Relation
         /\ \A r \in PickManual(relations[s]) :
              r \in Relation /\ r \in Range(relations[s])
         /\ \A r \in PickRecent(relations[s]) :
              r \in Relation /\ r \in Range(relations[s])
<1> DEFINE rels == relations[s]
<1>1. rels \in Seq(Relation)
  BY DEF HeatTypeOK
<1> HIDE DEF rels
<1>2. /\ Len(rels) \in Nat /\ DOMAIN rels = 1..Len(rels)
      /\ \A i \in 1..Len(rels) : rels[i] \in Relation
  BY <1>1
<1>3. \A i \in 1..Len(rels) : rels[i].topic \in HeatTopics
  BY <1>2 DEF Relation
<1>r. \A r \in Range(rels) : r \in Relation
  BY <1>2 DEF Range
<1>4. \A r \in PickManual(rels) : r \in Relation /\ r \in Range(rels)
  BY <1>1, <1>r, LatestIsFound
<1>5. \A r \in PickRecent(rels) : r \in Relation /\ r \in Range(rels)
  BY <1>r DEF PickRecent
<1> QED
  BY <1>1, <1>2, <1>3, <1>4, <1>5, <1>r DEF Places, rels

\* A relation is not the lack of one.
LEMMA RelationIsSome ==
  ASSUME NEW r \in Relation PROVE r # NoRelation /\ r.topic # "none"
BY HeatAssumption DEF Relation, NoRelation

\* What counts do not rule out.
Countable(t) == t \notin Filtered /\ (Unavailable \/ counts.cached[t] + counts.stored[t] > 0)

\* A topic of a strong stock has heat, unless it is filtered or known to have no stocks.
LEMMA ListedHasHeat ==
  ASSUME HeatTypeOK, NEW s \in Strong, NEW i \in Places(relations[s]),
         Countable(relations[s][i].topic)
  PROVE  relations[s][i].topic \in HeatMap
<1> DEFINE t == relations[s][i].topic
<1>1. s \in HeatStocks /\ s \in Rising /\ Rising \subseteq HeatStocks
  BY DEF Strong, Rising
<1>2. t \in HeatTopics /\ Lists(s, t)
  BY <1>1, RelationsOf DEF Lists
<1>3. Counted(Rising, t) > 0
  BY <1>1, <1>2, CountedIsNat
<1>4. counts.cached[t] \in Nat /\ counts.stored[t] \in Nat
  BY <1>2 DEF HeatTypeOK
<1> HIDE DEF t
<1>5. Unavailable \/ Total(t) > 0
  BY <1>4 DEF Countable, Total, t
<1> QED
  BY <1>2, <1>3, <1>5 DEF Countable, HeatMap, t

\* Judging one more stock, with what heat gives for it: a relation with heat if there is
\* one; for a limit-up stock one of most limit-ups; for another, after all limit-up
\* stocks, one of the topics assigned if there is such.
LEMMA JudgeHolds ==
  ASSUME HeatInv, NEW s \in Strong, s \notin judged, NEW byHeat,
         \A b \in byHeat : b.topic \in HeatMap /\ b \in Range(relations[s]),
         (\E i \in Places(relations[s]) : relations[s][i].topic \in HeatMap) => byHeat # {},
         s \in LimitUp =>
           \A b \in byHeat : \A i \in Places(relations[s]) :
             relations[s][i].topic \in HeatMap =>
               Stat(relations[s][i].topic).limit <= Stat(b.topic).limit,
         s \notin LimitUp =>
           /\ LimitUp \subseteq judged
           /\ (\E i \in Places(relations[s]) :
                 relations[s][i].topic \in HeatMap \cap Assigned) =>
                   \A b \in byHeat : b.topic \in Assigned,
         Judge(s, Pick(relations[s], byHeat))
  PROVE  HeatInv'
<1> DEFINE rels == relations[s]
           picks == Pick(relations[s], byHeat)
<1>t. HeatTypeOK /\ s \in HeatStocks /\ LimitUp \subseteq Strong /\ Strong \subseteq HeatStocks
  BY DEF HeatInv, Strong, LimitUp
<1>1. /\ judged' = judged \cup {s}
      /\ UNCHANGED <<gain, relations, others, counts>>
      /\ IF picks = {} THEN results' = results
         ELSE \E r \in picks : results' = [results EXCEPT ![s] = r]
  BY DEF Judge
<1>2. /\ LimitUp' = LimitUp /\ Strong' = Strong
      /\ \A q, t : Lists(q, t)' <=> Lists(q, t)
      /\ Unavailable' <=> Unavailable
      /\ \A t : Stat(t)' = Stat(t)
      /\ HeatMap' = HeatMap
      /\ relations' = relations /\ counts' = counts
  BY <1>1, HeatStays
<1>3. \A r \in picks : r \in Relation /\ r \in Range(rels)
  <2>1. \A r \in byHeat : r \in Relation
    BY <1>t, RelationsOf
  <2> QED
    BY <2>1, <1>t, RelationsOf DEF Pick
<1>4. /\ \A q \in HeatStocks \ {s} : results'[q] = results[q]
      /\ IF picks = {} THEN results'[s] = NoRelation ELSE results'[s] \in picks
      /\ results' \in [HeatStocks -> Relation \cup {NoRelation}]
  <2>1. results \in [HeatStocks -> Relation \cup {NoRelation}] /\ results[s] = NoRelation
    BY <1>t DEF HeatInv, HeatTypeOK
  <2>2. CASE picks = {}
    BY <2>1, <2>2, <1>1
  <2>3. CASE picks # {}
    <3>1. PICK r \in picks : results' = [results EXCEPT ![s] = r]
      BY <2>3, <1>1
    <3> HIDE DEF picks
    <3> QED
      BY <3>1, <2>1, <2>3, <1>3, <1>t
  <2> QED
    BY <2>2, <2>3
<1> HIDE DEF picks
<1>5. HeatTypeOK'
  <2>1. judged' \subseteq Strong'
    BY <1>1, <1>2, <1>t DEF HeatTypeOK
  <2>2. /\ gain' = gain /\ others' = others
    BY <1>1
  <2> QED
    BY <2>1, <2>2, <1>2, <1>4, <1>t DEF HeatTypeOK
<1>6. (judged \subseteq LimitUp \/ LimitUp \subseteq judged)'
  <2>1. CASE s \in LimitUp
    <3>1. judged \subseteq LimitUp
      BY <2>1 DEF HeatInv
    <3> QED
      BY <3>1, <2>1, <1>1, <1>2
  <2>2. CASE s \notin LimitUp
    BY <2>2, <1>1, <1>2
  <2> QED
    BY <2>1, <2>2
<1>7. (\A q \in HeatStocks \ judged : results[q] = NoRelation)'
  BY <1>1, <1>4 DEF HeatInv
<1>8. /\ \A q \in judged \ {s} : q \in HeatStocks /\ results'[q] = results[q]
      /\ \A q \in judged \ {s} : ByHeat(q)' <=> ByHeat(q)
      /\ ByHeat(s)' <=> (PickManual(rels) = {} /\ PickRecent(rels) = {})
      /\ judged \ {s} = judged
  BY <1>1, <1>2, <1>4, <1>t DEF HeatTypeOK, ByHeat
<1>9. /\ PickManual(rels) # {} => picks = PickManual(rels)
      /\ (PickManual(rels) = {} /\ PickRecent(rels) # {}) => picks = PickRecent(rels)
      /\ (PickManual(rels) = {} /\ PickRecent(rels) = {}) => picks = byHeat
  BY DEF Pick, picks
<1>10. Verdicts'
  <2>1. Verdicts
    BY DEF HeatInv
  <2>2. ASSUME NEW q \in judged
        PROVE  /\ PickManual(relations[q]) # {} => results'[q] \in PickManual(relations[q])
               /\ (PickManual(relations[q]) = {} /\ PickRecent(relations[q]) # {}) =>
                    results'[q] \in PickRecent(relations[q])
               /\ (ByHeat(q)' /\ results'[q] # NoRelation) => results'[q].topic \in HeatMap
    BY <2>1, <1>8 DEF Verdicts
  <2>3. /\ PickManual(rels) # {} => results'[s] \in PickManual(rels)
        /\ (PickManual(rels) = {} /\ PickRecent(rels) # {}) => results'[s] \in PickRecent(rels)
        /\ (ByHeat(s)' /\ results'[s] # NoRelation) => results'[s].topic \in HeatMap
    BY <1>4, <1>8, <1>9
  <2> QED
    BY <2>2, <2>3, <1>1, <1>2 DEF Verdicts
<1>11. EveryStrongStockPlaced'
  <2> DEFINE Placeable(q) ==
        \E i \in DOMAIN relations[q] :
          \/ relations[q][i].source = "manual"
          \/ relations[q][i].topic \notin Filtered /\ IsRecent(relations[q][i])
          \/ Countable(relations[q][i].topic)
  <2>1. \A q \in judged : Placeable(q) => results[q] # NoRelation
    BY DEF HeatInv, EveryStrongStockPlaced, Countable
  <2>2. ASSUME Placeable(s) PROVE results'[s] # NoRelation
    <3>1. PICK i \in Places(rels) :
            \/ rels[i].source = "manual"
            \/ rels[i].topic \notin Filtered /\ IsRecent(rels[i])
            \/ Countable(rels[i].topic)
      BY <2>2, <1>t, RelationsOf
    <3>2. CASE rels[i].source = "manual"
      <4>1. PickManual(rels) # {}
        BY <3>2, <1>t, RelationsOf, LatestIsFound
      <4> QED
        BY <4>1, <1>4, <1>9, <1>3, RelationIsSome
    <3>3. CASE Countable(rels[i].topic)
      <4>1. rels[i].topic \in HeatMap
        BY <3>3, <1>t, ListedHasHeat
      <4>2. byHeat # {}
        BY <4>1
      <4>3. picks # {}
        BY <4>2, <1>9
      <4> QED
        BY <4>3, <1>4, <1>3, RelationIsSome
    <3>4. CASE rels[i].topic \notin Filtered /\ IsRecent(rels[i])
      <4>1. PickRecent(rels) # {}
        BY <3>4, <1>t, RelationsOf, RecentIsFound
      <4>2. picks # {}
        BY <4>1, <1>9
      <4> QED
        BY <4>2, <1>4, <1>3, RelationIsSome
    <3> QED
      BY <3>1, <3>2, <3>3, <3>4
  <2>3. \A q \in judged' : Placeable(q) => results'[q] # NoRelation
    BY <2>1, <2>2, <1>1, <1>8
  <2> QED
    BY <2>3, <1>2 DEF EveryStrongStockPlaced, Countable
<1>12. LeadersShareTopics'
  <2>1. LeadersShareTopics
    BY DEF HeatInv
  <2>2. ASSUME NEW q \in LimitUp, ByHeat(q)', results'[q] # NoRelation,
               NEW t \in HeatMap, Lists(q, t)
        PROVE  Stat(t).limit <= Stat(results'[q].topic).limit
    <3>1. CASE q # s
      <4>1. q \in judged
        BY <2>2, <3>1, <1>1 DEF ByHeat
      <4> QED
        BY <4>1, <3>1, <2>1, <2>2, <1>8 DEF LeadersShareTopics
    <3>2. CASE q = s
      <4>1. results'[s] \in byHeat
        BY <2>2, <3>2, <1>4, <1>8, <1>9
      <4>2. PICK i \in Places(rels) : rels[i].topic = t
        BY <2>2, <3>2, <1>t, RelationsOf DEF Lists
      <4> QED
        BY <4>1, <4>2, <3>2, <2>2
    <3> QED
      BY <3>1, <3>2
  <2> QED
    BY <2>2, <1>2 DEF LeadersShareTopics
<1>13. FollowersJoinLeaders'
  <2>1. FollowersJoinLeaders
    BY DEF HeatInv
  <2>2. ASSUME NEW q \in Strong \ LimitUp, ByHeat(q)',
               NEW t \in Assigned' \cap HeatMap, Lists(q, t)
        PROVE  results'[q].topic \in Assigned'
    <3>1. s \notin LimitUp
      <4>1. q \in judged'
        BY <2>2 DEF ByHeat
      <4> QED
        BY <4>1, <2>2, <1>1 DEF HeatInv
    <3>2. \A l \in LimitUp : /\ l \in judged' <=> l \in judged
                             /\ l \in judged => results'[l] = results[l]
      BY <3>1, <1>1, <1>8
    <3>3. Assigned' = Assigned
      BY <3>2, <1>2 DEF Assigned
    <3>4. CASE q # s
      <4>1. q \in judged
        BY <2>2, <3>4, <1>1 DEF ByHeat
      <4> QED
        BY <4>1, <3>3, <3>4, <2>1, <2>2, <1>8 DEF FollowersJoinLeaders
    <3>5. CASE q = s
      <4>1. PICK i \in Places(rels) : rels[i].topic = t
        BY <2>2, <3>5, <1>t, RelationsOf DEF Lists
      <4>2. byHeat # {} /\ picks = byHeat
        BY <4>1, <2>2, <3>5, <1>8, <1>9
      <4>3. results'[s] \in byHeat
        BY <4>2, <1>4
      <4> QED
        BY <4>1, <4>3, <3>1, <3>3, <3>5, <2>2
    <3> QED
      BY <3>4, <3>5
  <2> QED
    BY <2>2, <1>2 DEF FollowersJoinLeaders
<1> QED
  BY <1>5, <1>6, <1>7, <1>10, <1>11, <1>12, <1>13 DEF HeatInv

\* Both loops give what JudgeHolds asks for.
LEMMA HeatNextHolds == HeatInv /\ [HeatNext]_heatVars => HeatInv'
<1> SUFFICES ASSUME HeatInv, [HeatNext]_heatVars PROVE HeatInv'
  OBVIOUS
<1>t. HeatTypeOK /\ HeatMap \subseteq HeatTopics
  BY DEF HeatInv, HeatMap
<1>1. ASSUME NEW s \in HeatStocks, ClassifyLimitUpStock(s) PROVE HeatInv'
  <2> DEFINE byHeat == PickBest(relations[s], HeatTopics, TRUE)
  <2>1. /\ s \in LimitUp /\ s \in Strong /\ s \notin judged
        /\ Judge(s, Pick(relations[s], byHeat))
    BY <1>1 DEF ClassifyLimitUpStock, LimitUp, Strong, Judge
  <2>2. relations[s] \in Seq(Relation) /\ Len(relations[s]) \in Nat
    BY <1>t, RelationsOf
  <2>3. /\ (\E i \in Places(relations[s]) : relations[s][i].topic \in HeatMap) => byHeat # {}
        /\ \A b \in byHeat : b.topic \in HeatMap /\ b \in Range(relations[s])
    <3>1. /\ (\E i \in Places(relations[s]) :
                relations[s][i].topic \in HeatMap \cap HeatTopics) => byHeat # {}
          /\ \A b \in byHeat : b.topic \in HeatMap \cap HeatTopics
                               /\ b \in Range(relations[s])
      BY <2>2, BestIsFound
    <3> QED
      BY <3>1, <1>t
  <2>4. \A b \in byHeat : \A i \in Places(relations[s]) :
          relations[s][i].topic \in HeatMap =>
            Stat(relations[s][i].topic).limit <= Stat(b.topic).limit
    BY <2>2, <1>t, BestHasMostLimitUps
  <2> HIDE DEF byHeat
  <2> QED
    BY <2>1, <2>3, <2>4, JudgeHolds
<1>2. ASSUME NEW s \in HeatStocks, ClassifyStrongStock(s) PROVE HeatInv'
  <2> DEFINE byHeat == ByHeatForStrong(relations[s])
             first == PickBest(relations[s], Assigned, TRUE)
             any == PickBest(relations[s], HeatTopics, FALSE)
  <2>1. /\ s \in Strong /\ s \notin LimitUp /\ LimitUp \subseteq judged
        /\ Judge(s, Pick(relations[s], byHeat)) /\ s \notin judged
    BY <1>2 DEF ClassifyStrongStock, Judge
  <2>2. relations[s] \in Seq(Relation)
    BY <1>t, RelationsOf
  <2>3. /\ (\E i \in Places(relations[s]) :
              relations[s][i].topic \in HeatMap \cap Assigned) => first # {}
        /\ \A b \in first : b.topic \in HeatMap \cap Assigned
                            /\ b \in Range(relations[s])
    BY <2>2, BestIsFound
  <2>4. /\ (\E i \in Places(relations[s]) : relations[s][i].topic \in HeatMap) => any # {}
        /\ \A b \in any : b.topic \in HeatMap /\ b \in Range(relations[s])
    <3>1. /\ (\E i \in Places(relations[s]) :
                relations[s][i].topic \in HeatMap \cap HeatTopics) => any # {}
          /\ \A b \in any : b.topic \in HeatMap \cap HeatTopics
                            /\ b \in Range(relations[s])
      BY <2>2, BestIsFound
    <3> QED
      BY <3>1, <1>t
  <2>5. byHeat = IF first # {} THEN first ELSE any
    BY DEF ByHeatForStrong
  <2> HIDE DEF byHeat, first, any
  <2> QED
    BY <2>1, <2>3, <2>4, <2>5, JudgeHolds
<1>3. CASE UNCHANGED heatVars
  <2>1. judged' = judged /\ results' = results /\ gain' = gain /\ relations' = relations
        /\ others' = others /\ counts' = counts
    BY <1>3 DEF heatVars
  <2>2. /\ LimitUp' = LimitUp /\ Strong' = Strong
        /\ \A q, t : Lists(q, t)' <=> Lists(q, t)
        /\ Unavailable' <=> Unavailable
        /\ \A t : Stat(t)' = Stat(t)
        /\ HeatMap' = HeatMap
    BY <2>1, HeatStays
  <2>3. \A q : ByHeat(q)' <=> ByHeat(q)
    BY <2>1 DEF ByHeat
  <2>4. Assigned' = Assigned
    BY <2>1, <2>2 DEF Assigned
  <2>5. HeatTypeOK' /\ Verdicts' /\ EveryStrongStockPlaced'
    BY <2>1, <2>2, <2>3 DEF HeatInv, HeatTypeOK, Verdicts, EveryStrongStockPlaced
  <2>6. LeadersShareTopics' /\ FollowersJoinLeaders'
    BY <2>1, <2>2, <2>3, <2>4 DEF HeatInv, LeadersShareTopics, FollowersJoinLeaders
  <2> QED
    BY <2>1, <2>2, <2>5, <2>6 DEF HeatInv
<1> QED
  BY <1>1, <1>2, <1>3 DEF HeatNext

\* The invariant holds throughout a run of ClassifyBySimpleHeat.
THEOREM HeatInvHolds == HeatSpec => []HeatInv
<1>1. HeatInv /\ [HeatNext]_heatVars => HeatInv'
  BY HeatNextHolds
<1> QED
  BY <1>1, HeatInitHolds, PTL DEF HeatSpec

\* In any run, a strong stock that has a manual relation, or an unfiltered one that is
\* recent or that counts do not rule out, is placed: no path of ClassifyBySimpleHeat
\* loses it.
THEOREM StrongStocksArePlaced == HeatSpec => []EveryStrongStockPlaced
<1>1. HeatInv => EveryStrongStockPlaced
  BY DEF HeatInv
<1> QED
  BY <1>1, HeatInvHolds, PTL

\* In any run, heat puts a limit-up stock under a topic of most limit-ups among its own.
THEOREM LeadersGather == HeatSpec => []LeadersShareTopics
<1>1. HeatInv => LeadersShareTopics
  BY DEF HeatInv
<1> QED
  BY <1>1, HeatInvHolds, PTL

\* In any run, a strong stock placed by heat goes with limit-up stocks if it can.
THEOREM FollowersFollow == HeatSpec => []FollowersJoinLeaders
<1>1. HeatInv => FollowersJoinLeaders
  BY DEF HeatInv
<1> QED
  BY <1>1, HeatInvHolds, PTL

\* With a manual relation, or one recent among dated ones, both choices are the same.
LEMMA VerdictsAgree == HeatInv => MonitorAgreesWithEditor
<1> SUFFICES ASSUME HeatInv, NEW s \in judged,
                    LET all == Range(relations[s])
                        plain == \A r \in all : r.topic \notin Filtered /\ r.age # Undated
                    IN  \/ PickManual(relations[s]) # {}
                        \/ plain /\ Cardinality({r \in all : IsRecent(r)}) = 1
             PROVE  Filed(relations[s]) = {results[s]}
  BY DEF MonitorAgreesWithEditor
<1> DEFINE rels == relations[s]
           all == Range(rels)
<1>1. HeatTypeOK /\ s \in HeatStocks /\ rels \in Seq(Relation) /\ Len(rels) \in Nat
  <2>1. HeatTypeOK /\ s \in HeatStocks
    BY DEF HeatInv, HeatTypeOK, Strong
  <2> QED
    BY <2>1, RelationsOf
<1>2. /\ PickManual(rels) # {} => results[s] \in PickManual(rels)
      /\ (PickManual(rels) = {} /\ PickRecent(rels) # {}) => results[s] \in PickRecent(rels)
  BY DEF HeatInv, Verdicts
<1>3. CASE PickManual(rels) # {}
  <2>1. PickManual(rels) = {results[s]}
    BY <1>1, <1>2, <1>3, LatestIsFound
  <2> QED
    BY <2>1, <1>3 DEF Filed
<1>4. CASE PickManual(rels) = {}
  <2>1. /\ \A r \in all : r.topic \notin Filtered /\ r.age # Undated
        /\ Cardinality({r \in all : IsRecent(r)}) = 1
    BY <1>4
  <2>2. all \subseteq Relation /\ IsFiniteSet(all)
    <3>1. DOMAIN rels = 1..Len(rels) /\ \A i \in 1..Len(rels) : rels[i] \in Relation
      BY <1>1
    <3>2. IsFiniteSet(1..Len(rels))
      BY <1>1, FS_Interval
    <3>3. all = {rels[i] : i \in 1..Len(rels)}
      BY <3>1 DEF Range
    <3>4. rels \in Surjection(1..Len(rels), all)
      BY <3>1, <3>3, <1>1 DEF Surjection
    <3>5. IsFiniteSet(all)
      <4> HIDE DEF all
      <4> QED
        BY <3>2, <3>4, FS_Surjection
    <3> QED
      BY <3>1, <3>5 DEF Range
  <2> HIDE DEF all, rels
  <2>3. IsFiniteSet({r \in all : IsRecent(r)})
    BY <2>2, FS_Subset
  <2>4. PICK r : {q \in all : IsRecent(q)} = {r}
    BY <2>1, <2>3, FS_Singleton
  <2>5. /\ r \in all /\ IsRecent(r)
        /\ \A q \in all : q.age \in Int /\ q.hits \in Int /\ (IsRecent(q) => q = r)
    BY <2>1, <2>2, <2>4 DEF Relation
  <2>6. PickRecent(rels) = {r}
    BY <2>1, <2>5 DEF PickRecent, all
  <2>7. results[s] = r
    BY <2>6, <1>2, <1>4
  <2>8. \A q \in all : Days(q) = q.age /\ (q # r => q.age > 7) /\ r.age <= 7
    BY <2>1, <2>5 DEF Days, IsRecent
  <2>9. Fresh(rels) = {r}
    BY <2>5, <2>8 DEF Fresh, StaleDays, all
  <2> QED
    BY <2>7, <2>9, <1>4 DEF Filed, rels
<1> QED
  BY <1>3, <1>4

\* In any run, monitor and editor agree where MonitorAgreesWithEditor says so.
THEOREM MonitorAndEditorAgree == HeatSpec => []MonitorAgreesWithEditor
BY HeatInvHolds, VerdictsAgree, PTL

===============================================================================
