------------------------- MODULE BitcoinReceiptProofs -------------------------
(***************************************************************************)
(* What a Bitcoin observer adds up, for every set of payments, every page  *)
(* size and every blockchain, and what the receipt of an address then      *)
(* says.  The sums are folds over data: each is given a closed form, and   *)
(* that the fold equals it is proved of the least counterexample (WFMin),  *)
(* of which there is none.  The observer in the hands of a poller is still *)
(* the observer, so that what is shown of its reports holds of the         *)
(* receipt; and a saved row says what the observer reported.               *)
(***************************************************************************)
EXTENDS BitcoinReceipt, FiniteSetTheorems, SequenceTheorems,
        WellFoundedInduction, TLAPS

-----------------------------------------------------------------------------
(* Sums of amounts. *)

\* The money of S, coin by coin.
Purse(t) == {t} \X (1..Amount[t])
Coins(S) == UNION {Purse(t) : t \in S}

LEMMA PurseIsAmount ==
  ASSUME NEW t \in Tx
  PROVE  IsFiniteSet(Purse(t)) /\ Cardinality(Purse(t)) = Amount[t]
<1>1. Amount[t] \in Nat \ {0}
  BY ConstantsAssumption
<1>2. IsFiniteSet(1..Amount[t]) /\ Cardinality(1..Amount[t]) = Amount[t]
  BY <1>1, FS_Interval
<1>3. IsFiniteSet({t}) /\ Cardinality({t}) = 1
  BY FS_Singleton
<1>4. IsFiniteSet({t} \X (1..Amount[t]))
      /\ Cardinality({t} \X (1..Amount[t])) = Cardinality({t}) * Cardinality(1..Amount[t])
  BY <1>2, <1>3, FS_Product
<1> QED
  BY <1>1, <1>2, <1>3, <1>4 DEF Purse

LEMMA CoinsAreFinite ==
  ASSUME NEW S \in SUBSET Tx
  PROVE  IsFiniteSet(Coins(S))
<1> DEFINE P == {Purse(t) : t \in S}
           f == [t \in S |-> Purse(t)]
<1>1. f \in Surjection(S, P)
  BY DEF Surjection
<1>2. IsFiniteSet(S)
  BY ConstantsAssumption, FS_Subset
<1>3. IsFiniteSet(P)
  <2> HIDE DEF f, P
  <2> QED BY <1>1, <1>2, FS_Surjection
<1>4. \A T \in P : IsFiniteSet(T)
  BY PurseIsAmount
<1> QED
  <2> HIDE DEF P
  <2>1. IsFiniteSet(UNION P)
    BY <1>3, <1>4, FS_UNION
  <2> QED BY <2>1 DEF P, Coins

LEMMA CoinsAddUp ==
  ASSUME NEW S \in SUBSET Tx, NEW T \in SUBSET Tx, S \cap T = {}
  PROVE  Cardinality(Coins(S \cup T)) = Cardinality(Coins(S)) + Cardinality(Coins(T))
<1>1. IsFiniteSet(Coins(S)) /\ IsFiniteSet(Coins(T))
  BY CoinsAreFinite
<1>2. Coins(S \cup T) = Coins(S) \cup Coins(T)
  BY DEF Coins
<1>3. Coins(S) \cap Coins(T) = {}
  BY DEF Coins, Purse
<1>4. Cardinality({}) = 0
  BY FS_EmptySet
<1>5. Cardinality(Coins(S)) \in Nat /\ Cardinality(Coins(T)) \in Nat
  BY <1>1, FS_CardinalityType
<1>6. Cardinality(Coins(S) \cup Coins(T))
        = Cardinality(Coins(S)) + Cardinality(Coins(T)) - Cardinality(Coins(S) \cap Coins(T))
  BY <1>1, FS_Union
<1>7. Cardinality(Coins(S) \cap Coins(T)) = 0
  BY <1>3, <1>4
<1>8. Cardinality(Coins(S) \cup Coins(T)) = Cardinality(Coins(S)) + Cardinality(Coins(T))
  BY <1>5, <1>6, <1>7
<1> QED
  BY <1>2, <1>8, Zenon

\* One step of the fold behind Total, with the sums g of smaller sets.
Pick(S) == CHOOSE t \in S : TRUE
Summed(S, g) ==
  [s \in SUBSET S |-> IF s = {} THEN 0 ELSE g[s \ {Pick(s)}] + Amount[Pick(s)]]

LEMMA CoinsAreSummed ==
  ASSUME NEW S \in SUBSET Tx
  PROVE  LET g == [s \in SUBSET S |-> Cardinality(Coins(s))] IN g = Summed(S, g)
<1> DEFINE g == [s \in SUBSET S |-> Cardinality(Coins(s))]
<1>1. ASSUME NEW s \in SUBSET S, s # {}
      PROVE  g[s] = g[s \ {Pick(s)}] + Amount[Pick(s)]
  <2>1. Pick(s) \in s
    BY <1>1 DEF Pick
  <2>2. s = (s \ {Pick(s)}) \cup {Pick(s)}
    BY <2>1
  <2>3. Cardinality(Coins(s)) = Cardinality(Coins(s \ {Pick(s)})) + Cardinality(Coins({Pick(s)}))
    BY <2>1, <2>2, CoinsAddUp
  <2>4. Coins({Pick(s)}) = Purse(Pick(s))
    BY DEF Coins
  <2>5. Cardinality(Coins({Pick(s)})) = Amount[Pick(s)]
    BY <2>1, <2>4, PurseIsAmount
  <2> QED
    BY <2>3, <2>5
<1>2. g[{}] = 0
  <2>1. Coins({}) = {}
    BY DEF Coins
  <2> QED BY <2>1, FS_EmptySet
<1>3. g = Summed(S, g)
  BY <1>1, <1>2 DEF Summed
<1> QED BY <1>3

LEMMA SumsAreUnique ==
  ASSUME NEW S \in SUBSET Tx, NEW g, g = Summed(S, g), NEW h, h = Summed(S, h)
  PROVE  g[S] = h[S]
<1> DEFINE R == StrictSubsetOrdering(S)
           Bad == {s \in SUBSET S : g[s] # h[s]}
<1>1. IsWellFoundedOn(R, SUBSET S)
  <2>1. IsFiniteSet(S)
    BY ConstantsAssumption, FS_Subset
  <2> QED BY <2>1, FS_StrictSubsetOrderingWellFounded, FS_FiniteSubsetsOfFinite
<1> HIDE DEF R
<1>2. ASSUME Bad # {} PROVE FALSE
  <2>1. PICK s \in Bad : \A u \in Bad : ~(<<u, s>> \in R)
    BY <1>1, <1>2, WFMin
  <2>2. CASE s = {}
    <3>1. g[s] = 0 /\ h[s] = 0
      BY <2>1, <2>2 DEF Summed
    <3> QED BY <2>1, <3>1
  <2>3. CASE s # {}
    <3> DEFINE u == s \ {Pick(s)}
    <3>1. Pick(s) \in s
      BY <2>3 DEF Pick
    <3>2. <<u, s>> \in R
      BY <2>1, <3>1 DEF R, StrictSubsetOrdering
    <3>3. g[u] = h[u]
      BY <2>1, <3>2
    <3>4. g[s] = g[u] + Amount[Pick(s)] /\ h[s] = h[u] + Amount[Pick(s)]
      BY <2>1, <2>3 DEF Summed
    <3> QED BY <2>1, <3>3, <3>4
  <2> QED BY <2>2, <2>3
<1> QED BY <1>2

LEMMA TotalIsCoins ==
  ASSUME NEW S \in SUBSET Tx
  PROVE  Total(S) = Cardinality(Coins(S))
<1> DEFINE g == [s \in SUBSET S |-> Cardinality(Coins(s))]
           iter == CHOOSE f : f = Summed(S, f)
<1>1. g = Summed(S, g)
  BY CoinsAreSummed
<1>2. g[S] = Cardinality(Coins(S))
  OBVIOUS
<1> HIDE DEF g
<1>3. iter = Summed(S, iter)
  BY <1>1
<1>4. Total(S) = iter[S]
  BY DEF Total, FoldSet, MapThenFoldSet, Summed, Pick
<1> HIDE DEF iter
<1> QED
  BY <1>1, <1>2, <1>3, <1>4, SumsAreUnique

\* A total is a number, adds up over disjoint sets and grows with its set.
LEMMA TotalAddsUp ==
  ASSUME NEW S \in SUBSET Tx, NEW T \in SUBSET Tx
  PROVE  /\ Total(S) \in Nat
         /\ S \cap T = {} => Total(S \cup T) = Total(S) + Total(T)
         /\ S \subseteq T => Total(S) <= Total(T)
<1>1. Total(S) = Cardinality(Coins(S)) /\ Total(T) = Cardinality(Coins(T))
  BY TotalIsCoins
<1>2. IsFiniteSet(Coins(S)) /\ IsFiniteSet(Coins(T))
  BY CoinsAreFinite
<1>3. Total(S) \in Nat
  BY <1>1, <1>2, FS_CardinalityType
<1>4. ASSUME S \cap T = {} PROVE Total(S \cup T) = Total(S) + Total(T)
  <2>1. Total(S \cup T) = Cardinality(Coins(S \cup T))
    BY TotalIsCoins
  <2> QED BY <1>1, <1>4, <2>1, CoinsAddUp
<1>5. ASSUME S \subseteq T PROVE Total(S) <= Total(T)
  <2>1. Coins(S) \subseteq Coins(T)
    BY <1>5 DEF Coins
  <2> QED BY <1>1, <1>2, <2>1, FS_Subset
<1> QED BY <1>3, <1>4, <1>5

LEMMA TotalOfOne ==
  /\ Total({}) = 0
  /\ \A t \in Tx : Total({t}) = Amount[t]
<1>1. Coins({}) = {} /\ \A t \in Tx : Coins({t}) = Purse(t)
  BY DEF Coins
<1>2. Total({}) = Cardinality(Coins({})) /\ \A t \in Tx : Total({t}) = Cardinality(Coins({t}))
  BY TotalIsCoins
<1> QED BY <1>1, <1>2, PurseIsAmount, FS_EmptySet

-----------------------------------------------------------------------------
(* Induction, as the absence of a least counterexample. *)

LEMMA LeastNumber ==
  ASSUME NEW T \in SUBSET Nat, T # {}
  PROVE  \E n \in T : \A m \in T : n <= m
<1> DEFINE R == {ss \in Nat \X Nat : ss[1] < ss[2]}
<1>1. IsWellFoundedOn(R, Nat)
  BY NatLessThanWellFounded DEF OpToRel
<1> HIDE DEF R
<1>2. PICK n \in T : \A m \in T : ~(<<m, n>> \in R)
  BY <1>1, WFMin
<1>3. SUFFICES ASSUME NEW m \in T PROVE n <= m
  BY <1>2
<1>4. <<m, n>> \in Nat \X Nat /\ n \in Nat /\ m \in Nat
  BY <1>2
<1>5. ~(m < n)
  BY <1>2, <1>4 DEF R
<1> QED BY <1>4, <1>5

LEMMA LargestIndex ==
  ASSUME NEW n \in Nat, NEW s \in SUBSET (1..n), s # {}
  PROVE  Max(s) \in s /\ \A i \in s : i <= Max(s)
<1> DEFINE T == {n - i : i \in s}
<1>1. T \in SUBSET Nat /\ T # {}
  OBVIOUS
<1> HIDE DEF T
<1>2. PICK m \in T : \A k \in T : m <= k
  BY <1>1, LeastNumber
<1>3. PICK i \in s : m = n - i
  BY <1>2 DEF T
<1>4. \A j \in s : i >= j
  <2> SUFFICES ASSUME NEW j \in s PROVE i >= j
    OBVIOUS
  <2>1. n - j \in T
    BY DEF T
  <2>2. n - i <= n - j
    BY <1>2, <1>3, <2>1
  <2> QED BY <2>2
<1>5. \E x \in s : \A y \in s : x >= y
  BY <1>4
<1>6. Max(s) \in s /\ \A y \in s : Max(s) >= y
  BY <1>5 DEF Max
<1> QED BY <1>6

-----------------------------------------------------------------------------
(* Totals of a list of entries. *)

Ids(list) == {list[i].id : i \in DOMAIN list}

\* Of the entries at indexes s: the first of each txid, and the payments among
\* these that are confirmed, or are not yet, at the height latest.
SeenIn(list, s) == {list[i].id : i \in s}
FirstIn(list, s) == {i \in s : \A j \in s : j < i => list[j].id # list[i].id}
IsDeep(e, latest) == Confirmations(latest, e.height) >= RequiredConfirmations
DeepIn(list, latest, s) ==
  {list[i].id : i \in {j \in FirstIn(list, s) : ~list[j].early /\ IsDeep(list[j], latest)}}
ShallowIn(list, latest, s) ==
  {list[i].id : i \in {j \in FirstIn(list, s) : ~list[j].early /\ ~IsDeep(list[j], latest)}}

SumIn(list, latest, s) ==
  [seen |-> SeenIn(list, s), confirmed |-> Total(DeepIn(list, latest, s)),
   unconfirmed |-> Total(ShallowIn(list, latest, s))]

\* One step of the fold behind Aggregate, with the sums g of smaller sets.
Folded(list, latest, g) ==
  [s \in SUBSET DOMAIN list |->
     IF s = {} THEN NothingSeen ELSE Add(g[s \ {Max(s)}], list[Max(s)], latest)]

LEMMA FirstOfLarger ==
  ASSUME NEW list \in Seq(Entry), NEW s \in SUBSET DOMAIN list, NEW m \in s,
         \A i \in s : i <= m
  PROVE  FirstIn(list, s)
           = FirstIn(list, s \ {m})
               \cup (IF list[m].id \in SeenIn(list, s \ {m}) THEN {} ELSE {m})
<1>1. DOMAIN list = 1..Len(list) /\ Len(list) \in Nat
  OBVIOUS
<1>2. \A i \in s : i \in Nat
  BY <1>1
<1>3. \A i \in s \ {m} : i < m
  BY <1>2
<1>4. \A i \in s \ {m} : i \in FirstIn(list, s) <=> i \in FirstIn(list, s \ {m})
  BY <1>2, <1>3 DEF FirstIn
<1>5. m \in FirstIn(list, s) <=> list[m].id \notin SeenIn(list, s \ {m})
  BY <1>2, <1>3 DEF FirstIn, SeenIn
<1>6. FirstIn(list, s) \subseteq s /\ FirstIn(list, s \ {m}) \subseteq s \ {m}
  BY DEF FirstIn
<1> QED BY <1>4, <1>5, <1>6

LEMMA SumStep ==
  ASSUME NEW list \in Seq(Entry), NEW latest, NEW s \in SUBSET DOMAIN list, s # {}
  PROVE  SumIn(list, latest, s) = Add(SumIn(list, latest, s \ {Max(s)}), list[Max(s)], latest)
<1>1. PICK m : m = Max(s)
  OBVIOUS
<1>2. m \in s /\ \A i \in s : i <= m
  <2>1. Len(list) \in Nat /\ s \in SUBSET (1..Len(list))
    OBVIOUS
  <2> QED BY <1>1, <2>1, LargestIndex
<1> DEFINE e == list[m]
           r == s \ {m}
<1>3. e \in Entry
  BY <1>2
<1>4. SeenIn(list, s) = SeenIn(list, r) \cup {e.id}
  BY <1>2 DEF SeenIn
<1>5. FirstIn(list, s) = FirstIn(list, r) \cup (IF e.id \in SeenIn(list, r) THEN {} ELSE {m})
  BY <1>2, FirstOfLarger
<1>6. FirstIn(list, r) \subseteq r /\ m \notin r
  BY DEF FirstIn
<1>7. /\ DeepIn(list, latest, r) \subseteq SeenIn(list, r)
      /\ ShallowIn(list, latest, r) \subseteq SeenIn(list, r)
  BY <1>6 DEF DeepIn, ShallowIn, SeenIn
<1>8. SeenIn(list, r) \subseteq Tx /\ e.id \in Tx
  <2>1. \A i \in DOMAIN list : list[i] \in Entry
    OBVIOUS
  <2> QED BY <1>3, <2>1 DEF SeenIn, Entry
<1>9. ASSUME e.id \in SeenIn(list, r) \/ e.early
      PROVE  /\ DeepIn(list, latest, s) = DeepIn(list, latest, r)
             /\ ShallowIn(list, latest, s) = ShallowIn(list, latest, r)
  <2>1. \A j \in FirstIn(list, s) : ~list[j].early => j \in FirstIn(list, r)
    BY <1>5, <1>9
  <2>2. FirstIn(list, r) \subseteq FirstIn(list, s)
    BY <1>5
  <2> QED BY <2>1, <2>2 DEF DeepIn, ShallowIn
<1>10. ASSUME e.id \notin SeenIn(list, r), ~e.early, IsDeep(e, latest)
       PROVE  /\ DeepIn(list, latest, s) = DeepIn(list, latest, r) \cup {e.id}
              /\ ShallowIn(list, latest, s) = ShallowIn(list, latest, r)
  <2>1. FirstIn(list, s) = FirstIn(list, r) \cup {m}
    BY <1>5, <1>10
  <2> QED BY <1>10, <2>1 DEF DeepIn, ShallowIn
<1>11. ASSUME e.id \notin SeenIn(list, r), ~e.early, ~IsDeep(e, latest)
       PROVE  /\ DeepIn(list, latest, s) = DeepIn(list, latest, r)
              /\ ShallowIn(list, latest, s) = ShallowIn(list, latest, r) \cup {e.id}
  <2>1. FirstIn(list, s) = FirstIn(list, r) \cup {m}
    BY <1>5, <1>11
  <2> QED BY <1>11, <2>1 DEF DeepIn, ShallowIn
<1>12. \A S \in SUBSET SeenIn(list, r) :
         e.id \notin SeenIn(list, r) => Total(S \cup {e.id}) = Total(S) + Amount[e.id]
  <2> SUFFICES ASSUME NEW S \in SUBSET SeenIn(list, r), e.id \notin SeenIn(list, r)
               PROVE  Total(S \cup {e.id}) = Total(S) + Amount[e.id]
    OBVIOUS
  <2>1. S \in SUBSET Tx /\ {e.id} \in SUBSET Tx /\ S \cap {e.id} = {}
    BY <1>8
  <2>2. Total(S \cup {e.id}) = Total(S) + Total({e.id})
    BY <2>1, TotalAddsUp
  <2> QED BY <1>8, <2>2, TotalOfOne
<1> HIDE DEF e, r
<1>13. CASE e.id \in SeenIn(list, r) \/ e.early
  <2>1. Add(SumIn(list, latest, r), e, latest)
          = [SumIn(list, latest, r) EXCEPT !.seen = @ \cup {e.id}]
    BY <1>13 DEF Add, SumIn
  <2> QED BY <1>1, <1>4, <1>9, <1>13, <2>1 DEF SumIn, e, r
<1>14. CASE e.id \notin SeenIn(list, r) /\ ~e.early /\ IsDeep(e, latest)
  <2>1. Add(SumIn(list, latest, r), e, latest)
          = [SumIn(list, latest, r) EXCEPT !.seen = @ \cup {e.id}, !.confirmed = @ + Amount[e.id]]
    BY <1>14 DEF Add, SumIn, IsDeep
  <2>2. Total(DeepIn(list, latest, s)) = Total(DeepIn(list, latest, r)) + Amount[e.id]
    BY <1>7, <1>10, <1>12, <1>14
  <2> QED BY <1>1, <1>4, <1>10, <1>14, <2>1, <2>2 DEF SumIn, e, r
<1>15. CASE e.id \notin SeenIn(list, r) /\ ~e.early /\ ~IsDeep(e, latest)
  <2>1. Add(SumIn(list, latest, r), e, latest)
          = [SumIn(list, latest, r) EXCEPT !.seen = @ \cup {e.id}, !.unconfirmed = @ + Amount[e.id]]
    BY <1>15 DEF Add, SumIn, IsDeep
  <2>2. Total(ShallowIn(list, latest, s)) = Total(ShallowIn(list, latest, r)) + Amount[e.id]
    BY <1>7, <1>11, <1>12, <1>15
  <2> QED BY <1>1, <1>4, <1>11, <1>15, <2>1, <2>2 DEF SumIn, e, r
<1> QED BY <1>13, <1>14, <1>15

LEMMA FoldsAreUnique ==
  ASSUME NEW list \in Seq(Entry), NEW latest,
         NEW g, g = Folded(list, latest, g), NEW h, h = Folded(list, latest, h)
  PROVE  g[DOMAIN list] = h[DOMAIN list]
<1>1. PICK D : D = DOMAIN list
  OBVIOUS
<1>2. D = 1..Len(list) /\ Len(list) \in Nat
  BY <1>1
<1> DEFINE R == StrictSubsetOrdering(D)
           Bad == {s \in SUBSET D : g[s] # h[s]}
<1>3. IsWellFoundedOn(R, SUBSET D)
  <2>1. IsFiniteSet(D)
    BY <1>2, FS_Interval
  <2> QED BY <2>1, FS_StrictSubsetOrderingWellFounded, FS_FiniteSubsetsOfFinite
<1> HIDE DEF R
<1>4. ASSUME Bad # {} PROVE FALSE
  <2>1. PICK s \in Bad : \A u \in Bad : ~(<<u, s>> \in R)
    BY <1>3, <1>4, WFMin
  <2>2. CASE s = {}
    <3>1. g[s] = NothingSeen /\ h[s] = NothingSeen
      BY <1>1, <2>1, <2>2 DEF Folded
    <3> QED BY <2>1, <3>1
  <2>3. CASE s # {}
    <3> DEFINE u == s \ {Max(s)}
    <3>1. Max(s) \in s
      BY <1>2, <2>1, <2>3, LargestIndex
    <3>2. <<u, s>> \in R
      BY <2>1, <3>1 DEF R, StrictSubsetOrdering
    <3>3. g[u] = h[u]
      BY <2>1, <3>2
    <3>4. /\ g[s] = Add(g[u], list[Max(s)], latest)
          /\ h[s] = Add(h[u], list[Max(s)], latest)
      BY <1>1, <2>1, <2>3 DEF Folded
    <3> QED BY <2>1, <3>3, <3>4
  <2> QED BY <2>2, <2>3
<1> QED BY <1>1, <1>4

\* The totals of a list: each txid counts once, as its first entry says.
LEMMA AggregateIsSum ==
  ASSUME NEW list \in Seq(Entry), NEW latest
  PROVE  Aggregate(list, latest) = SumIn(list, latest, DOMAIN list)
<1> DEFINE g == [s \in SUBSET DOMAIN list |-> SumIn(list, latest, s)]
           iter == CHOOSE f : f = Folded(list, latest, f)
<1>1. SumIn(list, latest, {}) = NothingSeen
  <2>1. SeenIn(list, {}) = {} /\ DeepIn(list, latest, {}) = {} /\ ShallowIn(list, latest, {}) = {}
    BY DEF SeenIn, FirstIn, DeepIn, ShallowIn
  <2> QED BY <2>1, TotalOfOne DEF SumIn, NothingSeen
<1>2. ASSUME NEW s \in SUBSET DOMAIN list, s # {}
      PROVE  g[s] = Add(g[s \ {Max(s)}], list[Max(s)], latest)
  <2>1. s \ {Max(s)} \in SUBSET DOMAIN list
    OBVIOUS
  <2> QED BY <1>2, <2>1, SumStep
<1>3. g = Folded(list, latest, g)
  BY <1>1, <1>2 DEF Folded
<1>4. g[DOMAIN list] = SumIn(list, latest, DOMAIN list)
  OBVIOUS
<1> HIDE DEF g
<1>5. iter = Folded(list, latest, iter)
  BY <1>3
<1>6. Aggregate(list, latest) = iter[DOMAIN list]
  BY DEF Aggregate, FoldLeft, MapThenFoldSet, Folded
<1> HIDE DEF iter
<1> QED
  BY <1>3, <1>4, <1>5, <1>6, FoldsAreUnique

\* What the totals are made of.
DeepOf(list, latest) == DeepIn(list, latest, DOMAIN list)
ShallowOf(list, latest) == ShallowIn(list, latest, DOMAIN list)

LEMMA AggregateCounts ==
  ASSUME NEW list \in Seq(Entry), NEW latest
  PROVE  /\ Aggregate(list, latest).confirmed = Total(DeepOf(list, latest))
         /\ Aggregate(list, latest).unconfirmed = Total(ShallowOf(list, latest))
         /\ DeepOf(list, latest) \cap ShallowOf(list, latest) = {}
         /\ DeepOf(list, latest) \cup ShallowOf(list, latest) \subseteq Ids(list)
         /\ Ids(list) \subseteq Tx
         /\ \A t \in DeepOf(list, latest) : \E i \in DOMAIN list :
              list[i].id = t /\ ~list[i].early /\ IsDeep(list[i], latest)
         /\ \A t \in Ids(list) :
              (\A i \in DOMAIN list : list[i].id = t => ~list[i].early)
                => t \in DeepOf(list, latest) \cup ShallowOf(list, latest)
<1> DEFINE D == DOMAIN list
<1>1. DOMAIN list = 1..Len(list) /\ Len(list) \in Nat /\ \A i \in DOMAIN list : list[i] \in Entry
  OBVIOUS
<1>2. /\ Aggregate(list, latest).confirmed = Total(DeepOf(list, latest))
      /\ Aggregate(list, latest).unconfirmed = Total(ShallowOf(list, latest))
  BY AggregateIsSum DEF SumIn, DeepOf, ShallowOf
<1>3. \A i, j \in FirstIn(list, D) : list[i].id = list[j].id => i = j
  <2> SUFFICES ASSUME NEW i \in FirstIn(list, D), NEW j \in FirstIn(list, D),
                      list[i].id = list[j].id
               PROVE  i = j
    OBVIOUS
  <2>1. i \in Nat /\ j \in Nat /\ i \in D /\ j \in D
    BY <1>1 DEF FirstIn
  <2>2. ~(i < j) /\ ~(j < i)
    BY <2>1 DEF FirstIn
  <2> QED BY <2>1, <2>2
<1>4. DeepOf(list, latest) \cap ShallowOf(list, latest) = {}
  <2> SUFFICES ASSUME NEW t \in DeepOf(list, latest), t \in ShallowOf(list, latest) PROVE FALSE
    OBVIOUS
  <2>1. PICK i \in FirstIn(list, D) : list[i].id = t /\ IsDeep(list[i], latest)
    BY DEF DeepOf, DeepIn
  <2>2. PICK j \in FirstIn(list, D) : list[j].id = t /\ ~IsDeep(list[j], latest)
    BY DEF ShallowOf, ShallowIn
  <2> QED BY <1>3, <2>1, <2>2
<1>5. DeepOf(list, latest) \cup ShallowOf(list, latest) \subseteq Ids(list)
  BY DEF DeepOf, ShallowOf, DeepIn, ShallowIn, FirstIn, Ids
<1>6. Ids(list) \subseteq Tx
  BY <1>1 DEF Ids, Entry
<1>7. \A t \in DeepOf(list, latest) : \E i \in DOMAIN list :
        list[i].id = t /\ ~list[i].early /\ IsDeep(list[i], latest)
  BY DEF DeepOf, DeepIn, FirstIn
<1>8. ASSUME NEW t \in Ids(list), \A i \in D : list[i].id = t => ~list[i].early
      PROVE  t \in DeepOf(list, latest) \cup ShallowOf(list, latest)
  <2> DEFINE T == {i \in D : list[i].id = t}
  <2>1. T \in SUBSET Nat /\ T # {}
    BY <1>1 DEF Ids
  <2>2. PICK i \in T : \A j \in T : i <= j
    BY <2>1, LeastNumber
  <2>3. i \in FirstIn(list, D)
    <3>1. \A j \in D : j < i => list[j].id # list[i].id
      BY <1>1, <2>2
    <3> QED BY <2>2, <3>1 DEF FirstIn
  <2>4. ~list[i].early /\ list[i].id = t
    BY <1>8, <2>2
  <2> QED BY <2>3, <2>4 DEF DeepOf, ShallowOf, DeepIn, ShallowIn
<1> QED BY <1>2, <1>4, <1>5, <1>6, <1>7, <1>8

-----------------------------------------------------------------------------
(* Lists of entries. *)

LEMMA SetToSeqLists ==
  ASSUME NEW S, IsFiniteSet(S)
  PROVE  /\ SetToSeq(S) \in Seq(S)
         /\ \A e \in S : \E i \in DOMAIN SetToSeq(S) : SetToSeq(S)[i] = e
         /\ \A i, j \in DOMAIN SetToSeq(S) : SetToSeq(S)[i] = SetToSeq(S)[j] => i = j
<1> DEFINE n == Cardinality(S)
           f == SetToSeq(S)
<1>1. n \in Nat /\ ExistsBijection(1..n, S)
  BY FS_CardinalityType
<1>2. \E g : g \in [1..n -> S] /\ IsInjective(g)
  BY <1>1 DEF ExistsBijection, Bijection, Injection
<1>3. f \in [1..n -> S] /\ IsInjective(f)
  BY <1>2 DEF SetToSeq
<1> HIDE DEF f
<1>4. f \in Injection(1..n, S)
  BY <1>3 DEF Injection
<1>5. Cardinality(1..n) = n
  BY <1>1, FS_Interval
<1>6. f \in Surjection(1..n, S)
  <2>1. /\ Cardinality(1..n) <= Cardinality(S)
        /\ Cardinality(1..n) = Cardinality(S) <=> f \in Surjection(1..n, S)
    BY <1>4, FS_Injection
  <2> QED BY <1>5, <2>1
<1>7. f \in Seq(S) /\ DOMAIN f = 1..n
  BY <1>1, <1>3
<1>8. \A e \in S : \E i \in 1..n : f[i] = e
  BY <1>6 DEF Surjection
<1>9. \A i, j \in DOMAIN f : f[i] = f[j] => i = j
  BY <1>3 DEF IsInjective
<1> QED BY <1>7, <1>8, <1>9 DEF f

\* One step of FlattenSeq, with the shorter lists g.
Flattened(s, n, g) == [i \in 1..n |-> IF i = 1 THEN s[i] ELSE g[i - 1] \o s[i]]

LEMMA FlattenedExists ==
  ASSUME NEW s, NEW n \in Nat \ {0}
  PROVE  \E g : g = Flattened(s, n, g)
<1> DEFINE Bad == {k \in 1..n : ~ \E g : g = Flattened(s, k, g)}
<1>1. ASSUME Bad # {} PROVE FALSE
  <2>0. Bad \in SUBSET Nat
    OBVIOUS
  <2>1. PICK k \in Bad : \A m \in Bad : k <= m
    <3> HIDE DEF Bad
    <3> QED BY <1>1, <2>0, LeastNumber
  <2>2. CASE k = 1
    <3> DEFINE h == [i \in 1..1 |-> s[i]]
    <3>1. h = Flattened(s, k, h)
      BY <2>2 DEF Flattened
    <3> QED BY <2>1, <3>1
  <2>3. CASE k # 1
    <3>0. k \in Nat
      BY <2>0
    <3>1. k - 1 \in 1..n /\ k - 1 \notin Bad
      BY <2>1, <2>3
    <3>2. PICK g : g = Flattened(s, k - 1, g)
      BY <3>1
    <3> DEFINE h == [i \in 1..k |-> IF i < k THEN g[i] ELSE g[k - 1] \o s[k]]
    <3>3. ASSUME NEW i \in 1..k PROVE h[i] = IF i = 1 THEN s[i] ELSE h[i - 1] \o s[i]
      <4>1. CASE i < k
        <5>1. g[i] = IF i = 1 THEN s[i] ELSE g[i - 1] \o s[i]
          <6>1. i \in 1..(k - 1)
            BY <2>0, <2>1, <4>1
          <6> QED BY <3>2, <6>1 DEF Flattened
        <5>2. i # 1 => h[i - 1] = g[i - 1]
          BY <2>1, <4>1
        <5> QED BY <4>1, <5>1, <5>2
      <4>2. CASE i = k
        <5>1. h[i - 1] = g[k - 1]
          BY <2>1, <2>3, <4>2
        <5>2. h[i] = g[k - 1] \o s[k]
          <6>1. ~(i < k)
            BY <3>0, <4>2
          <6> QED BY <6>1
        <5> HIDE DEF h
        <5> QED BY <2>1, <2>3, <4>2, <5>1, <5>2
      <4> QED BY <2>1, <4>1, <4>2
    <3>4. h = Flattened(s, k, h)
      <4> HIDE <3>2
      <4> QED BY <3>3 DEF Flattened
    <3> QED BY <2>1, <3>4
  <2> QED BY <2>2, <2>3
<1>2. n \notin Bad
  BY <1>1
<1> QED BY <1>2

LEMMA FlattenSeqUnfolds ==
  ASSUME NEW s, NEW n \in Nat \ {0}, Len(s) = n
  PROVE  \E g : g = Flattened(s, n, g) /\ FlattenSeq(s) = g[n]
<1> DEFINE flatten == CHOOSE g : g = Flattened(s, n, g)
<1>1. flatten = Flattened(s, n, flatten)
  BY FlattenedExists
<1>2. FlattenSeq(s) = flatten[n]
  BY DEF FlattenSeq, Flattened
<1> HIDE DEF flatten
<1> QED BY <1>1, <1>2

LEMMA ConcatIndexes ==
  ASSUME NEW f \in Seq(Entry), NEW g \in Seq(Entry)
  PROVE  /\ f \o g \in Seq(Entry)
         /\ Len(f) \in Nat /\ Len(g) \in Nat
         /\ DOMAIN f = 1..Len(f) /\ DOMAIN g = 1..Len(g)
         /\ DOMAIN (f \o g) = 1..(Len(f) + Len(g))
         /\ \A i \in DOMAIN f : i \in DOMAIN (f \o g) /\ (f \o g)[i] = f[i]
         /\ \A i \in DOMAIN g : Len(f) + i \in DOMAIN (f \o g) /\ (f \o g)[Len(f) + i] = g[i]
         /\ \A i \in DOMAIN (f \o g) :
              \/ i \in DOMAIN f /\ (f \o g)[i] = f[i]
              \/ i - Len(f) \in DOMAIN g /\ (f \o g)[i] = g[i - Len(f)]
<1>1. /\ Len(f) \in Nat /\ Len(g) \in Nat
      /\ DOMAIN f = 1..Len(f) /\ DOMAIN g = 1..Len(g)
  BY LenProperties
<1>2. /\ f \o g \in Seq(Entry) /\ Len(f \o g) = Len(f) + Len(g)
      /\ \A i \in 1..(Len(f) + Len(g)) :
           (f \o g)[i] = IF i <= Len(f) THEN f[i] ELSE g[i - Len(f)]
  BY ConcatProperties
<1>3. DOMAIN (f \o g) = 1..(Len(f) + Len(g))
  BY <1>2, LenProperties
<1>4. ASSUME NEW i \in DOMAIN f PROVE i \in DOMAIN (f \o g) /\ (f \o g)[i] = f[i]
  <2>1. i \in 1..(Len(f) + Len(g)) /\ i <= Len(f)
    BY <1>1
  <2> QED BY <1>2, <1>3, <2>1
<1>5. ASSUME NEW i \in DOMAIN g
      PROVE  Len(f) + i \in DOMAIN (f \o g) /\ (f \o g)[Len(f) + i] = g[i]
  <2>1. Len(f) + i \in 1..(Len(f) + Len(g)) /\ ~(Len(f) + i <= Len(f)) /\ Len(f) + i - Len(f) = i
    BY <1>1
  <2> QED BY <1>2, <1>3, <2>1
<1>6. ASSUME NEW i \in DOMAIN (f \o g)
      PROVE  \/ i \in DOMAIN f /\ (f \o g)[i] = f[i]
             \/ i - Len(f) \in DOMAIN g /\ (f \o g)[i] = g[i - Len(f)]
  <2>1. i \in 1..(Len(f) + Len(g))
    BY <1>3
  <2>2. i <= Len(f) => i \in DOMAIN f
    BY <1>1, <2>1
  <2>3. ~(i <= Len(f)) => i - Len(f) \in DOMAIN g
    BY <1>1, <2>1
  <2> QED BY <1>2, <2>1, <2>2, <2>3
<1> QED BY <1>1, <1>2, <1>3, <1>4, <1>5, <1>6

\* f lists what the first k lists of s hold, and no txid twice.
Joins(s, k, f) ==
  /\ f \in Seq(Entry)
  /\ \A i \in DOMAIN f : \E m \in 1..k : \E j \in DOMAIN s[m] : f[i] = s[m][j]
  /\ \A m \in 1..k : \A j \in DOMAIN s[m] : \E i \in DOMAIN f : f[i] = s[m][j]
  /\ \A i, j \in DOMAIN f : f[i].id = f[j].id => i = j

IdsDiffer(s, n) ==
  \A l, m \in 1..n : \A i \in DOMAIN s[l] : \A j \in DOMAIN s[m] :
    s[l][i].id = s[m][j].id => l = m /\ i = j

LEMMA JoinOne ==
  ASSUME NEW n \in Nat \ {0}, NEW s, \A m \in 1..n : s[m] \in Seq(Entry), IdsDiffer(s, n),
         NEW k \in 1..n, k > 1, NEW f, Joins(s, k - 1, f)
  PROVE  Joins(s, k, f \o s[k])
<1> DEFINE g == s[k]
<1>1. f \in Seq(Entry) /\ g \in Seq(Entry)
  BY DEF Joins
<1>2. k - 1 \in 1..n /\ k \notin 1..(k - 1) /\ 1..k = (1..(k - 1)) \cup {k}
  OBVIOUS
<1>3. \A i \in DOMAIN f : \A j \in DOMAIN g : f[i].id # g[j].id
  <2> SUFFICES ASSUME NEW i \in DOMAIN f, NEW j \in DOMAIN g, f[i].id = g[j].id PROVE FALSE
    OBVIOUS
  <2>1. PICK m \in 1..(k - 1) : \E l \in DOMAIN s[m] : f[i] = s[m][l]
    BY DEF Joins
  <2>2. PICK l \in DOMAIN s[m] : f[i] = s[m][l]
    BY <2>1
  <2>3. m \in 1..n
    BY <1>2, <2>1
  <2>4. m = k
    BY <2>2, <2>3 DEF IdsDiffer
  <2> QED BY <1>2, <2>4
<1>4. \A i, j \in DOMAIN g : g[i].id = g[j].id => i = j
  BY DEF IdsDiffer
<1> HIDE DEF g
<1>5. \A i \in DOMAIN (f \o g) : \E m \in 1..k : \E j \in DOMAIN s[m] : (f \o g)[i] = s[m][j]
  <2> SUFFICES ASSUME NEW i \in DOMAIN (f \o g)
               PROVE  \E m \in 1..k : \E j \in DOMAIN s[m] : (f \o g)[i] = s[m][j]
    OBVIOUS
  <2>1. CASE i \in DOMAIN f /\ (f \o g)[i] = f[i]
    <3>1. \E m \in 1..(k - 1) : \E j \in DOMAIN s[m] : f[i] = s[m][j]
      BY <2>1 DEF Joins
    <3> QED BY <1>2, <2>1, <3>1
  <2>2. CASE i - Len(f) \in DOMAIN g /\ (f \o g)[i] = g[i - Len(f)]
    BY <1>2, <2>2 DEF g
  <2> QED BY <1>1, <2>1, <2>2, ConcatIndexes
<1>6. \A m \in 1..k : \A j \in DOMAIN s[m] : \E i \in DOMAIN (f \o g) : (f \o g)[i] = s[m][j]
  <2> SUFFICES ASSUME NEW m \in 1..k, NEW j \in DOMAIN s[m]
               PROVE  \E i \in DOMAIN (f \o g) : (f \o g)[i] = s[m][j]
    OBVIOUS
  <2>1. CASE m \in 1..(k - 1)
    <3>1. PICK i \in DOMAIN f : f[i] = s[m][j]
      BY <2>1 DEF Joins
    <3>2. i \in DOMAIN (f \o g) /\ (f \o g)[i] = f[i]
      BY <1>1, ConcatIndexes
    <3> QED BY <3>1, <3>2
  <2>2. CASE m = k
    <3>1. j \in DOMAIN g /\ s[m][j] = g[j]
      BY <2>2 DEF g
    <3>2. Len(f) + j \in DOMAIN (f \o g) /\ (f \o g)[Len(f) + j] = g[j]
      BY <1>1, <3>1, ConcatIndexes
    <3> QED BY <3>1, <3>2
  <2> QED BY <1>2, <2>1, <2>2
<1>7. \A i, j \in DOMAIN (f \o g) : (f \o g)[i].id = (f \o g)[j].id => i = j
  <2> SUFFICES ASSUME NEW i \in DOMAIN (f \o g), NEW j \in DOMAIN (f \o g),
                      (f \o g)[i].id = (f \o g)[j].id
               PROVE  i = j
    OBVIOUS
  <2>1. /\ \/ i \in DOMAIN f /\ (f \o g)[i] = f[i]
           \/ i - Len(f) \in DOMAIN g /\ (f \o g)[i] = g[i - Len(f)]
        /\ \/ j \in DOMAIN f /\ (f \o g)[j] = f[j]
           \/ j - Len(f) \in DOMAIN g /\ (f \o g)[j] = g[j - Len(f)]
        /\ i \in Int /\ j \in Int /\ Len(f) \in Int
    BY <1>1, ConcatIndexes
  <2>2. \A x, y \in DOMAIN f : f[x].id = f[y].id => x = y
    BY DEF Joins
  <2>3. i - Len(f) = j - Len(f) => i = j
    BY <2>1
  <2> QED BY <1>3, <1>4, <2>1, <2>2, <2>3
<1> QED
  <2>1. f \o g \in Seq(Entry)
    BY <1>1, ConcatIndexes
  <2> QED BY <1>5, <1>6, <1>7, <2>1 DEF Joins, g

LEMMA FlattenSeqJoins ==
  ASSUME NEW n \in Nat \ {0}, NEW s, Len(s) = n,
         \A m \in 1..n : s[m] \in Seq(Entry), IdsDiffer(s, n)
  PROVE  Joins(s, n, FlattenSeq(s))
<1>1. PICK g : g = Flattened(s, n, g) /\ FlattenSeq(s) = g[n]
  BY FlattenSeqUnfolds
<1>2. \A k \in 1..n : g[k] = IF k = 1 THEN s[k] ELSE g[k - 1] \o s[k]
  BY <1>1 DEF Flattened
<1> DEFINE Bad == {k \in 1..n : ~Joins(s, k, g[k])}
<1>3. ASSUME Bad # {} PROVE FALSE
  <2>0. Bad \in SUBSET Nat
    OBVIOUS
  <2>1. PICK k \in Bad : \A m \in Bad : k <= m
    <3> HIDE DEF Bad
    <3> QED BY <1>3, <2>0, LeastNumber
  <2>2. CASE k = 1
    <3>1. g[1] = s[1] /\ 1 \in 1..n
      BY <1>2, <2>1, <2>2
    <3>2. s[1] \in Seq(Entry) /\ \A i, j \in DOMAIN s[1] : s[1][i].id = s[1][j].id => i = j
      BY <3>1 DEF IdsDiffer
    <3>3. Joins(s, 1, s[1])
      BY <3>2 DEF Joins
    <3> QED BY <2>1, <2>2, <3>1, <3>3
  <2>3. CASE k # 1
    <3>1. k \in 1..n /\ k > 1 /\ k - 1 \in 1..n /\ k - 1 \notin Bad
      BY <2>1, <2>3
    <3>2. Joins(s, k - 1, g[k - 1])
      BY <3>1
    <3>3. Joins(s, k, g[k - 1] \o s[k])
      BY <3>1, <3>2, JoinOne
    <3>4. g[k] = g[k - 1] \o s[k]
      BY <1>2, <3>1, <2>3
    <3> QED BY <2>1, <3>3, <3>4
  <2> QED BY <2>2, <2>3
<1>4. n \notin Bad
  BY <1>3
<1> QED BY <1>1, <1>4

LEMMA FlattenSeqTypes ==
  ASSUME NEW n \in Nat \ {0}, NEW s, Len(s) = n, \A m \in 1..n : s[m] \in Seq(Entry)
  PROVE  FlattenSeq(s) \in Seq(Entry)
<1>1. PICK g : g = Flattened(s, n, g) /\ FlattenSeq(s) = g[n]
  BY FlattenSeqUnfolds
<1>2. \A k \in 1..n : g[k] = IF k = 1 THEN s[k] ELSE g[k - 1] \o s[k]
  BY <1>1 DEF Flattened
<1> DEFINE Bad == {k \in 1..n : g[k] \notin Seq(Entry)}
<1>3. ASSUME Bad # {} PROVE FALSE
  <2>0. Bad \in SUBSET Nat
    OBVIOUS
  <2>1. PICK k \in Bad : \A m \in Bad : k <= m
    <3> HIDE DEF Bad
    <3> QED BY <1>3, <2>0, LeastNumber
  <2>2. k \in 1..n /\ k \in Nat
    BY <2>1
  <2>3. CASE k = 1
    BY <1>2, <2>1, <2>2, <2>3
  <2>4. CASE k # 1
    <3>1. k - 1 \in 1..n /\ k - 1 \notin Bad
      <4>1. PICK j : j = k - 1
        OBVIOUS
      <4>2. j \in 1..n /\ j < k
        BY <2>2, <2>4, <4>1
      <4>3. j \notin Bad
        <5> HIDE DEF Bad
        <5> QED BY <2>1, <2>2, <4>2
      <4> QED BY <4>1, <4>2, <4>3
    <3>2. g[k - 1] \in Seq(Entry) /\ s[k] \in Seq(Entry)
      BY <2>2, <3>1
    <3>3. g[k] = g[k - 1] \o s[k]
      BY <1>2, <2>2, <2>4
    <3>4. g[k - 1] \o s[k] \in Seq(Entry)
      BY <3>2, ConcatProperties
    <3> QED BY <2>1, <3>3, <3>4
  <2> QED BY <2>3, <2>4
<1>4. n \in 1..n
  OBVIOUS
<1>5. n \notin Bad
  <2> HIDE DEF Bad
  <2> QED BY <1>3
<1> QED BY <1>1, <1>4, <1>5

LEMMA EntriesAssociate ==
  \A a, b, c \in Seq(Entry) : (a \o b) \o c = a \o (b \o c)
  OBVIOUS

\* A list in front comes out in front.
LEMMA FlattenSeqInFront ==
  ASSUME NEW n \in Nat \ {0}, NEW s, Len(s) = n, \A m \in 1..n : s[m] \in Seq(Entry),
         NEW x \in Seq(Entry),
         NEW t, Len(t) = n + 1, t[1] = x, \A m \in 1..n : t[m + 1] = s[m]
  PROVE  FlattenSeq(t) = x \o FlattenSeq(s)
<1>1. PICK g : g = Flattened(s, n, g) /\ FlattenSeq(s) = g[n]
  BY FlattenSeqUnfolds
<1>2. PICK h : h = Flattened(t, n + 1, h) /\ FlattenSeq(t) = h[n + 1]
  <2>1. n + 1 \in Nat \ {0}
    OBVIOUS
  <2> QED BY <2>1, FlattenSeqUnfolds
<1>3. \A k \in 1..n : g[k] = IF k = 1 THEN s[k] ELSE g[k - 1] \o s[k]
  BY <1>1 DEF Flattened
<1>4. \A k \in 1..(n + 1) : h[k] = IF k = 1 THEN t[k] ELSE h[k - 1] \o t[k]
  BY <1>2 DEF Flattened
<1> DEFINE Bad == {k \in 1..n : ~(g[k] \in Seq(Entry) /\ h[k + 1] = x \o g[k])}
<1>5. ASSUME Bad # {} PROVE FALSE
  <2>0. Bad \in SUBSET Nat
    OBVIOUS
  <2>1. PICK k \in Bad : \A m \in Bad : k <= m
    <3> HIDE DEF Bad
    <3> QED BY <1>5, <2>0, LeastNumber
  <2>2. PICK l : l = k + 1
    OBVIOUS
  <2>3. k \in 1..n /\ l \in 1..(n + 1) /\ l # 1 /\ l - 1 = k
    BY <2>1, <2>2
  <2>4. h[k + 1] = h[k] \o s[k] /\ s[k] \in Seq(Entry)
    <3>1. t[l] = s[k]
      BY <2>2, <2>3
    <3>2. h[l] = h[l - 1] \o t[l]
      BY <1>4, <2>3
    <3> QED BY <2>2, <2>3, <3>1, <3>2
  <2>5. CASE k = 1
    <3>1. g[1] = s[1] /\ h[1] = x
      <4>1. 1 \in 1..n /\ 1 \in 1..(n + 1)
        OBVIOUS
      <4> QED BY <1>3, <1>4, <4>1
    <3> QED BY <2>1, <2>4, <2>5, <3>1
  <2>6. CASE k # 1
    <3>0. PICK j : j = k - 1
      OBVIOUS
    <3>1. j \in 1..n /\ j + 1 = k /\ j < k
      BY <2>3, <2>6, <3>0
    <3>2. j \notin Bad
      <4> HIDE DEF Bad
      <4> QED BY <2>1, <2>3, <3>1
    <3>3. g[k - 1] \in Seq(Entry) /\ h[k] = x \o g[k - 1]
      BY <3>0, <3>1, <3>2
    <3>4. g[k] = g[k - 1] \o s[k]
      BY <1>3, <2>3, <2>6
    <3>5. \A a, b, c \in Seq(Entry) : (a \o b) \o c = a \o (b \o c)
      BY EntriesAssociate
    <3>6. g[k] \in Seq(Entry)
      BY <2>4, <3>3, <3>4, ConcatProperties
    <3>7. h[k + 1] = x \o g[k]
      <4>1. (x \o g[k - 1]) \o s[k] = x \o (g[k - 1] \o s[k])
        BY <2>4, <3>3, <3>5, Zenon
      <4> QED BY <2>4, <3>3, <3>4, <4>1, Zenon
    <3> QED BY <2>1, <3>6, <3>7
  <2> QED BY <2>5, <2>6
<1>6. n \in 1..n
  OBVIOUS
<1>7. n \notin Bad
  <2> HIDE DEF Bad
  <2> QED BY <1>5
<1> QED BY <1>1, <1>2, <1>6, <1>7

-----------------------------------------------------------------------------
(* What the API lists. *)

\* A constant set of payments as entries of one height.
EntriesAt(S, h, early) == {[id |-> t, height |-> h, early |-> early] : t \in S}

LEMMA EntriesAreFinite ==
  ASSUME NEW S \in SUBSET Tx, NEW h, NEW early
  PROVE  IsFiniteSet(EntriesAt(S, h, early))
<1> DEFINE f == [t \in S |-> [id |-> t, height |-> h, early |-> early]]
<1>1. f \in Surjection(S, EntriesAt(S, h, early))
  BY DEF Surjection, EntriesAt
<1>2. IsFiniteSet(S)
  BY ConstantsAssumption, FS_Subset
<1> HIDE DEF f
<1> QED BY <1>1, <1>2, FS_Surjection

\* list has one such entry for each payment of S, and no other.
ListsEach(list, S, h, early) ==
  /\ list \in Seq(Entry)
  /\ \A i \in DOMAIN list :
       list[i].id \in S /\ list[i].height = h /\ list[i].early = early
  /\ \A t \in S : \E i \in DOMAIN list : list[i].id = t
  /\ \A i, j \in DOMAIN list : list[i].id = list[j].id => i = j

LEMMA EntriesAreListed ==
  ASSUME NEW S \in SUBSET Tx, NEW h \in 0..MaxHeight, NEW early \in BOOLEAN
  PROVE  ListsEach(SetToSeq(EntriesAt(S, h, early)), S, h, early)
<1> DEFINE E == EntriesAt(S, h, early)
           list == SetToSeq(E)
<1>1. E \subseteq Entry
  BY DEF EntriesAt, Entry
<1>2. \A e \in E : e.id \in S /\ e.height = h /\ e.early = early
  BY DEF EntriesAt
<1>3. \A t \in S : \E e \in E : e.id = t
  <2> SUFFICES ASSUME NEW t \in S PROVE \E e \in E : e.id = t
    OBVIOUS
  <2>1. [id |-> t, height |-> h, early |-> early] \in E
    BY DEF EntriesAt
  <2> QED BY <2>1
<1>4. \A d, e \in E : d.id = e.id => d = e
  BY DEF EntriesAt
<1>5. IsFiniteSet(E)
  BY EntriesAreFinite
<1> HIDE DEF E
<1>6. /\ list \in Seq(E)
      /\ \A e \in E : \E i \in DOMAIN list : list[i] = e
      /\ \A i, j \in DOMAIN list : list[i] = list[j] => i = j
  BY <1>5, SetToSeqLists
<1> HIDE DEF list
<1>7. \A i \in DOMAIN list : list[i] \in E
  BY <1>6
<1>8. list \in Seq(Entry)
  BY <1>1, <1>6, SeqMonotonic
<1>9. /\ \A i \in DOMAIN list : list[i].id \in S /\ list[i].height = h /\ list[i].early = early
      /\ \A t \in S : \E i \in DOMAIN list : list[i].id = t
      /\ \A i, j \in DOMAIN list : list[i].id = list[j].id => i = j
  BY <1>2, <1>3, <1>4, <1>6, <1>7
<1> QED BY <1>8, <1>9 DEF list, E, ListsEach

LEMMA MempoolIsListed ==
  ASSUME ObservationTypeOK
  PROVE  /\ MempoolEntries \in Seq(Entry)
         /\ \A i \in DOMAIN MempoolEntries :
              /\ MempoolEntries[i].id \in mempool
              /\ MempoolEntries[i].height = 0 /\ ~MempoolEntries[i].early
         /\ \A t \in mempool : \E i \in DOMAIN MempoolEntries : MempoolEntries[i].id = t
<1>1. mempool \in SUBSET Tx /\ 0 \in 0..MaxHeight
  BY ConstantsAssumption DEF ObservationTypeOK
<1>2. MempoolEntries = SetToSeq(EntriesAt(mempool, 0, FALSE))
  BY DEF MempoolEntries, EntriesAt
<1>3. ListsEach(MempoolEntries, mempool, 0, FALSE)
  BY <1>1, <1>2, EntriesAreListed, Zenon
<1> QED BY <1>3 DEF ListsEach

BlockLists == [i \in 1..Len(chain) |-> EntriesOf(Len(chain) + 1 - i)]

\* An entry says of its payment what the blockchain says.
Describes(e) ==
  /\ e.height \in DOMAIN chain
  /\ e.id \in chain[e.height].txs /\ e.early = chain[e.height].early

LEMMA ChainIndexes ==
  ASSUME ObservationTypeOK
  PROVE  /\ Len(chain) \in Nat \ {0} /\ Len(chain) <= MaxHeight
         /\ DOMAIN chain = 1..Len(chain)
         /\ \A h \in 1..Len(chain) : chain[h].txs \in SUBSET Tx /\ chain[h].early \in BOOLEAN
         /\ \A g, h \in 1..Len(chain) : \A t \in chain[g].txs : t \in chain[h].txs => g = h
<1>1. Len(chain) \in 1..MaxHeight /\ MaxHeight \in Nat
  BY ConstantsAssumption DEF ObservationTypeOK
<1>2. DOMAIN chain = 1..Len(chain) /\ \A h \in 1..Len(chain) : chain[h] \in Block
  BY DEF ObservationTypeOK
<1>3. \A h \in 1..Len(chain) : chain[h].txs \in SUBSET Tx /\ chain[h].early \in BOOLEAN
  BY <1>2 DEF Block
<1>4. \A g, h \in 1..Len(chain) : \A t \in chain[g].txs : t \in chain[h].txs => g = h
  <2>1. \A g, h \in 1..Len(chain) : g # h => chain[g].txs \cap chain[h].txs = {}
    BY <1>2 DEF ObservationTypeOK
  <2> QED BY <2>1
<1>5. Len(chain) \in Nat \ {0} /\ Len(chain) <= MaxHeight
  BY <1>1
<1> QED BY <1>2, <1>3, <1>4, <1>5

LEMMA BlockIsListed ==
  ASSUME ObservationTypeOK, NEW h \in 1..Len(chain)
  PROVE  /\ EntriesOf(h) \in Seq(Entry)
         /\ \A i \in DOMAIN EntriesOf(h) :
              Describes(EntriesOf(h)[i]) /\ EntriesOf(h)[i].height = h
         /\ \A t \in chain[h].txs : \E i \in DOMAIN EntriesOf(h) : EntriesOf(h)[i].id = t
         /\ \A i, j \in DOMAIN EntriesOf(h) : EntriesOf(h)[i].id = EntriesOf(h)[j].id => i = j
<1>1. h \in 0..MaxHeight /\ h \in DOMAIN chain
      /\ chain[h].txs \in SUBSET Tx /\ chain[h].early \in BOOLEAN
  <2>1. Len(chain) \in Nat /\ Len(chain) <= MaxHeight /\ MaxHeight \in Nat
    BY ChainIndexes, ConstantsAssumption
  <2> QED BY <2>1, ChainIndexes
<1>2. EntriesOf(h) = SetToSeq(EntriesAt(chain[h].txs, h, chain[h].early))
  BY DEF EntriesOf, EntriesAt
<1>3. ListsEach(EntriesOf(h), chain[h].txs, h, chain[h].early)
  BY <1>1, <1>2, EntriesAreListed
<1> QED BY <1>1, <1>3 DEF ListsEach, Describes

LEMMA ListingDescribes ==
  ASSUME ObservationTypeOK
  PROVE  /\ Listing \in Seq(Entry)
         /\ \A i \in DOMAIN Listing : Describes(Listing[i])
         /\ \A t \in Mined(chain) : \E i \in DOMAIN Listing : Listing[i].id = t
         /\ \A i, j \in DOMAIN Listing : Listing[i].id = Listing[j].id => i = j
<1>1. PICK n : n = Len(chain)
  OBVIOUS
<1>2. n \in Nat \ {0} /\ DOMAIN chain = 1..n
  BY <1>1, ChainIndexes
<1> DEFINE s == BlockLists
<1>3. \A m \in 1..n : s[m] = EntriesOf(n + 1 - m) /\ n + 1 - m \in 1..n
  BY <1>1, <1>2 DEF BlockLists
<1>4. \A m \in 1..n : s[m] \in Seq(Entry)
  BY <1>1, <1>3, BlockIsListed
<1>5. Len(s) = n
  <2>1. s \in [1..n -> Seq(Entry)]
    <3>1. \A m \in 1..n : EntriesOf(n + 1 - m) \in Seq(Entry)
      BY <1>3, <1>4
    <3> QED BY <1>1, <3>1 DEF BlockLists
  <2> HIDE DEF s
  <2> QED BY <1>2, <2>1
<1>6. \A m \in 1..n : \A i \in DOMAIN s[m] : Describes(s[m][i]) /\ s[m][i].height = n + 1 - m
  BY <1>1, <1>3, BlockIsListed
<1>7. \A m \in 1..n : \A i, j \in DOMAIN s[m] : s[m][i].id = s[m][j].id => i = j
  BY <1>1, <1>3, BlockIsListed
<1>8. \A h \in 1..n : \A t \in chain[h].txs : \E m \in 1..n : \E i \in DOMAIN s[m] : s[m][i].id = t
  <2> SUFFICES ASSUME NEW h \in 1..n, NEW t \in chain[h].txs
               PROVE  \E m \in 1..n : \E i \in DOMAIN s[m] : s[m][i].id = t
    OBVIOUS
  <2>1. PICK m : m = n + 1 - h
    OBVIOUS
  <2>2. m \in 1..n /\ n + 1 - m = h
    BY <1>2, <2>1
  <2>3. s[m] = EntriesOf(h)
    BY <1>3, <2>2
  <2>4. \E i \in DOMAIN EntriesOf(h) : EntriesOf(h)[i].id = t
    BY <1>1, BlockIsListed
  <2> QED BY <2>2, <2>3, <2>4
<1> HIDE DEF s
<1>9. IdsDiffer(s, n)
  <2> SUFFICES ASSUME NEW l \in 1..n, NEW m \in 1..n,
                      NEW i \in DOMAIN s[l], NEW j \in DOMAIN s[m], s[l][i].id = s[m][j].id
               PROVE  l = m /\ i = j
    BY DEF IdsDiffer
  <2>1. /\ s[l][i].id \in chain[n + 1 - l].txs /\ n + 1 - l \in 1..n
        /\ s[m][j].id \in chain[n + 1 - m].txs /\ n + 1 - m \in 1..n
    BY <1>3, <1>6 DEF Describes
  <2>2. n + 1 - l = n + 1 - m
    BY <1>1, <2>1, ChainIndexes
  <2>3. l = m
    BY <1>2, <2>2
  <2> QED BY <1>7, <2>3
<1>10. Joins(s, n, FlattenSeq(s))
  BY <1>2, <1>4, <1>5, <1>9, FlattenSeqJoins
<1>11. Listing = FlattenSeq(s)
  BY DEF Listing, BlockLists, s
<1>12. \A i \in DOMAIN Listing : Describes(Listing[i])
  BY <1>6, <1>10, <1>11 DEF Joins
<1>13. \A t \in Mined(chain) : \E i \in DOMAIN Listing : Listing[i].id = t
  <2> SUFFICES ASSUME NEW t \in Mined(chain) PROVE \E i \in DOMAIN Listing : Listing[i].id = t
    OBVIOUS
  <2>1. PICK h \in 1..n : t \in chain[h].txs
    BY <1>2 DEF Mined
  <2>2. PICK m \in 1..n : \E i \in DOMAIN s[m] : s[m][i].id = t
    BY <1>8, <2>1
  <2>3. PICK j \in DOMAIN s[m] : s[m][j].id = t
    BY <2>2
  <2>4. \E i \in DOMAIN Listing : Listing[i] = s[m][j]
    BY <1>10, <1>11 DEF Joins
  <2> QED BY <2>3, <2>4
<1> QED BY <1>10, <1>11, <1>12, <1>13 DEF Joins

\* The listing of any blockchain c.
EntriesIn(c, h) == SetToSeq(EntriesAt(c[h].txs, h, c[h].early))
BlocksIn(c) == [i \in 1..Len(c) |-> EntriesIn(c, Len(c) + 1 - i)]

LEMMA ListingIsOfChain ==
  Listing = FlattenSeq(BlocksIn(chain)) /\ Listing' = FlattenSeq(BlocksIn(chain'))
BY DEF Listing, BlocksIn, EntriesIn, EntriesOf, EntriesAt

LEMMA BlockInFront ==
  ASSUME NEW n \in Nat \ {0}, n < MaxHeight,
         NEW c, Len(c) = n, NEW d, Len(d) = n + 1, \A h \in 1..n : d[h] = c[h],
         \A h \in 1..(n + 1) : d[h].txs \in SUBSET Tx /\ d[h].early \in BOOLEAN
  PROVE  /\ EntriesIn(d, n + 1) \in Seq(Entry)
         /\ FlattenSeq(BlocksIn(c)) \in Seq(Entry)
         /\ FlattenSeq(BlocksIn(d)) = EntriesIn(d, n + 1) \o FlattenSeq(BlocksIn(c))
<1>1. \A h \in 1..(n + 1) : EntriesIn(d, h) \in Seq(Entry)
  <2> SUFFICES ASSUME NEW h \in 1..(n + 1) PROVE EntriesIn(d, h) \in Seq(Entry)
    OBVIOUS
  <2>1. h \in 0..MaxHeight
    BY ConstantsAssumption
  <2>2. ListsEach(EntriesIn(d, h), d[h].txs, h, d[h].early)
    BY <2>1, EntriesAreListed DEF EntriesIn
  <2> QED BY <2>2 DEF ListsEach
<1>2. \A h \in 1..n : EntriesIn(d, h) = EntriesIn(c, h)
  BY DEF EntriesIn
<1>3. PICK s : s = BlocksIn(c)
  OBVIOUS
<1>4. PICK t : t = BlocksIn(d)
  OBVIOUS
<1>5. \A m \in 1..n : n + 1 - m \in 1..n /\ n + 1 - m \in 1..(n + 1)
  OBVIOUS
<1>6. \A m \in 1..n : s[m] = EntriesIn(c, n + 1 - m)
  BY <1>3 DEF BlocksIn
<1>7. \A m \in 1..(n + 1) : t[m] = EntriesIn(d, n + 1 + 1 - m)
  BY <1>4 DEF BlocksIn
<1>8. \A m \in 1..n : s[m] \in Seq(Entry)
  BY <1>1, <1>2, <1>5, <1>6
<1>9. Len(s) = n
  <2>1. s \in [1..n -> Seq(Entry)]
    <3>1. s = [i \in 1..n |-> EntriesIn(c, n + 1 - i)]
      BY <1>3 DEF BlocksIn
    <3> QED BY <1>6, <1>8, <3>1
  <2> QED BY <2>1
<1>10. Len(t) = n + 1
  <2>1. t \in [1..(n + 1) -> Seq(Entry)]
    <3>1. t = [i \in 1..(n + 1) |-> EntriesIn(d, n + 1 + 1 - i)]
      BY <1>4 DEF BlocksIn
    <3>2. \A m \in 1..(n + 1) : n + 1 + 1 - m \in 1..(n + 1)
      OBVIOUS
    <3> QED BY <1>1, <3>1, <3>2
  <2> QED BY <2>1
<1>11. t[1] = EntriesIn(d, n + 1)
  <2>1. 1 \in 1..(n + 1) /\ n + 1 + 1 - 1 = n + 1
    OBVIOUS
  <2> QED BY <1>7, <2>1
<1>12. \A m \in 1..n : t[m + 1] = s[m]
  <2> SUFFICES ASSUME NEW m \in 1..n PROVE t[m + 1] = s[m]
    OBVIOUS
  <2>1. m + 1 \in 1..(n + 1) /\ n + 1 + 1 - (m + 1) = n + 1 - m
    OBVIOUS
  <2> QED BY <1>2, <1>5, <1>6, <1>7, <2>1
<1>13. n + 1 \in 1..(n + 1)
  OBVIOUS
<1>14. FlattenSeq(t) = EntriesIn(d, n + 1) \o FlattenSeq(s)
  BY <1>1, <1>8, <1>9, <1>10, <1>11, <1>12, <1>13, FlattenSeqInFront
<1>15. FlattenSeq(s) \in Seq(Entry)
  BY <1>8, <1>9, FlattenSeqTypes
<1> QED BY <1>1, <1>3, <1>4, <1>13, <1>14, <1>15

\* A new block comes first and moves nothing behind it.
LEMMA NewestFirst ==
  ASSUME ObservationTypeOK, ObservationTypeOK', NEW b, chain' = Append(chain, b)
  PROVE  \E x \in Seq(Entry) : Listing' = x \o Listing
<1>1. PICK n : n = Len(chain)
  OBVIOUS
<1>2. n \in Nat \ {0} /\ DOMAIN chain = 1..n
  BY <1>1, ChainIndexes
<1>3. Len(chain') = n + 1 /\ \A h \in 1..n : chain'[h] = chain[h]
  BY <1>1, <1>2 DEF ObservationTypeOK
<1>4. n < MaxHeight
  <2>1. Len(chain') \in 1..MaxHeight /\ MaxHeight \in Nat
    BY ConstantsAssumption DEF ObservationTypeOK
  <2> QED BY <1>2, <1>3, <2>1
<1>5. \A h \in 1..(n + 1) : chain'[h].txs \in SUBSET Tx /\ chain'[h].early \in BOOLEAN
  <2>1. chain' \in Seq(Block)
    BY DEF ObservationTypeOK
  <2>2. \A h \in 1..(n + 1) : chain'[h] \in Block
    BY <1>3, <2>1
  <2> QED BY <2>2 DEF Block
<1>6. /\ EntriesIn(chain', n + 1) \in Seq(Entry)
      /\ FlattenSeq(BlocksIn(chain')) = EntriesIn(chain', n + 1) \o FlattenSeq(BlocksIn(chain))
  BY <1>1, <1>2, <1>3, <1>4, <1>5, BlockInFront
<1> QED BY <1>6, ListingIsOfChain

-----------------------------------------------------------------------------
(* The observer, whoever asks it. *)

ObserverStep == FetchTip \/ ReadPage \/ ReadMempool \/ RequestFails \/ Rest
ObserverNext == ObserverStep \/ ChainStep
ObserverSpec == ObservationInit /\ [][ObserverNext]_vars

\* The blockchain's part of the types.
ChainTypes ==
  /\ chain \in Seq(Block) /\ Len(chain) \in 1..MaxHeight
  /\ mempool \in SUBSET (Tx \ Mined(chain))
  /\ \A g, h \in DOMAIN chain : g # h => chain[g].txs \cap chain[h].txs = {}

\* Payments the network knows of.
Known == mempool \cup Mined(chain)

LEMMA BroadcastTypes ==
  ASSUME ChainTypes, NEW t \in Tx, Broadcast(t)
  PROVE  ChainTypes' /\ Known' = (Known \ Conflicts(t)) \cup {t}
<1>1. /\ t \notin mempool \cup Mined(chain) /\ Conflicts(t) \cap Mined(chain) = {}
      /\ mempool' = (mempool \ Conflicts(t)) \cup {t} /\ chain' = chain
  BY DEF Broadcast
<1>2. t \notin Conflicts(t)
  BY DEF Conflicts
<1>3. Mined(chain)' = Mined(chain)
  BY <1>1 DEF Mined
<1> QED BY <1>1, <1>2, <1>3 DEF ChainTypes, Known

LEMMA MineTypes ==
  ASSUME ChainTypes, Mine
  PROVE  /\ ChainTypes' /\ Known' = Known
         /\ Len(chain') = Len(chain) + 1
         /\ \A h \in DOMAIN chain : h \in DOMAIN chain' /\ chain'[h] = chain[h]
         /\ DOMAIN chain' = DOMAIN chain \cup {Len(chain) + 1}
         /\ \E b \in Block : /\ chain' = Append(chain, b)
                             /\ chain'[Len(chain) + 1] = b
                             /\ b.txs \subseteq mempool
                             /\ steady' = steady \ b.txs
<1>1. PICK b \in BlockAt(Len(chain) + 1) :
        /\ chain' = Append(chain, b) /\ mempool' = mempool \ b.txs /\ steady' = steady \ b.txs
  BY DEF Mine
<1>2. Len(chain) < MaxHeight /\ Len(chain) \in Nat \ {0} /\ MaxHeight \in Nat
  BY ConstantsAssumption DEF Mine, ChainTypes
<1>3. b \in Block /\ b.txs \subseteq mempool
  BY <1>1 DEF BlockAt, Block, ChainTypes
<1>4. PICK n : n = Len(chain)
  OBVIOUS
<1>5. /\ chain \in Seq(Block) /\ n \in Nat \ {0} /\ DOMAIN chain = 1..n
      /\ Len(chain') = n + 1 /\ chain' \in Seq(Block) /\ DOMAIN chain' = 1..(n + 1)
      /\ chain'[n + 1] = b
      /\ \A h \in 1..n : chain'[h] = chain[h]
  BY <1>1, <1>2, <1>3, <1>4, AppendProperties DEF ChainTypes
<1>6. 1..(n + 1) = (1..n) \cup {n + 1} /\ n + 1 \notin 1..n
  BY <1>5
<1>7. Mined(chain)' = Mined(chain) \cup b.txs
  BY <1>5, <1>6 DEF Mined
<1>8. mempool' \in SUBSET (Tx \ Mined(chain)')
  BY <1>1, <1>7 DEF ChainTypes
<1>9. ASSUME NEW g \in 1..(n + 1), NEW h \in 1..(n + 1), g # h
      PROVE  chain'[g].txs \cap chain'[h].txs = {}
  <2>1. \A k \in 1..n : chain[k].txs \cap b.txs = {}
    BY <1>3, <1>5 DEF ChainTypes, Mined
  <2>2. CASE g \in 1..n /\ h \in 1..n
    BY <1>5, <1>9, <2>2 DEF ChainTypes
  <2>3. CASE g = n + 1 \/ h = n + 1
    BY <1>5, <1>6, <1>9, <2>1, <2>3
  <2> QED BY <1>6, <2>2, <2>3
<1>10. Len(chain') \in 1..MaxHeight
  BY <1>2, <1>4, <1>5
<1>11. ChainTypes'
  BY <1>5, <1>8, <1>9, <1>10 DEF ChainTypes
<1>12. Known' = Known
  BY <1>1, <1>3, <1>7 DEF Known
<1> QED BY <1>1, <1>3, <1>4, <1>5, <1>6, <1>11, <1>12

LEMMA ReorganiseTypes ==
  ASSUME ChainTypes, Reorganise
  PROVE  /\ ChainTypes' /\ Known' = Known
         /\ Len(chain') = Len(chain) + 1
         /\ \A h \in DOMAIN chain : h <= Len(chain) - MaxReorg =>
              h \in DOMAIN chain' /\ chain'[h] = chain[h]
<1>1. PICK d \in 1..MaxReorg :
        LET base == Len(chain) - d IN
        /\ base >= 1 /\ base + d + 1 <= MaxHeight
        /\ LET freed == mempool \cup UNION {chain[h].txs : h \in (base + 1)..Len(chain)} IN
           \E S \in SUBSET freed : \E height \in [S -> (base + 1)..(base + d + 1)] :
             /\ chain' = [h \in 1..(base + d + 1) |->
                  IF h <= base THEN chain[h]
                  ELSE [txs |-> {t \in S : height[t] = h}, early |-> FALSE]]
             /\ mempool' = freed \ S
  BY DEF Reorganise
<1> DEFINE base == Len(chain) - d
           top == base + d + 1
           freed == mempool \cup UNION {chain[h].txs : h \in (base + 1)..Len(chain)}
<1>2. PICK S \in SUBSET freed : \E height \in [S -> (base + 1)..top] :
         /\ chain' = [h \in 1..top |->
              IF h <= base THEN chain[h]
              ELSE [txs |-> {t \in S : height[t] = h}, early |-> FALSE]]
         /\ mempool' = freed \ S
  BY <1>1
<1>3. PICK height \in [S -> (base + 1)..top] :
        /\ chain' = [h \in 1..top |->
             IF h <= base THEN chain[h]
             ELSE [txs |-> {t \in S : height[t] = h}, early |-> FALSE]]
        /\ mempool' = freed \ S
  BY <1>2
<1>4. PICK n : n = Len(chain)
  OBVIOUS
<1>5. /\ n \in Nat \ {0} /\ DOMAIN chain = 1..n /\ MaxHeight \in Nat /\ MaxReorg \in Nat
      /\ chain \in Seq(Block)
  BY <1>4, ConstantsAssumption DEF ChainTypes
<1>6. base \in Nat \ {0} /\ base < n /\ top = n + 1 /\ n + 1 <= MaxHeight
      /\ n - MaxReorg <= base
  BY <1>1, <1>4, <1>5
<1>7. freed = mempool \cup UNION {chain[h].txs : h \in (base + 1)..n}
  BY <1>4
<1> HIDE DEF base, top, freed
<1>8. \A h \in 1..n : chain[h] \in Block
  BY <1>5
<1>9. freed \subseteq Tx
  BY <1>5, <1>6, <1>7, <1>8 DEF ChainTypes, Block
<1>10. /\ DOMAIN chain' = 1..(n + 1)
       /\ \A h \in 1..base : chain'[h] = chain[h]
       /\ \A h \in (base + 1)..(n + 1) :
            chain'[h].txs = {t \in S : height[t] = h} /\ chain'[h] \in Block
  <2>1. \A h \in 1..base : h \in 1..(n + 1) /\ h <= base
    BY <1>5, <1>6
  <2>2. \A h \in (base + 1)..(n + 1) : h \in 1..(n + 1) /\ ~(h <= base)
    BY <1>5, <1>6
  <2>3. \A h \in (base + 1)..(n + 1) :
          chain'[h] = [txs |-> {t \in S : height[t] = h}, early |-> FALSE]
    BY <1>6, <1>3, <2>2
  <2>4. \A h \in 1..base : chain'[h] = chain[h]
    BY <1>6, <1>3, <2>1
  <2>5. \A h : {t \in S : height[t] = h} \in SUBSET Tx
    BY <1>9
  <2>6. DOMAIN chain' = 1..(n + 1)
    BY <1>6, <1>3
  <2>7. \A h \in (base + 1)..(n + 1) : chain'[h].txs = {t \in S : height[t] = h}
    <3> SUFFICES ASSUME NEW h \in (base + 1)..(n + 1)
                 PROVE  chain'[h].txs = {t \in S : height[t] = h}
      OBVIOUS
    <3>1. PICK X : X = {t \in S : height[t] = h}
      OBVIOUS
    <3>2. chain'[h] = [txs |-> X, early |-> FALSE]
      BY <2>3, <3>1
    <3> QED BY <3>1, <3>2
  <2>8. \A h \in (base + 1)..(n + 1) : chain'[h] \in Block
    <3> SUFFICES ASSUME NEW h \in (base + 1)..(n + 1) PROVE chain'[h] \in Block
      OBVIOUS
    <3>1. PICK X : X = {t \in S : height[t] = h}
      OBVIOUS
    <3>2. chain'[h] = [txs |-> X, early |-> FALSE]
      BY <2>3, <3>1
    <3>3. X \in SUBSET Tx
      BY <2>5, <3>1
    <3> QED BY <3>2, <3>3 DEF Block
  <2> QED BY <2>4, <2>6, <2>7, <2>8
<1>11. 1..(n + 1) = (1..base) \cup ((base + 1)..(n + 1)) /\ 1..n = (1..base) \cup ((base + 1)..n)
  BY <1>5, <1>6
<1>12. chain' \in Seq(Block) /\ Len(chain') = n + 1
  <2>1. \A h \in 1..(n + 1) : chain'[h] \in Block
    BY <1>8, <1>10, <1>11
  <2>2. chain' \in [1..(n + 1) -> Block]
    BY <1>6, <1>3, <2>1
  <2> QED BY <1>5, <2>2
<1> DEFINE Kept == UNION {chain[h].txs : h \in 1..base}
<1>13. Mined(chain)' = Kept \cup S
  <2>1. \A t \in S : height[t] \in (base + 1)..(n + 1) /\ t \in chain'[height[t]].txs
    BY <1>6, <1>3, <1>10
  <2>2. \A h \in 1..(n + 1) : h \notin 1..base => chain'[h].txs \subseteq S
    BY <1>10, <1>11
  <2>3. ASSUME NEW t \in Kept \cup S PROVE t \in Mined(chain)'
    <3>1. CASE t \in S
      BY <1>10, <1>11, <2>1, <3>1 DEF Mined
    <3>2. CASE t \in Kept
      BY <1>10, <1>11, <3>2 DEF Mined
    <3> QED BY <2>3, <3>1, <3>2
  <2>4. ASSUME NEW t \in Mined(chain)' PROVE t \in Kept \cup S
    <3>1. PICK h \in 1..(n + 1) : t \in chain'[h].txs
      BY <1>10 DEF Mined
    <3>2. CASE h \in 1..base
      BY <1>10, <3>1, <3>2
    <3>3. CASE h \notin 1..base
      BY <2>2, <3>1, <3>3
    <3> QED BY <3>2, <3>3
  <2> QED BY <2>3, <2>4
<1>14. Mined(chain) = Kept \cup UNION {chain[h].txs : h \in (base + 1)..n}
  BY <1>5, <1>11 DEF Mined
<1>15. Kept \cap freed = {}
  <2>1. Kept \cap mempool = {}
    BY <1>14 DEF ChainTypes
  <2>2. \A g \in 1..base : \A h \in (base + 1)..n : chain[g].txs \cap chain[h].txs = {}
    <3>1. \A g \in 1..base : \A h \in (base + 1)..n : g # h /\ g \in 1..n /\ h \in 1..n
      BY <1>5, <1>6
    <3> QED BY <1>5, <3>1 DEF ChainTypes
  <2> QED BY <1>7, <2>1, <2>2
<1>16. Known' = Known
  BY <1>7, <1>3, <1>13, <1>14 DEF Known
<1>17. mempool' \in SUBSET (Tx \ Mined(chain)')
  BY <1>3, <1>9, <1>13, <1>15
<1>18. ASSUME NEW g \in 1..(n + 1), NEW h \in 1..(n + 1), g # h
       PROVE  chain'[g].txs \cap chain'[h].txs = {}
  <2>1. CASE g \in 1..base /\ h \in 1..base
    BY <1>5, <1>10, <1>11, <1>18, <2>1 DEF ChainTypes
  <2>2. CASE g \notin 1..base /\ h \notin 1..base
    BY <1>10, <1>11, <1>18, <2>2
  <2>3. \A k \in 1..base : \A l \in (base + 1)..(n + 1) : chain'[k].txs \cap chain'[l].txs = {}
    <3> SUFFICES ASSUME NEW k \in 1..base, NEW l \in (base + 1)..(n + 1)
                 PROVE  chain'[k].txs \cap chain'[l].txs = {}
      OBVIOUS
    <3>1. chain'[k].txs \subseteq Kept
      BY <1>10
    <3>2. chain'[l].txs \subseteq freed
      BY <1>10
    <3> QED BY <1>15, <3>1, <3>2
  <2> QED BY <1>11, <2>1, <2>2, <2>3
<1>19. Len(chain') \in 1..MaxHeight
  BY <1>5, <1>6, <1>12
<1>20. ChainTypes'
  BY <1>10, <1>12, <1>17, <1>18, <1>19 DEF ChainTypes
<1>21. \A h \in 1..n : h <= n - MaxReorg => h \in 1..(n + 1) /\ chain'[h] = chain[h]
  <2>1. \A h \in 1..n : h <= n - MaxReorg => h \in 1..base /\ h \in 1..(n + 1)
    BY <1>5, <1>6
  <2> QED BY <1>10, <2>1
<1> QED BY <1>4, <1>5, <1>10, <1>12, <1>16, <1>20, <1>21

LEMMA TypesSplit ==
  ObservationTypeOK <=>
    /\ ChainTypes
    /\ pc \in {"idle", "chain", "mempool", "observed"}
    /\ tip \in 0..Len(chain)
    /\ listed \in Seq(Entry)
    /\ last \in Tx \cup {NoTx}
    /\ result \in [confirmed: Nat, unconfirmed: Nat]
    /\ steady \in SUBSET Tx /\ calm \in BOOLEAN
BY DEF ObservationTypeOK, ChainTypes

LEMMA FirstPage ==
  ASSUME NEW list \in Seq(Entry)
  PROVE  LET page == FirstOf(list, PageSize) IN
         /\ page \in Seq(Entry)
         /\ DOMAIN page \subseteq DOMAIN list
         /\ \A i \in DOMAIN page : page[i] = list[i]
         /\ Len(page) = IF PageSize < Len(list) THEN PageSize ELSE Len(list)
         /\ DOMAIN page = 1..Len(page)
         /\ HasNext(page) => Len(page) = PageSize /\ Len(page) \in DOMAIN page
<1>1. PageSize \in Nat \ {0} /\ Len(list) \in Nat /\ DOMAIN list = 1..Len(list)
  BY ConstantsAssumption
<1>2. PICK n : n = IF PageSize < Len(list) THEN PageSize ELSE Len(list)
  OBVIOUS
<1>3. n \in Nat /\ n <= Len(list) /\ n <= PageSize
  <2>1. CASE PageSize < Len(list)
    BY <1>1, <1>2, <2>1
  <2>2. CASE ~(PageSize < Len(list))
    BY <1>1, <1>2, <2>2
  <2> QED BY <2>1, <2>2
<1>4. PICK page : page = SubSeq(list, 1, n)
  OBVIOUS
<1>5. \A i \in 1..n : list[i] \in Entry
  BY <1>1, <1>3
<1>6. /\ page \in Seq(Entry)
      /\ Len(page) = IF 1 <= n THEN n - 1 + 1 ELSE 0
      /\ \A i \in 1..(n - 1 + 1) : page[i] = list[1 + i - 1]
  BY <1>3, <1>4, <1>5, SubSeqProperties
<1>7. Len(page) = n /\ DOMAIN page = 1..n
  BY <1>3, <1>6
<1>8. \A i \in 1..n : page[i] = list[i]
  BY <1>3, <1>6
<1>9. HasNext(page) => n = PageSize /\ n \in 1..n
  BY <1>1, <1>3, <1>7 DEF HasNext
<1>10. 1..n \subseteq DOMAIN list
  BY <1>1, <1>3
<1>11. FirstOf(list, PageSize) = page
  BY <1>2, <1>4 DEF FirstOf
<1> QED BY <1>2, <1>6, <1>7, <1>8, <1>9, <1>10, <1>11

\* What follows a transaction that is still mined, or everything.
LEMMA RestIsListing ==
  ASSUME ObservationTypeOK, last = NoTx \/ last \in Mined(chain), NEW rest \in After(last)
  PROVE  /\ rest \in Seq(Entry)
         /\ \E k \in 0..Len(Listing) :
              /\ last = NoTx => k = 0
              /\ last # NoTx => k \in DOMAIN Listing /\ Listing[k].id = last
              /\ Len(rest) = Len(Listing) - k
              /\ \A i \in DOMAIN rest : k + i \in DOMAIN Listing /\ rest[i] = Listing[k + i]
<1>1. Listing \in Seq(Entry)
  BY ListingDescribes
<1>2. Len(Listing) \in Nat /\ DOMAIN Listing = 1..Len(Listing)
      /\ \A i \in 1..Len(Listing) : Listing[i] \in Entry
  BY <1>1
<1>3. CASE last = NoTx
  <2>1. rest = Listing
    BY <1>3 DEF After
  <2>2. \A i \in DOMAIN rest : 0 + i \in DOMAIN Listing /\ rest[i] = Listing[0 + i]
    BY <1>2, <2>1
  <2>3. 0 \in 0..Len(Listing) /\ Len(rest) = Len(Listing) - 0
    BY <1>2, <2>1
  <2> QED BY <1>1, <1>3, <2>1, <2>2, <2>3
<1>4. CASE last # NoTx
  <2>1. PICK k \in DOMAIN Listing :
          Listing[k].id = last /\ rest = SubSeq(Listing, k + 1, Len(Listing))
    BY <1>4 DEF After
  <2>2. PICK n : n = Len(Listing)
    OBVIOUS
  <2>3. k \in Nat /\ k >= 1 /\ k <= n /\ n \in Nat
    BY <1>2, <2>2
  <2>4. \A i \in (k + 1)..n : Listing[i] \in Entry
    BY <1>2, <2>2, <2>3
  <2>5. /\ rest \in Seq(Entry)
        /\ Len(rest) = IF k + 1 <= n THEN n - (k + 1) + 1 ELSE 0
        /\ \A i \in 1..(n - (k + 1) + 1) : rest[i] = Listing[k + 1 + i - 1]
    BY <2>1, <2>2, <2>3, <2>4, SubSeqProperties
  <2>6. Len(rest) = n - k /\ DOMAIN rest = 1..(n - k)
    BY <2>3, <2>5
  <2>7. \A i \in 1..(n - k) : k + i \in 1..n /\ rest[i] = Listing[k + i]
    <3> SUFFICES ASSUME NEW i \in 1..(n - k) PROVE k + i \in 1..n /\ rest[i] = Listing[k + i]
      OBVIOUS
    <3>1. k + 1 + i - 1 = k + i /\ i \in 1..(n - (k + 1) + 1) /\ k + i \in 1..n
      BY <2>3
    <3> QED BY <2>5, <3>1
  <2>8. k \in 0..n
    BY <2>3
  <2> QED BY <1>2, <1>4, <2>1, <2>2, <2>5, <2>6, <2>7, <2>8
<1> QED BY <1>3, <1>4

LEMMA RestIsTyped ==
  ASSUME ObservationTypeOK, NEW rest \in After(last)
  PROVE  rest \in Seq(Entry) /\ \A i \in DOMAIN rest : Describes(rest[i])
<1>1. Listing \in Seq(Entry) /\ \A i \in DOMAIN Listing : Describes(Listing[i])
  BY ListingDescribes
<1>2. CASE last = NoTx \/ last \in Mined(chain)
  BY <1>1, <1>2, RestIsListing
<1>3. CASE ~(last = NoTx \/ last \in Mined(chain))
  <2>1. rest = << >> \/ rest = Listing
    BY <1>3 DEF After
  <2>2. CASE rest = << >>
    BY <2>2
  <2> QED BY <1>1, <2>1, <2>2
<1> QED BY <1>2, <1>3

LEMMA InitIsTyped == ObservationInit => ObservationTypeOK
<1> SUFFICES ASSUME ObservationInit PROVE ObservationTypeOK
  OBVIOUS
<1>1. PICK b : b = [txs |-> {}, early |-> TRUE]
  OBVIOUS
<1>2. b \in Block /\ b.txs = {}
  BY <1>1 DEF Block
<1>3. chain = << b >>
  BY <1>1 DEF ObservationInit
<1>4. chain \in Seq(Block) /\ Len(chain) = 1 /\ DOMAIN chain = {1} /\ chain[1] = b
  BY <1>2, <1>3
<1>5. Len(chain) \in 1..MaxHeight
  BY <1>4, ConstantsAssumption
<1>6. Mined(chain) = {}
  BY <1>2, <1>4 DEF Mined
<1>7. ChainTypes
  BY <1>4, <1>5, <1>6 DEF ChainTypes, ObservationInit
<1>8. result \in [confirmed: Nat, unconfirmed: Nat] /\ tip \in 0..Len(chain)
  BY <1>4 DEF ObservationInit, NoResult
<1> QED BY <1>7, <1>8, TypesSplit DEF ObservationInit

-----------------------------------------------------------------------------
(* What the observer knows while it reads. *)

\* No two payments the network knows of spend the same coin, those called steady
\* are among them, and between observations nothing is half read.
ObserverInv ==
  /\ ObservationTypeOK
  /\ \A t \in Known : Conflicts(t) \cap Known = {}
  /\ steady \subseteq Known
  /\ pc \in {"idle", "observed"} => listed = << >> /\ last = NoTx

\* t is listed behind the transaction the next page starts after.
Ahead(t) ==
  \/ last = NoTx
  \/ \E i, j \in DOMAIN Listing : j < i /\ Listing[j].id = last /\ Listing[i].id = t

\* Without a reorganisation, the pages read so far are true of the blockchain,
\* and a mined payment that has not moved is in them or in those to come.
PagesInv ==
  calm =>
    /\ \A i \in DOMAIN listed : Describes(listed[i])
    /\ last = NoTx \/ last \in Mined(chain)
    /\ pc = "chain" => \A t \in steady \cap Mined(chain) : t \in Ids(listed) \/ Ahead(t)
    /\ pc = "mempool" => steady \cap Mined(chain) \subseteq Ids(listed)

LEMMA InitObserves == ObservationInit => ObserverInv /\ PagesInv
<1> SUFFICES ASSUME ObservationInit PROVE ObserverInv /\ PagesInv
  OBVIOUS
<1>1. ObservationTypeOK
  BY InitIsTyped
<1>2. Known = {}
  <2>1. chain = << [txs |-> {}, early |-> TRUE] >> /\ mempool = {}
    BY DEF ObservationInit
  <2>2. Mined(chain) = {}
    BY <2>1 DEF Mined
  <2> QED BY <2>1, <2>2 DEF Known
<1>3. pc = "idle" /\ listed = << >> /\ last = NoTx /\ steady = {}
  BY DEF ObservationInit
<1> QED BY <1>1, <1>2, <1>3 DEF ObserverInv, PagesInv

LEMMA BroadcastObserves ==
  ASSUME ObserverInv, PagesInv, NEW t \in Tx, Broadcast(t)
  PROVE  ObserverInv' /\ PagesInv'
<1>1. /\ mempool' = (mempool \ Conflicts(t)) \cup {t}
      /\ steady' = steady \ Conflicts(t)
      /\ chain' = chain /\ pc' = pc /\ tip' = tip /\ listed' = listed /\ last' = last
      /\ result' = result /\ calm' = calm
  BY DEF Broadcast, observerVars
<1>2. ChainTypes /\ ObservationTypeOK /\ steady \subseteq Known
  BY TypesSplit DEF ObserverInv
<1>3. ChainTypes' /\ Known' = (Known \ Conflicts(t)) \cup {t}
  BY <1>2, BroadcastTypes
<1>4. ObservationTypeOK'
  <2>1. steady' \in SUBSET Tx
    BY <1>1, <1>2, TypesSplit
  <2>2. /\ pc' \in {"idle", "chain", "mempool", "observed"}
        /\ tip' \in 0..Len(chain') /\ listed' \in Seq(Entry) /\ last' \in Tx \cup {NoTx}
        /\ result' \in [confirmed: Nat, unconfirmed: Nat] /\ calm' \in BOOLEAN
    BY <1>1, <1>2, TypesSplit
  <2> QED BY <1>3, <2>1, <2>2 DEF ObservationTypeOK, ChainTypes
<1>5. Known \subseteq Tx
  BY <1>2, ChainIndexes DEF Known, Mined, ChainTypes
<1>6. ASSUME NEW u \in Known', NEW v \in Known', v \in Conflicts(u) PROVE FALSE
  <2>1. u \in Conflicts(v)
    BY <1>3, <1>5, <1>6 DEF Conflicts
  <2>2. u # v
    BY <1>6 DEF Conflicts
  <2>3. CASE u \in Known /\ v \in Known
    BY <1>6, <2>3 DEF ObserverInv
  <2>4. CASE u = t
    BY <1>3, <1>6, <2>2, <2>4
  <2>5. CASE v = t
    BY <1>3, <2>1, <2>2, <2>5
  <2> QED BY <1>3, <2>3, <2>4, <2>5
<1>7. steady' \subseteq Known'
  BY <1>1, <1>2, <1>3
<1>8. ObserverInv'
  <2>1. \A u \in Known' : Conflicts(u) \cap Known' = {}
    BY <1>6
  <2>2. pc' \in {"idle", "observed"} => listed' = << >> /\ last' = NoTx
    BY <1>1 DEF ObserverInv
  <2> QED BY <1>4, <1>7, <2>1, <2>2 DEF ObserverInv, Conflicts
<1>9. Listing' = Listing /\ Mined(chain)' = Mined(chain)
  BY <1>1 DEF Listing, EntriesOf, Mined
<1>10. PagesInv'
  <2> SUFFICES ASSUME calm'
               PROVE  /\ \A i \in DOMAIN listed' : Describes(listed[i])'
                      /\ last' = NoTx \/ last' \in Mined(chain)'
                      /\ pc' = "chain" => \A u \in steady' \cap Mined(chain)' : u \in Ids(listed)' \/ Ahead(u)'
                      /\ pc' = "mempool" => steady' \cap Mined(chain)' \subseteq Ids(listed)'
    BY DEF PagesInv
  <2>1. \A i \in DOMAIN listed' : Describes(listed[i])'
    BY <1>1 DEF PagesInv, Describes
  <2>2. last' = NoTx \/ last' \in Mined(chain)'
    BY <1>1, <1>9 DEF PagesInv
  <2>3. Ids(listed)' = Ids(listed) /\ \A u : Ahead(u)' <=> Ahead(u)
    BY <1>1, <1>9 DEF Ids, Ahead
  <2> QED BY <1>1, <1>9, <2>1, <2>2, <2>3 DEF PagesInv
<1> QED BY <1>8, <1>10

LEMMA MineObserves ==
  ASSUME ObserverInv, PagesInv, Mine
  PROVE  ObserverInv' /\ PagesInv'
<1>1. /\ pc' = pc /\ tip' = tip /\ listed' = listed /\ last' = last
      /\ result' = result /\ calm' = calm
  BY DEF Mine, observerVars
<1>2. ChainTypes /\ ObservationTypeOK /\ steady \subseteq Known
  BY TypesSplit DEF ObserverInv
<1>3. /\ ChainTypes' /\ Known' = Known /\ Len(chain') = Len(chain) + 1
      /\ \A h \in DOMAIN chain : h \in DOMAIN chain' /\ chain'[h] = chain[h]
      /\ DOMAIN chain' = DOMAIN chain \cup {Len(chain) + 1}
  BY <1>2, MineTypes
<1>4. PICK b \in Block : /\ chain' = Append(chain, b) /\ chain'[Len(chain) + 1] = b
                         /\ b.txs \subseteq mempool /\ steady' = steady \ b.txs
  BY <1>2, MineTypes
<1>5. ObservationTypeOK'
  <2>1. steady' \in SUBSET Tx
    BY <1>2, <1>4, TypesSplit
  <2>2. Len(chain) \in Nat /\ tip \in 0..Len(chain)
    BY <1>2, ChainIndexes, TypesSplit
  <2>3. tip' \in 0..Len(chain')
    BY <1>1, <1>3, <2>2
  <2>4. /\ pc' \in {"idle", "chain", "mempool", "observed"}
        /\ listed' \in Seq(Entry) /\ last' \in Tx \cup {NoTx}
        /\ result' \in [confirmed: Nat, unconfirmed: Nat] /\ calm' \in BOOLEAN
    BY <1>1, <1>2, TypesSplit
  <2> QED BY <1>3, <2>1, <2>3, <2>4 DEF ObservationTypeOK, ChainTypes
<1>6. ObserverInv'
  <2>1. \A u \in Known' : Conflicts(u) \cap Known' = {}
    BY <1>3 DEF ObserverInv
  <2>2. pc' \in {"idle", "observed"} => listed' = << >> /\ last' = NoTx
    BY <1>1 DEF ObserverInv
  <2>3. steady' \subseteq Known'
    BY <1>2, <1>3, <1>4
  <2> QED BY <1>5, <2>1, <2>2, <2>3 DEF ObserverInv, Conflicts
<1>7. Mined(chain)' = Mined(chain) \cup b.txs
  <2>1. \A h \in DOMAIN chain' : (h \in DOMAIN chain /\ chain'[h] = chain[h]) \/ chain'[h] = b
    BY <1>3, <1>4
  <2>2. \A h \in DOMAIN chain : h \in DOMAIN chain' /\ chain'[h] = chain[h]
    BY <1>3
  <2>3. Len(chain) + 1 \in DOMAIN chain' /\ chain'[Len(chain) + 1] = b
    BY <1>3, <1>4
  <2>4. Mined(chain)' \subseteq Mined(chain) \cup b.txs
    BY <2>1 DEF Mined
  <2>5. Mined(chain) \cup b.txs \subseteq Mined(chain)'
    BY <2>2, <2>3 DEF Mined
  <2> QED BY <2>4, <2>5
<1>8. PICK x \in Seq(Entry) : Listing' = x \o Listing
  BY <1>2, <1>4, <1>5, NewestFirst
<1>9. \A i \in DOMAIN Listing : Len(x) + i \in DOMAIN Listing' /\ Listing'[Len(x) + i] = Listing[i]
  <2>1. Listing \in Seq(Entry)
    BY <1>2, ListingDescribes
  <2> QED BY <1>8, <2>1, ConcatIndexes
<1>10. ASSUME NEW u, Ahead(u) PROVE Ahead(u)'
  <2>1. CASE last = NoTx
    BY <1>1, <2>1 DEF Ahead
  <2>2. CASE last # NoTx
    <3>1. PICK i, j \in DOMAIN Listing : j < i /\ Listing[j].id = last /\ Listing[i].id = u
      BY <1>10, <2>2 DEF Ahead
    <3>2. /\ Len(x) + i \in DOMAIN Listing' /\ Len(x) + j \in DOMAIN Listing'
          /\ Listing'[Len(x) + i].id = u /\ Listing'[Len(x) + j].id = last'
      BY <1>1, <1>9, <3>1
    <3>3. Len(x) + j < Len(x) + i
      <4>1. Listing \in Seq(Entry)
        BY <1>2, ListingDescribes
      <4>2. i \in Nat /\ j \in Nat /\ Len(x) \in Nat
        BY <3>1, <4>1
      <4> QED BY <3>1, <4>2
    <3> QED BY <3>2, <3>3 DEF Ahead
  <2> QED BY <2>1, <2>2
<1>11. PagesInv'
  <2> SUFFICES ASSUME calm'
               PROVE  /\ \A i \in DOMAIN listed' : Describes(listed[i])'
                      /\ last' = NoTx \/ last' \in Mined(chain)'
                      /\ pc' = "chain" => \A u \in steady' \cap Mined(chain)' : u \in Ids(listed)' \/ Ahead(u)'
                      /\ pc' = "mempool" => steady' \cap Mined(chain)' \subseteq Ids(listed)'
    BY DEF PagesInv
  <2>1. \A i \in DOMAIN listed' : Describes(listed[i])'
    BY <1>1, <1>3 DEF PagesInv, Describes
  <2>2. last' = NoTx \/ last' \in Mined(chain)'
    BY <1>1, <1>7 DEF PagesInv
  <2>3. Ids(listed)' = Ids(listed)
    BY <1>1 DEF Ids
  <2>4. steady' \cap Mined(chain)' \subseteq steady \cap Mined(chain)
    BY <1>4, <1>7
  <2> QED BY <1>1, <1>10, <2>1, <2>2, <2>3, <2>4 DEF PagesInv
<1> QED BY <1>6, <1>11

LEMMA ReorganiseObserves ==
  ASSUME ObserverInv, PagesInv, Reorganise
  PROVE  ObserverInv' /\ PagesInv'
<1>1. /\ pc' = pc /\ tip' = tip /\ listed' = listed /\ last' = last
      /\ result' = result /\ calm' = FALSE
  BY DEF Reorganise, observerVars
<1>2. ChainTypes /\ ObservationTypeOK /\ steady \subseteq Known
  BY TypesSplit DEF ObserverInv
<1>3. ChainTypes' /\ Known' = Known /\ Len(chain') = Len(chain) + 1
  BY <1>2, ReorganiseTypes
<1>4. steady' \subseteq steady
  BY DEF Reorganise
<1>5. ObservationTypeOK'
  <2>1. steady' \in SUBSET Tx
    BY <1>2, <1>4, TypesSplit
  <2>2. Len(chain) \in Nat /\ tip \in 0..Len(chain)
    BY <1>2, ChainIndexes, TypesSplit
  <2>3. tip' \in 0..Len(chain')
    BY <1>1, <1>3, <2>2
  <2>4. /\ pc' \in {"idle", "chain", "mempool", "observed"}
        /\ listed' \in Seq(Entry) /\ last' \in Tx \cup {NoTx}
        /\ result' \in [confirmed: Nat, unconfirmed: Nat] /\ calm' \in BOOLEAN
    BY <1>1, <1>2, TypesSplit
  <2> QED BY <1>3, <2>1, <2>3, <2>4 DEF ObservationTypeOK, ChainTypes
<1>6. ObserverInv'
  <2>1. \A u \in Known' : Conflicts(u) \cap Known' = {}
    BY <1>3 DEF ObserverInv
  <2>2. pc' \in {"idle", "observed"} => listed' = << >> /\ last' = NoTx
    BY <1>1 DEF ObserverInv
  <2>3. steady' \subseteq Known'
    BY <1>2, <1>3, <1>4
  <2> QED BY <1>5, <2>1, <2>2, <2>3 DEF ObserverInv, Conflicts
<1>7. PagesInv'
  BY <1>1 DEF PagesInv
<1> QED BY <1>6, <1>7

LEMMA IdsOfConcat ==
  ASSUME NEW f \in Seq(Entry), NEW g \in Seq(Entry)
  PROVE  /\ Ids(f \o g) = Ids(f) \cup Ids(g)
         /\ \A i \in DOMAIN (f \o g) :
              \/ \E j \in DOMAIN f : (f \o g)[i] = f[j]
              \/ \E j \in DOMAIN g : (f \o g)[i] = g[j]
<1>1. Ids(f) \cup Ids(g) \subseteq Ids(f \o g)
  <2>1. \A i \in DOMAIN f : f[i].id \in Ids(f \o g)
    <3> SUFFICES ASSUME NEW i \in DOMAIN f PROVE f[i].id \in Ids(f \o g)
      OBVIOUS
    <3>1. i \in DOMAIN (f \o g) /\ (f \o g)[i] = f[i]
      BY ConcatIndexes
    <3> QED BY <3>1 DEF Ids
  <2>2. \A i \in DOMAIN g : g[i].id \in Ids(f \o g)
    <3> SUFFICES ASSUME NEW i \in DOMAIN g PROVE g[i].id \in Ids(f \o g)
      OBVIOUS
    <3>1. Len(f) + i \in DOMAIN (f \o g) /\ (f \o g)[Len(f) + i] = g[i]
      BY ConcatIndexes
    <3> QED BY <3>1 DEF Ids
  <2> QED BY <2>1, <2>2 DEF Ids
<1>2. \A i \in DOMAIN (f \o g) :
        \/ \E j \in DOMAIN f : (f \o g)[i] = f[j]
        \/ \E j \in DOMAIN g : (f \o g)[i] = g[j]
  <2> SUFFICES ASSUME NEW i \in DOMAIN (f \o g)
               PROVE  \/ \E j \in DOMAIN f : (f \o g)[i] = f[j]
                      \/ \E j \in DOMAIN g : (f \o g)[i] = g[j]
    OBVIOUS
  <2>1. \/ i \in DOMAIN f /\ (f \o g)[i] = f[i]
        \/ i - Len(f) \in DOMAIN g /\ (f \o g)[i] = g[i - Len(f)]
    BY ConcatIndexes
  <2> QED BY <2>1
<1>3. Ids(f \o g) \subseteq Ids(f) \cup Ids(g)
  BY <1>2 DEF Ids
<1> QED BY <1>1, <1>2, <1>3

LEMMA FetchTipObserves ==
  ASSUME ObserverInv, PagesInv, FetchTip
  PROVE  ObserverInv' /\ PagesInv'
<1>1. /\ pc = "idle" /\ pc' = "chain" /\ tip' = Len(chain)
      /\ steady' = mempool \cup Mined(chain) /\ calm' = TRUE
      /\ chain' = chain /\ mempool' = mempool
      /\ listed' = listed /\ last' = last /\ result' = result
  BY DEF FetchTip, chainVars
<1>2. ObservationTypeOK /\ listed = << >> /\ last = NoTx
  BY <1>1 DEF ObserverInv
<1>3. Mined(chain)' = Mined(chain)
  BY <1>1 DEF Mined
<1>4. steady' = Known /\ Known' = Known
  BY <1>1, <1>3 DEF Known
<1>5. ObservationTypeOK'
  <2>1. Known \in SUBSET Tx
    BY <1>2, ChainIndexes DEF Known, Mined, ObservationTypeOK
  <2>2. Len(chain) \in Nat
    BY <1>2, ChainIndexes
  <2> QED BY <1>1, <1>2, <1>3, <1>4, <2>1, <2>2 DEF ObservationTypeOK
<1>6. ObserverInv'
  <2>1. \A u \in Known' : Conflicts(u) \cap Known' = {}
    BY <1>4 DEF ObserverInv
  <2> QED BY <1>1, <1>4, <1>5, <2>1 DEF ObserverInv, Conflicts
<1>7. PagesInv'
  <2>1. listed' = << >> /\ last' = NoTx /\ pc' = "chain"
    BY <1>1, <1>2
  <2> QED BY <2>1 DEF PagesInv, Ahead
<1> QED BY <1>6, <1>7

LEMMA RestObserves ==
  ASSUME ObserverInv, PagesInv, RequestFails \/ Rest
  PROVE  ObserverInv' /\ PagesInv'
<1>1. /\ pc' = "idle" /\ listed' = << >> /\ last' = NoTx /\ steady' = {} /\ calm' = TRUE
      /\ chain' = chain /\ mempool' = mempool
      /\ tip' \in {0, tip} /\ result' \in {NoResult, result}
  BY DEF RequestFails, Rest, chainVars
<1>2. ObservationTypeOK
  BY DEF ObserverInv
<1>3. Mined(chain)' = Mined(chain)
  BY <1>1 DEF Mined
<1>4. Known' = Known
  BY <1>1, <1>3 DEF Known
<1>5. ObservationTypeOK'
  <2>1. result' \in [confirmed: Nat, unconfirmed: Nat]
    BY <1>1, <1>2 DEF ObservationTypeOK, NoResult
  <2>2. tip' \in 0..Len(chain')
    BY <1>1, <1>2, ChainIndexes DEF ObservationTypeOK
  <2>3. listed' \in Seq(Entry)
    BY <1>1
  <2> QED BY <1>1, <1>2, <1>3, <2>1, <2>2, <2>3 DEF ObservationTypeOK
<1>6. ObserverInv'
  <2>1. \A u \in Known' : Conflicts(u) \cap Known' = {}
    BY <1>4 DEF ObserverInv
  <2> QED BY <1>1, <1>4, <1>5, <2>1 DEF ObserverInv, Conflicts
<1>7. PagesInv'
  BY <1>1 DEF PagesInv
<1> QED BY <1>6, <1>7

\* A page takes the reader on: whoever was ahead is on it, or is still ahead.
LEMMA PageMovesOn ==
  ASSUME ObservationTypeOK, last = NoTx \/ last \in Mined(chain), NEW rest \in After(last),
         NEW t \in Mined(chain), Ahead(t)
  PROVE  LET page == FirstOf(rest, PageSize) IN
         \/ t \in Ids(page)
         \/ /\ HasNext(page)
            /\ \E i, j \in DOMAIN Listing :
                 j < i /\ Listing[j].id = page[Len(page)].id /\ Listing[i].id = t
<1>1. PICK k \in 0..Len(Listing) :
        /\ last = NoTx => k = 0
        /\ last # NoTx => k \in DOMAIN Listing /\ Listing[k].id = last
        /\ Len(rest) = Len(Listing) - k
        /\ \A i \in DOMAIN rest : k + i \in DOMAIN Listing /\ rest[i] = Listing[k + i]
  BY RestIsListing
<1>2. PICK n : n = Len(Listing)
  OBVIOUS
<1>3. Listing \in Seq(Entry) /\ rest \in Seq(Entry)
  BY ListingDescribes, RestIsTyped
<1>4. n \in Nat /\ DOMAIN Listing = 1..n /\ k \in 0..n /\ Len(rest) = n - k /\ DOMAIN rest = 1..(n - k)
  BY <1>1, <1>2, <1>3
<1>5. PICK i \in DOMAIN Listing : Listing[i].id = t /\ i > k
  <2>1. CASE last = NoTx
    <3>1. PICK i \in DOMAIN Listing : Listing[i].id = t
      BY ListingDescribes
    <3> QED BY <1>1, <1>4, <2>1, <3>1
  <2>2. CASE last # NoTx
    <3>1. PICK i, j \in DOMAIN Listing : j < i /\ Listing[j].id = last /\ Listing[i].id = t
      BY <2>2 DEF Ahead
    <3>2. j = k
      BY <1>1, <2>2, <3>1, ListingDescribes
    <3> QED BY <3>1, <3>2, <1>4
  <2> QED BY <2>1, <2>2
<1>6. PICK m : m = i - k
  OBVIOUS
<1>7. m \in 1..(n - k) /\ k + m = i
  BY <1>4, <1>5, <1>6
<1>8. rest[m].id = t
  BY <1>1, <1>4, <1>5, <1>7
<1>9. PICK page : page = FirstOf(rest, PageSize)
  OBVIOUS
<1>10. /\ page \in Seq(Entry) /\ DOMAIN page \subseteq DOMAIN rest
       /\ \A x \in DOMAIN page : page[x] = rest[x]
       /\ Len(page) = IF PageSize < Len(rest) THEN PageSize ELSE Len(rest)
       /\ DOMAIN page = 1..Len(page)
       /\ HasNext(page) => Len(page) = PageSize /\ Len(page) \in DOMAIN page
  BY <1>3, <1>9, FirstPage
<1>11. PageSize \in Nat \ {0}
  BY ConstantsAssumption
<1>12. CASE m \in DOMAIN page
  BY <1>8, <1>9, <1>10, <1>12 DEF Ids
<1>13. CASE m \notin DOMAIN page
  <2>1. Len(page) = PageSize /\ PageSize < m
    <3>1. CASE PageSize < Len(rest)
      BY <1>7, <1>10, <1>11, <1>13, <3>1
    <3>2. CASE ~(PageSize < Len(rest))
      BY <1>4, <1>7, <1>10, <1>13, <3>2
    <3> QED BY <3>1, <3>2
  <2>2. HasNext(page)
    BY <1>11, <2>1 DEF HasNext
  <2>3. PICK j : j = k + PageSize
    OBVIOUS
  <2>4. PageSize \in DOMAIN page /\ PageSize \in DOMAIN rest
    BY <1>10, <2>1, <2>2
  <2>5. j \in DOMAIN Listing /\ page[PageSize] = Listing[j]
    BY <1>1, <1>10, <2>3, <2>4
  <2>6. j < i
    BY <1>4, <1>7, <1>11, <2>1, <2>3
  <2> QED BY <1>5, <1>9, <2>1, <2>2, <2>5, <2>6
<1> QED BY <1>12, <1>13

LEMMA ReadPageObserves ==
  ASSUME ObserverInv, PagesInv, ReadPage
  PROVE  ObserverInv' /\ PagesInv'
<1>1. PICK rest \in After(last) :
        /\ listed' = listed \o FirstOf(rest, PageSize)
        /\ IF HasNext(FirstOf(rest, PageSize))
           THEN /\ last' = FirstOf(rest, PageSize)[Len(FirstOf(rest, PageSize))].id
                /\ pc' = pc
           ELSE pc' = "mempool" /\ last' = last
  BY DEF ReadPage
<1>2. PICK page : page = FirstOf(rest, PageSize)
  OBVIOUS
<1>3. /\ listed' = listed \o page
      /\ HasNext(page) => last' = page[Len(page)].id /\ pc' = pc
      /\ ~HasNext(page) => pc' = "mempool" /\ last' = last
  BY <1>1, <1>2
<1>4. /\ pc = "chain" /\ chain' = chain /\ mempool' = mempool /\ tip' = tip
      /\ result' = result /\ steady' = steady /\ calm' = calm
  BY DEF ReadPage, chainVars, history
<1>5. ObservationTypeOK /\ listed \in Seq(Entry)
  BY DEF ObserverInv, ObservationTypeOK
<1>6. rest \in Seq(Entry) /\ \A i \in DOMAIN rest : Describes(rest[i])
  BY <1>5, RestIsTyped
<1>7. /\ page \in Seq(Entry)
      /\ \A i \in DOMAIN page : Describes(page[i])
      /\ HasNext(page) => Len(page) \in DOMAIN page
  BY <1>2, <1>6, FirstPage
<1>8. HasNext(page) => page[Len(page)].id \in Mined(chain) /\ page[Len(page)].id \in Tx
  <2> SUFFICES ASSUME HasNext(page)
               PROVE  page[Len(page)].id \in Mined(chain) /\ page[Len(page)].id \in Tx
    OBVIOUS
  <2>1. Describes(page[Len(page)]) /\ page[Len(page)] \in Entry
    BY <1>7
  <2> QED BY <2>1 DEF Describes, Mined, Entry
<1>9. listed' \in Seq(Entry) /\ Ids(listed') = Ids(listed) \cup Ids(page)
      /\ \A i \in DOMAIN listed' : \/ \E j \in DOMAIN listed : listed'[i] = listed[j]
                                   \/ \E j \in DOMAIN page : listed'[i] = page[j]
  BY <1>3, <1>5, <1>7, ConcatIndexes, IdsOfConcat
<1>10. Mined(chain)' = Mined(chain) /\ Listing' = Listing
  BY <1>4 DEF Mined, Listing, EntriesOf
<1>11. ObservationTypeOK'
  BY <1>3, <1>4, <1>5, <1>8, <1>9, <1>10 DEF ObservationTypeOK
<1>12. ObserverInv'
  <2>1. Known' = Known
    BY <1>4, <1>10 DEF Known
  <2>2. \A u \in Known' : Conflicts(u) \cap Known' = {}
    BY <2>1 DEF ObserverInv
  <2>3. pc' \in {"chain", "mempool"}
    BY <1>3, <1>4
  <2>4. steady' \subseteq Known'
    BY <1>4, <2>1 DEF ObserverInv
  <2> QED BY <1>11, <2>2, <2>3, <2>4 DEF ObserverInv, Conflicts
<1>13. PagesInv'
  <2> SUFFICES ASSUME calm'
               PROVE  /\ \A i \in DOMAIN listed' : Describes(listed[i])'
                      /\ last' = NoTx \/ last' \in Mined(chain)'
                      /\ pc' = "chain" => \A u \in steady' \cap Mined(chain)' : u \in Ids(listed)' \/ Ahead(u)'
                      /\ pc' = "mempool" => steady' \cap Mined(chain)' \subseteq Ids(listed)'
    BY DEF PagesInv
  <2>1. /\ \A i \in DOMAIN listed : Describes(listed[i])
        /\ last = NoTx \/ last \in Mined(chain)
        /\ \A u \in steady \cap Mined(chain) : u \in Ids(listed) \/ Ahead(u)
    BY <1>4 DEF PagesInv
  <2>2. \A i \in DOMAIN listed' : Describes(listed'[i])
    BY <1>7, <1>9, <2>1
  <2>3. \A i \in DOMAIN listed' : Describes(listed[i])'
    BY <1>4, <2>2 DEF Describes
  <2>4. last' = NoTx \/ last' \in Mined(chain)'
    BY <1>3, <1>8, <1>10, <2>1
  <2>5. ASSUME NEW u \in steady' \cap Mined(chain)'
        PROVE  u \in Ids(listed') \/ (HasNext(page) /\ Ahead(u)')
    <3>1. u \in steady \cap Mined(chain)
      BY <1>4, <1>10, <2>5
    <3>2. CASE u \in Ids(listed)
      BY <1>9, <3>2
    <3>3. CASE Ahead(u)
      <4>1. \/ u \in Ids(page)
            \/ /\ HasNext(page)
               /\ \E i, j \in DOMAIN Listing :
                    j < i /\ Listing[j].id = page[Len(page)].id /\ Listing[i].id = u
        BY <1>2, <1>5, <2>1, <3>1, <3>3, PageMovesOn
      <4>2. CASE u \in Ids(page)
        BY <1>9, <4>2
      <4>3. CASE /\ HasNext(page)
                 /\ \E i, j \in DOMAIN Listing :
                      j < i /\ Listing[j].id = page[Len(page)].id /\ Listing[i].id = u
        BY <1>3, <1>10, <4>3 DEF Ahead
      <4> QED BY <4>1, <4>2, <4>3
    <3> QED BY <2>1, <3>1, <3>2, <3>3
  <2>6. Ids(listed)' = Ids(listed')
    BY DEF Ids
  <2>7. HasNext(page) => pc' = "chain"
    BY <1>3, <1>4
  <2>8. ~HasNext(page) => pc' = "mempool"
    BY <1>3
  <2> QED BY <2>3, <2>4, <2>5, <2>6, <2>7, <2>8
<1> QED BY <1>12, <1>13

LEMMA ReadMempoolObserves ==
  ASSUME ObserverInv, PagesInv, ReadMempool
  PROVE  ObserverInv' /\ PagesInv'
<1>1. /\ pc' = "observed" /\ listed' = << >> /\ last' = NoTx
      /\ chain' = chain /\ mempool' = mempool /\ tip' = tip
      /\ steady' = steady /\ calm' = calm
  BY DEF ReadMempool, chainVars
<1>2. PICK list : list = listed \o MempoolEntries
  OBVIOUS
<1>3. result' = [confirmed |-> Aggregate(list, tip).confirmed,
                 unconfirmed |-> Aggregate(list, tip).unconfirmed]
  BY <1>2 DEF ReadMempool
<1>4. ObservationTypeOK /\ listed \in Seq(Entry)
  BY DEF ObserverInv, ObservationTypeOK
<1>5. list \in Seq(Entry)
  BY <1>2, <1>4, MempoolIsListed, ConcatIndexes
<1>6. DeepOf(list, tip) \subseteq Tx /\ ShallowOf(list, tip) \subseteq Tx
  BY <1>5, AggregateCounts
<1>7. Total(DeepOf(list, tip)) \in Nat /\ Total(ShallowOf(list, tip)) \in Nat
  BY <1>6, TotalAddsUp
<1>8. result' \in [confirmed: Nat, unconfirmed: Nat]
  BY <1>3, <1>5, <1>7, AggregateCounts
<1>9. Mined(chain)' = Mined(chain)
  BY <1>1 DEF Mined
<1>10. listed' \in Seq(Entry)
  BY <1>1
<1>11. ObservationTypeOK'
  BY <1>1, <1>4, <1>8, <1>9, <1>10 DEF ObservationTypeOK
<1>12. ObserverInv'
  <2>1. Known' = Known
    BY <1>1, <1>9 DEF Known
  <2>2. \A u \in Known' : Conflicts(u) \cap Known' = {}
    BY <2>1 DEF ObserverInv
  <2>3. steady' \subseteq Known'
    BY <1>1, <2>1 DEF ObserverInv
  <2> QED BY <1>1, <1>11, <2>2, <2>3 DEF ObserverInv, Conflicts
<1>13. PagesInv'
  BY <1>1 DEF PagesInv
<1> QED BY <1>12, <1>13

LEMMA StutterObserves ==
  ASSUME ObserverInv, PagesInv, UNCHANGED vars
  PROVE  ObserverInv' /\ PagesInv'
<1>1. /\ chain' = chain /\ mempool' = mempool /\ pc' = pc /\ tip' = tip /\ listed' = listed
      /\ last' = last /\ result' = result /\ steady' = steady /\ calm' = calm
  BY DEF vars, chainVars, observerVars, history
<1>2. Mined(chain)' = Mined(chain) /\ Listing' = Listing
  BY <1>1 DEF Mined, Listing, EntriesOf
<1>3. ObservationTypeOK'
  BY <1>1, <1>2 DEF ObserverInv, ObservationTypeOK
<1>4. ObserverInv'
  BY <1>1, <1>2, <1>3 DEF ObserverInv, Known, Conflicts
<1>5. PagesInv'
  <2>1. Ids(listed)' = Ids(listed) /\ \A u : Ahead(u)' <=> Ahead(u)
    BY <1>1, <1>2 DEF Ids, Ahead
  <2>2. (\A i \in DOMAIN listed : Describes(listed[i]))
          => \A i \in DOMAIN listed' : Describes(listed[i])'
    BY <1>1 DEF Describes
  <2> QED BY <1>1, <1>2, <2>1, <2>2 DEF PagesInv
<1> QED BY <1>4, <1>5

LEMMA StepObserves ==
  ASSUME ObserverInv, PagesInv, [ObserverNext]_vars
  PROVE  ObserverInv' /\ PagesInv'
BY BroadcastObserves, MineObserves, ReorganiseObserves, FetchTipObserves, ReadPageObserves,
   ReadMempoolObserves, RestObserves, StutterObserves
   DEF ObserverNext, ObserverStep, ChainStep

-----------------------------------------------------------------------------
(* What is reported. *)

ReportInv == SteadyPaymentsAreCounted /\ ReportIsPayable

\* Payments of steady that count.
SteadyPaid == {t \in steady : ~InEarlyBlock(t)}

LEMMA InitReports == ObservationInit => ReportInv
BY DEF ObservationInit, ReportInv, SteadyPaymentsAreCounted, ReportIsPayable

LEMMA ReadMempoolReports ==
  ASSUME ObserverInv, PagesInv, ReadMempool
  PROVE  ReportInv'
<1>1. /\ pc = "mempool" /\ chain' = chain /\ mempool' = mempool
      /\ steady' = steady /\ calm' = calm
  BY DEF ReadMempool, chainVars
<1>2. PICK list : list = listed \o MempoolEntries
  OBVIOUS
<1>3. result' = [confirmed |-> Aggregate(list, tip).confirmed,
                 unconfirmed |-> Aggregate(list, tip).unconfirmed]
  BY <1>2 DEF ReadMempool
<1>4. ObservationTypeOK /\ listed \in Seq(Entry)
  BY DEF ObserverInv, ObservationTypeOK
<1>5. MempoolEntries \in Seq(Entry)
  BY <1>4, MempoolIsListed
<1>6. /\ list \in Seq(Entry) /\ Ids(list) = Ids(listed) \cup Ids(MempoolEntries)
      /\ \A i \in DOMAIN list : \/ \E j \in DOMAIN listed : list[i] = listed[j]
                                \/ \E j \in DOMAIN MempoolEntries : list[i] = MempoolEntries[j]
  BY <1>2, <1>4, <1>5, ConcatIndexes, IdsOfConcat
<1>7. PICK D, S : D = DeepOf(list, tip) /\ S = ShallowOf(list, tip)
  OBVIOUS
<1>8. /\ Aggregate(list, tip).confirmed = Total(D) /\ Aggregate(list, tip).unconfirmed = Total(S)
      /\ D \cap S = {} /\ D \cup S \subseteq Ids(list) /\ Ids(list) \subseteq Tx
      /\ \A t \in Ids(list) :
           (\A i \in DOMAIN list : list[i].id = t => ~list[i].early) => t \in D \cup S
  BY <1>6, <1>7, AggregateCounts
<1>9. D \in SUBSET Tx /\ S \in SUBSET Tx /\ D \cup S \in SUBSET Tx
  BY <1>8
<1>10. Observed' = Total(D \cup S)
  <2>1. Observed' = Total(D) + Total(S)
    BY <1>3, <1>8 DEF Observed
  <2> QED BY <1>8, <1>9, <2>1, TotalAddsUp
<1>11. Ids(MempoolEntries) = mempool
  BY <1>4, MempoolIsListed DEF Ids
<1>12. calm => SteadyPaid \subseteq D \cup S
  <2> SUFFICES ASSUME calm, NEW t \in SteadyPaid PROVE t \in D \cup S
    OBVIOUS
  <2>1. t \in steady /\ ~InEarlyBlock(t)
    BY DEF SteadyPaid
  <2>2. t \in Ids(list)
    BY <1>1, <1>6, <1>11, <2>1 DEF ObserverInv, PagesInv, Known
  <2>3. ASSUME NEW i \in DOMAIN list, list[i].id = t PROVE ~list[i].early
    <3>1. CASE \E j \in DOMAIN listed : list[i] = listed[j]
      <4>1. Describes(list[i])
        BY <3>1 DEF PagesInv
      <4> QED BY <2>1, <2>3, <4>1 DEF Describes, InEarlyBlock
    <3>2. CASE \E j \in DOMAIN MempoolEntries : list[i] = MempoolEntries[j]
      BY <1>4, <3>2, MempoolIsListed
    <3> QED BY <1>6, <3>1, <3>2
  <2> QED BY <1>8, <2>2, <2>3
<1>13. {t \in steady' : ~InEarlyBlock(t)'} = SteadyPaid
  BY <1>1 DEF SteadyPaid, InEarlyBlock
<1>14. SteadyPaymentsAreCounted'
  <2> SUFFICES ASSUME calm PROVE Observed' >= Total(SteadyPaid)
    BY <1>1, <1>13 DEF SteadyPaymentsAreCounted
  <2>1. SteadyPaid \in SUBSET Tx
    BY <1>4 DEF ObservationTypeOK, SteadyPaid
  <2>2. Total(SteadyPaid) <= Total(D \cup S) /\ Total(SteadyPaid) \in Nat /\ Total(D \cup S) \in Nat
    BY <1>9, <1>12, <2>1, TotalAddsUp
  <2> QED BY <1>10, <2>2
<1>15. ReportIsPayable'
  <2>1. calm => \A t \in D \cup S : Conflicts(t) \cap (D \cup S) = {}
    <3> SUFFICES ASSUME calm PROVE D \cup S \subseteq Known
      BY DEF ObserverInv
    <3>1. \A i \in DOMAIN listed : listed[i].id \in Mined(chain)
      BY DEF PagesInv, Describes, Mined
    <3>2. Ids(listed) \subseteq Mined(chain)
      BY <3>1 DEF Ids
    <3> QED BY <1>6, <1>8, <1>11, <3>2 DEF Known
  <2>2. \E P \in SUBSET Tx : /\ calm => \A t \in P : Conflicts(t) \cap P = {}
                             /\ Total(P) = Observed'
    BY <1>9, <1>10, <2>1
  <2> QED BY <1>1, <2>2 DEF ReportIsPayable
<1> QED BY <1>14, <1>15 DEF ReportInv

\* What the blockchain does to a report that waits to be saved.
LEMMA ChainStepReports ==
  ASSUME ObserverInv, ReportInv,
         \/ ChainStep
         \/ chain' = chain /\ pc' = pc /\ result' = result /\ steady' = steady /\ calm' = calm
  PROVE  ReportInv'
<1>1. /\ pc' = pc /\ result' = result /\ steady' \subseteq steady
      /\ calm' => calm
      /\ calm' => \A t \in steady' : InEarlyBlock(t) => InEarlyBlock(t)'
  <2>1. CASE ChainStep
    <3>1. CASE \E t \in Tx : Broadcast(t)
      BY <3>1 DEF Broadcast, observerVars, InEarlyBlock
    <3>2. CASE Mine
      <4>1. ChainTypes
        BY TypesSplit DEF ObserverInv
      <4>2. \A h \in DOMAIN chain : h \in DOMAIN chain' /\ chain'[h] = chain[h]
        BY <3>2, <4>1, MineTypes
      <4> QED BY <3>2, <4>2 DEF Mine, observerVars, InEarlyBlock
    <3>3. CASE Reorganise
      BY <3>3 DEF Reorganise, observerVars
    <3> QED BY <2>1, <3>1, <3>2, <3>3 DEF ChainStep
  <2>2. CASE chain' = chain /\ pc' = pc /\ result' = result /\ steady' = steady /\ calm' = calm
    BY <2>2 DEF InEarlyBlock
  <2> QED BY <2>1, <2>2
<1>2. Observed' = Observed
  BY <1>1 DEF Observed
<1>3. SteadyPaymentsAreCounted'
  <2> SUFFICES ASSUME pc' = "observed", calm'
               PROVE  Observed' >= Total({t \in steady' : ~InEarlyBlock(t)'})
    BY DEF SteadyPaymentsAreCounted
  <2> DEFINE P == {t \in steady' : ~InEarlyBlock(t)'}
  <2>1. P \subseteq SteadyPaid /\ SteadyPaid \in SUBSET Tx /\ P \in SUBSET Tx
    BY <1>1 DEF SteadyPaid, ObserverInv, ObservationTypeOK
  <2>2. Observed >= Total(SteadyPaid)
    BY <1>1 DEF ReportInv, SteadyPaymentsAreCounted, SteadyPaid
  <2>3. Observed \in Nat
    BY DEF ObserverInv, ObservationTypeOK, Observed
  <2>4. Total(P) <= Total(SteadyPaid) /\ Total(P) \in Nat /\ Total(SteadyPaid) \in Nat
    BY <2>1, TotalAddsUp
  <2>5. Observed' >= Total(P)
    <3> HIDE DEF P
    <3> QED BY <1>2, <2>2, <2>3, <2>4
  <2> QED BY <2>5
<1>4. ReportIsPayable'
  <2> SUFFICES ASSUME pc' = "observed"
               PROVE  \E S \in SUBSET Tx : /\ calm' => \A t \in S : Conflicts(t) \cap S = {}
                                           /\ Total(S) = Observed'
    BY DEF ReportIsPayable
  <2>1. \E S \in SUBSET Tx : /\ calm => \A t \in S : Conflicts(t) \cap S = {}
                             /\ Total(S) = Observed
    BY <1>1 DEF ReportInv, ReportIsPayable
  <2> QED BY <1>1, <1>2, <2>1
<1> QED BY <1>3, <1>4 DEF ReportInv

LEMMA StepReports ==
  ASSUME ObserverInv, PagesInv, ReportInv, [ObserverNext]_vars
  PROVE  ReportInv'
<1>1. CASE FetchTip \/ ReadPage \/ RequestFails \/ Rest
  <2>1. pc' # "observed"
    BY <1>1 DEF FetchTip, ReadPage, RequestFails, Rest
  <2> QED BY <2>1 DEF ReportInv, SteadyPaymentsAreCounted, ReportIsPayable
<1>2. CASE ReadMempool
  BY <1>2, ReadMempoolReports
<1>3. CASE ChainStep
  BY <1>3, ChainStepReports
<1>4. CASE UNCHANGED vars
  <2>1. chain' = chain /\ pc' = pc /\ result' = result /\ steady' = steady /\ calm' = calm
    BY <1>4 DEF vars, chainVars, observerVars, history
  <2> QED BY <2>1, ChainStepReports
<1> QED BY <1>1, <1>2, <1>3, <1>4 DEF ObserverNext, ObserverStep

-----------------------------------------------------------------------------
(* What is called confirmed. *)

\* No reorganisation replaces a block that has all its confirmations.
ReorgsAreShallow == MaxReorg < RequiredConfirmations

\* Payments in blocks that have all their confirmations, and count.
Buried ==
  {t \in Tx : \E h \in DOMAIN chain :
     /\ t \in chain[h].txs /\ ~chain[h].early
     /\ h + RequiredConfirmations <= Len(chain) + 1}

\* An entry that is deep enough at the height of the cycle stays true, and what
\* was reported as confirmed stays buried.
DeepInv ==
  /\ \A i \in DOMAIN listed : IsDeep(listed[i], tip) => Describes(listed[i])
  /\ result.confirmed <= Total(Buried)

LEMMA DeepIsOld ==
  ASSUME NEW e \in Entry, NEW latest \in Nat, IsDeep(e, latest)
  PROVE  e.height # 0 /\ e.height + RequiredConfirmations <= latest + 1
<1>1. RequiredConfirmations \in Nat \ {0} /\ e.height \in Nat
  BY ConstantsAssumption DEF ConfirmationTerms, Entry
<1>2. Confirmations(latest, e.height) >= RequiredConfirmations
  BY DEF IsDeep
<1>3. CASE e.height = 0 \/ e.height > latest
  BY <1>1, <1>2, <1>3 DEF Confirmations
<1>4. CASE ~(e.height = 0 \/ e.height > latest)
  BY <1>1, <1>2, <1>4 DEF Confirmations
<1> QED BY <1>3, <1>4

LEMMA BuriedCounts ==
  ASSUME ObservationTypeOK
  PROVE  Buried \subseteq {t \in Mined(chain) : ~InEarlyBlock(t)}
<1> SUFFICES ASSUME NEW t \in Buried PROVE t \in Mined(chain) /\ ~InEarlyBlock(t)
  OBVIOUS
<1>1. PICK h \in DOMAIN chain : t \in chain[h].txs /\ ~chain[h].early
  BY DEF Buried
<1>2. t \in Mined(chain)
  BY <1>1 DEF Mined
<1>3. ~InEarlyBlock(t)
  BY <1>1, ChainIndexes DEF InEarlyBlock
<1> QED BY <1>2, <1>3

\* Blocks with all their confirmations stay where they are.
LEMMA BuriedStaysPut ==
  ASSUME ReorgsAreShallow, ChainTypes, ChainStep \/ chain' = chain
  PROVE  /\ Len(chain') \in Nat /\ Len(chain') >= Len(chain)
         /\ \A h \in DOMAIN chain : h + RequiredConfirmations <= Len(chain) + 1 =>
              h \in DOMAIN chain' /\ chain'[h] = chain[h]
         /\ Buried \subseteq Buried'
<1>1. Len(chain) \in Nat /\ DOMAIN chain = 1..Len(chain)
  BY DEF ChainTypes
<1>2. MaxReorg \in Nat /\ RequiredConfirmations \in Nat /\ MaxReorg < RequiredConfirmations
  BY ConstantsAssumption DEF ConfirmationTerms, ReorgsAreShallow
<1>3. /\ Len(chain') = Len(chain) \/ Len(chain') = Len(chain) + 1
      /\ \A h \in DOMAIN chain : h + RequiredConfirmations <= Len(chain) + 1 =>
           h \in DOMAIN chain' /\ chain'[h] = chain[h]
  <2>1. CASE chain' = chain \/ \E t \in Tx : Broadcast(t)
    BY <2>1 DEF Broadcast
  <2>2. CASE Mine
    BY <2>2, MineTypes
  <2>3. CASE Reorganise
    <3>1. \A h \in DOMAIN chain :
            h + RequiredConfirmations <= Len(chain) + 1 => h <= Len(chain) - MaxReorg
      BY <1>1, <1>2
    <3> QED BY <2>3, <3>1, ReorganiseTypes
  <2> QED BY <2>1, <2>2, <2>3 DEF ChainStep
<1>4. Len(chain') \in Nat /\ Len(chain') >= Len(chain)
  BY <1>1, <1>3
<1>5. ASSUME NEW t \in Buried PROVE t \in Buried'
  <2>1. PICK h \in DOMAIN chain : /\ t \in chain[h].txs /\ ~chain[h].early
                                  /\ h + RequiredConfirmations <= Len(chain) + 1
    BY <1>5 DEF Buried
  <2>2. h \in DOMAIN chain' /\ chain'[h] = chain[h]
    BY <1>3, <2>1
  <2>3. h + RequiredConfirmations <= Len(chain') + 1
    BY <1>1, <1>2, <1>4, <2>1
  <2>4. t \in Tx
    BY <1>5 DEF Buried
  <2> QED BY <2>1, <2>2, <2>3, <2>4 DEF Buried
<1> QED BY <1>3, <1>4, <1>5

LEMMA InitIsDeep == ObservationInit => DeepInv
<1> SUFFICES ASSUME ObservationInit PROVE DeepInv
  OBVIOUS
<1>1. Buried \in SUBSET Tx
  BY DEF Buried
<1>2. Total(Buried) \in Nat
  BY <1>1, TotalAddsUp
<1>3. listed = << >> /\ result.confirmed = 0
  BY DEF ObservationInit, NoResult
<1> QED BY <1>2, <1>3 DEF DeepInv

\* What is reported as confirmed is of the chain and buried in it.
LEMMA ReadMempoolIsDeep ==
  ASSUME ObserverInv, DeepInv, ReadMempool
  PROVE  result'.confirmed <= Total(Buried)
<1>1. PICK list : list = listed \o MempoolEntries
  OBVIOUS
<1>2. result'.confirmed = Aggregate(list, tip).confirmed
  BY <1>1 DEF ReadMempool
<1>3. ObservationTypeOK /\ listed \in Seq(Entry)
  BY DEF ObserverInv, ObservationTypeOK
<1>4. tip \in Nat /\ Len(chain) \in Nat /\ tip <= Len(chain)
      /\ RequiredConfirmations \in Nat \ {0}
  BY <1>3, ChainIndexes, ConstantsAssumption DEF ObservationTypeOK, ConfirmationTerms
<1>5. MempoolEntries \in Seq(Entry)
  BY <1>3, MempoolIsListed
<1>6. /\ list \in Seq(Entry)
      /\ \A i \in DOMAIN list : \/ \E j \in DOMAIN listed : list[i] = listed[j]
                                \/ \E j \in DOMAIN MempoolEntries : list[i] = MempoolEntries[j]
  BY <1>1, <1>3, <1>5, ConcatIndexes, IdsOfConcat
<1>7. PICK D : D = DeepOf(list, tip)
  OBVIOUS
<1>8. /\ Aggregate(list, tip).confirmed = Total(D) /\ D \subseteq Tx
      /\ \A t \in D : \E i \in DOMAIN list :
           list[i].id = t /\ ~list[i].early /\ IsDeep(list[i], tip)
  BY <1>6, <1>7, AggregateCounts
<1>9. ASSUME NEW t \in D PROVE t \in Buried
  <2>1. PICK i \in DOMAIN list : list[i].id = t /\ ~list[i].early /\ IsDeep(list[i], tip)
    BY <1>8, <1>9
  <2>2. list[i] \in Entry
    BY <1>6, <2>1
  <2>3. list[i].height # 0 /\ list[i].height + RequiredConfirmations <= tip + 1
    BY <1>4, <2>1, <2>2, DeepIsOld
  <2>4. Describes(list[i])
    <3>1. CASE \E j \in DOMAIN listed : list[i] = listed[j]
      BY <2>1, <3>1 DEF DeepInv
    <3>2. CASE \E j \in DOMAIN MempoolEntries : list[i] = MempoolEntries[j]
      BY <1>3, <2>3, <3>2, MempoolIsListed
    <3> QED BY <1>6, <3>1, <3>2
  <2>5. list[i].height \in Nat
    BY <2>2, ConstantsAssumption DEF Entry
  <2>6. list[i].height + RequiredConfirmations <= Len(chain) + 1
    BY <1>4, <2>3, <2>5
  <2> QED BY <1>8, <1>9, <2>1, <2>4, <2>6 DEF Describes, Buried
<1>10. D \in SUBSET Tx /\ Buried \in SUBSET Tx /\ D \subseteq Buried
  BY <1>8, <1>9 DEF Buried
<1> QED BY <1>2, <1>8, <1>10, TotalAddsUp

LEMMA StepIsDeep ==
  ASSUME ReorgsAreShallow, ObserverInv, DeepInv, [ObserverNext]_vars
  PROVE  DeepInv'
<1>1. ObservationTypeOK /\ ChainTypes /\ listed \in Seq(Entry)
      /\ result.confirmed \in Nat /\ tip \in Nat /\ tip <= Len(chain) /\ Len(chain) \in Nat
  BY TypesSplit, ChainIndexes DEF ObserverInv, ObservationTypeOK
<1>2. ChainStep \/ chain' = chain
  BY DEF ObserverNext, ObserverStep, FetchTip, ReadPage, ReadMempool, RequestFails, Rest,
         vars, chainVars
<1>3. /\ Len(chain') \in Nat /\ Len(chain') >= Len(chain)
      /\ \A h \in DOMAIN chain : h + RequiredConfirmations <= Len(chain) + 1 =>
           h \in DOMAIN chain' /\ chain'[h] = chain[h]
      /\ Buried \subseteq Buried'
  BY <1>1, <1>2, BuriedStaysPut
<1>4. Buried \in SUBSET Tx /\ Buried' \in SUBSET Tx
  BY DEF Buried
<1>5. Total(Buried) <= Total(Buried') /\ Total(Buried) \in Nat /\ Total(Buried') \in Nat
  BY <1>3, <1>4, TotalAddsUp
<1>6. result'.confirmed \in {0, result.confirmed} \/ ReadMempool
  BY DEF ObserverNext, ObserverStep, FetchTip, ReadPage, RequestFails, Rest, ChainStep,
         Broadcast, Mine, Reorganise, NoResult, vars, chainVars, observerVars
<1>7. result'.confirmed <= Total(Buried')
  <2>1. CASE result'.confirmed \in {0, result.confirmed}
    BY <1>1, <1>5, <2>1 DEF DeepInv
  <2>2. CASE ReadMempool
    <3>1. result'.confirmed <= Total(Buried)
      BY <2>2, ReadMempoolIsDeep
    <3>2. chain' = chain
      BY <2>2 DEF ReadMempool, chainVars
    <3>3. Buried' = Buried
      BY <3>2 DEF Buried
    <3> QED BY <3>1, <3>3
  <2> QED BY <1>6, <2>1, <2>2
<1>8. ASSUME NEW i \in DOMAIN listed', IsDeep(listed'[i], tip') PROVE Describes(listed[i])'
  <2>1. CASE listed' = << >>
    BY <1>8, <2>1
  <2>2. CASE FetchTip
    <3>1. listed' = << >>
      BY <2>2 DEF FetchTip, ObserverInv
    <3> QED BY <1>8, <3>1
  <2>3. CASE listed' = listed /\ tip' = tip
    <3>1. listed[i] \in Entry /\ Describes(listed[i]) /\ IsDeep(listed[i], tip)
      BY <1>1, <1>8, <2>3 DEF DeepInv
    <3>2. listed[i].height + RequiredConfirmations <= tip + 1
      BY <1>1, <3>1, DeepIsOld
    <3>3. listed[i].height \in Nat /\ RequiredConfirmations \in Nat
      BY <3>1, ConstantsAssumption DEF Entry, ConfirmationTerms
    <3>4. listed[i].height + RequiredConfirmations <= Len(chain) + 1
      BY <1>1, <3>2, <3>3
    <3>5. listed[i].height \in DOMAIN chain'
          /\ chain'[listed[i].height] = chain[listed[i].height]
      BY <1>3, <3>1, <3>4 DEF Describes
    <3> QED BY <2>3, <3>1, <3>5 DEF Describes
  <2>4. CASE ReadPage
    <3>1. PICK rest \in After(last) : listed' = listed \o FirstOf(rest, PageSize)
      BY <2>4 DEF ReadPage
    <3>2. PICK page : page = FirstOf(rest, PageSize)
      OBVIOUS
    <3>3. rest \in Seq(Entry) /\ \A j \in DOMAIN rest : Describes(rest[j])
      BY <1>1, RestIsTyped
    <3>4. page \in Seq(Entry) /\ \A j \in DOMAIN page : Describes(page[j])
      BY <3>2, <3>3, FirstPage
    <3>5. \/ \E j \in DOMAIN listed : listed'[i] = listed[j]
          \/ \E j \in DOMAIN page : listed'[i] = page[j]
      BY <1>1, <1>8, <3>1, <3>2, <3>4, IdsOfConcat
    <3>6. chain' = chain /\ tip' = tip
      BY <2>4 DEF ReadPage, chainVars
    <3>7. Describes(listed'[i])
      BY <1>8, <3>4, <3>5, <3>6 DEF DeepInv
    <3> QED BY <3>6, <3>7 DEF Describes
  <2>5. listed' = << >> \/ FetchTip \/ (listed' = listed /\ tip' = tip) \/ ReadPage
    BY DEF ObserverNext, ObserverStep, ReadMempool, RequestFails, Rest, ChainStep,
           Broadcast, Mine, Reorganise, vars, observerVars
  <2> QED BY <2>1, <2>2, <2>3, <2>4, <2>5
<1>9. \A i \in DOMAIN listed' : IsDeep(listed'[i], tip') => Describes(listed[i])'
  BY <1>8
<1> QED BY <1>7, <1>9 DEF DeepInv, IsDeep, Confirmations

-----------------------------------------------------------------------------
(* What holds of every behaviour of the observer and the blockchain. *)

\* The types, and what the observer knows of the blockchain while it reads.
THEOREM ObserverKnows == ObserverSpec => [](ObserverInv /\ PagesInv)
<1>1. ObservationInit => ObserverInv /\ PagesInv
  BY InitObserves
<1>2. ObserverInv /\ PagesInv /\ [ObserverNext]_vars => (ObserverInv /\ PagesInv)'
  BY StepObserves
<1> QED BY <1>1, <1>2, PTL DEF ObserverSpec

\* A payment that stays where it was is counted, and what is reported could be
\* had, for every set of payments, every page size and every blockchain.
THEOREM ReportsAreTrue ==
  ObserverSpec => [](SteadyPaymentsAreCounted /\ ReportIsPayable)
<1>1. ObservationInit => ReportInv
  BY InitReports
<1>2. ObserverInv /\ PagesInv /\ ReportInv /\ [ObserverNext]_vars => ReportInv'
  BY StepReports
<1>3. ReportInv => SteadyPaymentsAreCounted /\ ReportIsPayable
  BY DEF ReportInv
<1> QED BY <1>1, <1>2, <1>3, ObserverKnows, PTL DEF ObserverSpec

\* While no reorganisation goes as deep as the confirmations asked for, what is
\* reported as confirmed is buried in the blockchain, then and ever after.
THEOREM ConfirmationsAreTrue ==
  ASSUME ReorgsAreShallow
  PROVE  ObserverSpec => []DeepInv
<1>1. ObservationInit => DeepInv
  BY InitIsDeep
<1>2. ObserverInv /\ DeepInv /\ [ObserverNext]_vars => DeepInv'
  BY StepIsDeep
<1> QED BY <1>1, <1>2, ObserverKnows, PTL DEF ObserverSpec

-----------------------------------------------------------------------------
(* The observer in a poll cycle. *)

LEMMA StepOfObserver == [Next]_allVars => [ObserverNext]_vars
<1> SUFFICES ASSUME [Next]_allVars PROVE [ObserverNext]_vars
  OBVIOUS
<1>1. CASE Claim \/ Receive \/ Tick \/ UNCHANGED allVars
  <2>1. UNCHANGED vars
    BY <1>1 DEF Claim, Receive, Tick, allVars
  <2> QED BY <2>1
<1>2. CASE Ask \/ GiveUp \/ Save \/ ChainMoves
  BY <1>2 DEF Ask, GiveUp, Save, ChainMoves, ObserverNext, ObserverStep
<1> QED BY <1>1, <1>2 DEF Next, CycleStep

\* A poller asks, gives up and rests as an observer does, and the chain moves
\* meanwhile as it does anywhere.
THEOREM ReceiptObserves == Spec => ObserverSpec
<1>1. Init => ObservationInit
  BY DEF Init
<1> QED BY <1>1, StepOfObserver, PTL DEF Spec, ObserverSpec

LEMMA ReceiptKnows == Spec => [](ObserverInv /\ PagesInv)
BY ReceiptObserves, ObserverKnows, PTL

\* However blocks arrive between the requests of a poll cycle, a payment that stays
\* where it was is counted, for every set of payments and every page size.
THEOREM SteadyAreCounted == Spec => []SteadyPaymentsAreCounted
BY ReceiptObserves, ReportsAreTrue, PTL

\* What a poll cycle is told could be had: no payment is counted twice, and two that
\* spend the same coin are counted together at most across a reorganisation.
THEOREM ReportsArePayable == Spec => []ReportIsPayable
BY ReceiptObserves, ReportsAreTrue, PTL

-----------------------------------------------------------------------------
(* The row and the cycle. *)

RowTypes ==
  /\ row \in [{Receiver} -> Polling!Tracking]
  /\ due \in [{Receiver} -> 0..1] /\ lease \in [{Receiver} -> 0..2]
  /\ window \in [{Receiver} -> 0..PaymentWindow]
  /\ batch \in [{Cycle} -> SUBSET Polling!Claim]
  /\ work \in [{Cycle} -> Polling!Work \cup {Idle}]
  /\ age \in [{Cycle} -> 0..2]
  /\ faults \in 0..MaxFaults

\* The one claim of a cycle is the row itself; while a work waits to be saved the
\* observer waits with it, and what was observed is what the observer reported.
CycleInv ==
  /\ RowTypes
  /\ \A c \in Polling!Claimed(Cycle) :
       c.tracking = Receipt /\ Receipt.status \in Polling!PollableStatus
  /\ \A c, d \in Polling!Claimed(Cycle) : c = d
  /\ work[Cycle] # Idle => batch[Cycle] = {}
  /\ work[Cycle] # Idle /\ (pc = "observed" \/ work[Cycle].seen # ObserverError) =>
       pc = "observed" /\ work[Cycle].seen = Report

\* What one observation makes of a claimed row.
LEMMA OutcomeOf ==
  ASSUME NEW c \in Polling!Claim, NEW seen \in Polling!Observation \cup {ObserverError},
         c.tracking.status \in Polling!PollableStatus
  PROVE  LET t == Polling!Outcome(c, seen) IN
         /\ t \in Polling!Tracking
         /\ \/ t.confirmed = c.tracking.confirmed
            \/ seen # ObserverError /\ t.confirmed = seen.confirmed
         /\ seen # ObserverError /\ Polling!ObservationValid(seen) /\ seen.observed >= Expected
              => t.status \in {Polling!PaidUnconfirmed, Polling!PaidConfirmed}
<1> USE ReceiptAssumption
<1>1. c.tracking \in Polling!Tracking /\ c.address = Receiver /\ c.windowPassed \in BOOLEAN
  BY DEF Polling!Claim
<1>2. CASE seen = ObserverError \/ ~Polling!ObservationValid(seen)
  <2>1. Polling!Outcome(c, seen) = [c.tracking EXCEPT !.failure = Polling!PollingFailed]
    BY <1>2 DEF Polling!Outcome, Polling!MarkPollingFailure
  <2> QED
    BY <1>1, <1>2, <2>1 DEF Polling!Tracking, Polling!FailureReason
<1>3. CASE seen # ObserverError /\ Polling!ObservationValid(seen)
  <2> DEFINE t == Polling!ApplyObservation(c.tracking, seen, Expected)
  <2>1. seen \in Polling!Observation
    BY <1>3
  <2>2. /\ t.paid <=> c.tracking.paid \/ seen.observed >= Expected
        /\ t.status = Polling!DecideStatus(seen, Expected, t.paid)
        /\ t.confirmed = seen.confirmed
    BY DEF Polling!ApplyObservation
  <2>3. /\ t.status \in Polling!PaymentReceiptStatus
        /\ seen.observed >= Expected => t.status \in {Polling!PaidUnconfirmed, Polling!PaidConfirmed}
    BY <1>3, <2>1, <2>2
    DEF Polling!DecideStatus, Polling!PaymentReceiptStatus, Polling!Observation,
        Polling!ObservationValid
  <2>4. t \in Polling!Tracking
    BY <1>1, <1>3, <2>1, <2>3
    DEF Polling!ApplyObservation, Polling!Tracking, Polling!Observation,
        Polling!ObservationValid, Polling!FailureReason
  <2>5. Polling!Outcome(c, seen) = Polling!ExpireIfDue(t, c.windowPassed)
    BY <1>1, <1>3 DEF Polling!Outcome
  <2>6. CASE t.paid \/ ~c.windowPassed
    BY <1>3, <2>2, <2>3, <2>4, <2>5, <2>6
    DEF Polling!ExpireIfDue, Polling!CanExpireByPaymentWindow
  <2>7. CASE ~t.paid /\ c.windowPassed
    <3>1. Polling!Outcome(c, seen) =
            [t EXCEPT !.status = Polling!FailedExpired, !.failure = Polling!WindowExpired]
      BY <2>5, <2>7 DEF Polling!ExpireIfDue, Polling!CanExpireByPaymentWindow
    <3>2. ~(seen.observed >= Expected)
      BY <2>2, <2>7
    <3> HIDE DEF t
    <3> QED
      BY <1>3, <2>2, <2>4, <3>1, <3>2
      DEF Polling!Tracking, Polling!PaymentReceiptStatus, Polling!FailureReason
  <2> QED BY <2>6, <2>7
<1> QED BY <1>2, <1>3

LEMMA ReportIsTyped ==
  ASSUME ObserverInv
  PROVE  Report \in Polling!Observation /\ Polling!ObservationValid(Report)
<1>1. result.confirmed \in Nat /\ result.unconfirmed \in Nat
  BY DEF ObserverInv, ObservationTypeOK
<1> QED BY <1>1 DEF Report, Observed, Polling!Observation, Polling!ObservationValid

LEMMA CycleInit == Init => CycleInv
<1> SUFFICES ASSUME Init PROVE CycleInv
  OBVIOUS
<1>1. Polling!NewTracking \in Polling!Tracking
  BY DEF Polling!NewTracking, Polling!Tracking, Polling!PaymentReceiptStatus, Polling!FailureReason
<1>2. RowTypes
  BY <1>1, ReceiptAssumption DEF Init, RowTypes
<1>3. Polling!Claimed(Cycle) = {} /\ work[Cycle] = Idle
  BY DEF Init, Polling!Claimed
<1> QED BY <1>2, <1>3 DEF CycleInv

LEMMA ClaimKeepsCycle ==
  ASSUME CycleInv, Claim
  PROVE  CycleInv'
<1>1. Polling!ClaimDue(Cycle) /\ UNCHANGED <<vars, faults>>
  BY DEF Claim
<1>2. PICK S \in SUBSET Polling!ClaimableRows(Cycle) :
        /\ S # {}
        /\ lease' = [a \in {Receiver} |-> IF a \in S THEN 2 ELSE lease[a]]
        /\ batch' = [batch EXCEPT ![Cycle] =
             {[address |-> a, tracking |-> row[a], windowPassed |-> window[a] = 0] : a \in S}]
  BY <1>1 DEF Polling!ClaimDue
<1>3. S = {Receiver} /\ Receipt.status \in Polling!PollableStatus
  BY <1>2 DEF Polling!ClaimableRows, Receipt
<1>4. PICK c : c = [address |-> Receiver, tracking |-> row[Receiver],
                    windowPassed |-> window[Receiver] = 0]
  OBVIOUS
<1>5. c \in Polling!Claim /\ c.tracking = Receipt
  BY <1>4 DEF CycleInv, RowTypes, Polling!Claim, Receipt
<1>6. batch' = [batch EXCEPT ![Cycle] = {c}]
  <2>1. {[address |-> a, tracking |-> row[a], windowPassed |-> window[a] = 0] : a \in S} = {c}
    BY <1>3, <1>4
  <2> QED BY <1>2, <2>1
<1>7. ~Polling!Busy(Cycle) /\ UNCHANGED <<row, due, window, work>>
      /\ age' = [age EXCEPT ![Cycle] = 0]
  BY <1>1 DEF Polling!ClaimDue
<1>8. work[Cycle] = Idle
  BY <1>7 DEF Polling!Busy, Polling!Claimed
<1>9. lease' \in [{Receiver} -> 0..2] /\ age' \in [{Cycle} -> 0..2]
      /\ batch' \in [{Cycle} -> SUBSET Polling!Claim] /\ batch'[Cycle] = {c}
  BY <1>2, <1>3, <1>5, <1>6, <1>7 DEF CycleInv, RowTypes
<1>10. RowTypes'
  BY <1>1, <1>7, <1>9 DEF CycleInv, RowTypes
<1>11. Polling!Claimed(Cycle)' = {c}
  BY <1>7, <1>8, <1>9 DEF Polling!Claimed
<1>12. Receipt' = Receipt /\ work'[Cycle] = Idle
  BY <1>7, <1>8 DEF Receipt
<1> QED BY <1>3, <1>5, <1>10, <1>11, <1>12 DEF CycleInv

\* Observing the claim, with totals or without.
LEMMA ObserveKeepsCycle ==
  ASSUME CycleInv, NEW c \in batch[Cycle],
         NEW seen \in Polling!Observation \cup {ObserverError}, Polling!ObserveAs(Cycle, c, seen),
         faults' \in 0..MaxFaults,
         IF seen = ObserverError THEN pc' # "observed" ELSE pc' = "observed" /\ seen = Report'
  PROVE  CycleInv' /\ UNCHANGED row
<1> USE DEF CycleInv, RowTypes
<1>1. /\ UNCHANGED <<row, due, lease, window, age>> /\ work[Cycle] = Idle
      /\ batch' = [batch EXCEPT ![Cycle] = @ \ {c}]
      /\ work' = [work EXCEPT ![Cycle] = [claim |-> c, seen |-> seen]]
  BY DEF Polling!ObserveAs, Polling!StartWork, Polling!rowVars
<1>2. Polling!Claimed(Cycle) = batch[Cycle] /\ c \in Polling!Claim
  BY <1>1 DEF Polling!Claimed
<1>3. batch[Cycle] = {c}
  BY <1>2
<1>4. batch'[Cycle] = {} /\ batch' \in [{Cycle} -> SUBSET Polling!Claim]
  BY <1>1, <1>3
<1>5. PICK w : w = [claim |-> c, seen |-> seen]
  OBVIOUS
<1>6. w \in Polling!Work /\ w.claim = c /\ w.seen = seen /\ w # Idle
  BY <1>2, <1>5, ReceiptAssumption DEF Polling!Work
<1>7. work'[Cycle] = w /\ work' \in [{Cycle} -> Polling!Work \cup {Idle}]
  BY <1>1, <1>5, <1>6
<1>8. Polling!Claimed(Cycle)' = {c}
  BY <1>4, <1>6, <1>7 DEF Polling!Claimed
<1>9. Receipt' = Receipt
  BY <1>1 DEF Receipt
<1>10. RowTypes'
  BY <1>1, <1>4, <1>7
<1>11. \A d \in Polling!Claimed(Cycle)' :
         d.tracking = Receipt' /\ Receipt'.status \in Polling!PollableStatus
  BY <1>2, <1>3, <1>8, <1>9
<1>12. pc' = "observed" \/ work'[Cycle].seen # ObserverError =>
         pc' = "observed" /\ work'[Cycle].seen = Report'
  BY <1>6, <1>7
<1> QED BY <1>1, <1>4, <1>8, <1>10, <1>11, <1>12

\* Steps that neither take, observe nor save a claim.
LEMMA IdleKeepsCycle ==
  ASSUME CycleInv, RowTypes', UNCHANGED <<row, batch, work>>,
         work[Cycle] = Idle \/ UNCHANGED <<pc, result>>
  PROVE  CycleInv'
<1>1. Polling!Claimed(Cycle)' = Polling!Claimed(Cycle)
  BY DEF Polling!Claimed
<1>2. Receipt' = Receipt
  BY DEF Receipt
<1>3. UNCHANGED <<pc, result>> => Report' = Report
  BY DEF Report, Observed
<1> QED BY <1>1, <1>2, <1>3 DEF CycleInv

LEMMA SaveKeepsCycle ==
  ASSUME ObserverInv, CycleInv, Save
  PROVE  /\ CycleInv'
         /\ \/ row'[Receiver].confirmed = Receipt.confirmed
            \/ row'[Receiver].confirmed = result.confirmed
         /\ pc = "observed" /\ Observed >= Expected
              => row'[Receiver].status \in {Polling!PaidUnconfirmed, Polling!PaidConfirmed}
<1> USE DEF CycleInv, RowTypes
<1>1. Polling!SaveRow(Cycle) /\ UNCHANGED faults
  BY DEF Save
<1>2. /\ work[Cycle] # Idle /\ UNCHANGED <<window, batch>>
      /\ work' = [work EXCEPT ![Cycle] = Idle]
      /\ age' = [age EXCEPT ![Cycle] = IF batch[Cycle] = {} THEN 0 ELSE @]
  BY <1>1 DEF Polling!SaveRow
<1>3. PICK c, seen : c = work[Cycle].claim /\ seen = work[Cycle].seen
  OBVIOUS
<1>4. c \in Polling!Claim /\ seen \in Polling!Observation \cup {ObserverError}
      /\ c.address = Receiver
  BY <1>2, <1>3 DEF Polling!Work, Polling!Claim
<1>5. Polling!Claimed(Cycle) = {c} /\ batch[Cycle] = {}
  BY <1>2, <1>3 DEF Polling!Claimed
<1>6. c.tracking = Receipt /\ c.tracking.status \in Polling!PollableStatus
  BY <1>5
<1>7. PICK t : t = Polling!Outcome(c, seen)
  OBVIOUS
<1>8. /\ row' = [row EXCEPT ![Receiver] = t]
      /\ due' = [due EXCEPT ![Receiver] = IF age[Cycle] < 1 THEN 1 - age[Cycle] ELSE 0]
      /\ lease' = [lease EXCEPT ![Receiver] = 0]
  BY <1>1, <1>3, <1>4, <1>7 DEF Polling!SaveRow
<1>9. /\ t \in Polling!Tracking
      /\ t.confirmed = Receipt.confirmed \/ (seen # ObserverError /\ t.confirmed = seen.confirmed)
      /\ seen # ObserverError /\ Polling!ObservationValid(seen) /\ seen.observed >= Expected
              => t.status \in {Polling!PaidUnconfirmed, Polling!PaidConfirmed}
  BY <1>4, <1>6, <1>7, OutcomeOf
<1>10. row'[Receiver] = t /\ row' \in [{Receiver} -> Polling!Tracking]
  BY <1>8, <1>9
<1>11. due' \in [{Receiver} -> 0..1] /\ lease' \in [{Receiver} -> 0..2]
       /\ age' \in [{Cycle} -> 0..2]
  BY <1>2, <1>8
<1>12. work'[Cycle] = Idle /\ work' \in [{Cycle} -> Polling!Work \cup {Idle}]
  BY <1>2
<1>13. RowTypes'
  BY <1>1, <1>2, <1>10, <1>11, <1>12
<1>14. Polling!Claimed(Cycle)' = {}
  BY <1>2, <1>5, <1>12 DEF Polling!Claimed
<1>15. CycleInv'
  BY <1>12, <1>13, <1>14
<1>16. seen # ObserverError => seen = Report
  BY <1>2, <1>3
<1>17. pc = "observed" => seen = Report /\ seen # ObserverError
  <2>1. pc = "observed" => seen = Report
    BY <1>2, <1>3
  <2> QED BY <2>1, ReportIsTyped, ReceiptAssumption
<1>18. Report.confirmed = result.confirmed /\ Report.observed = Observed
  BY DEF Report
<1> QED BY <1>9, <1>10, <1>15, <1>16, <1>17, <1>18, ReportIsTyped

LEMMA CycleStepInv ==
  ASSUME ObserverInv, CycleInv, [Next]_allVars
  PROVE  CycleInv' /\ (row' # row => Save)
<1>1. CASE Claim
  <2>1. row' = row
    BY <1>1 DEF Claim, Polling!ClaimDue
  <2> QED BY <1>1, <2>1, ClaimKeepsCycle
<1>2. CASE Ask
  <2>1. UNCHANGED receiptVars /\ UNCHANGED faults /\ work[Cycle] = Idle
    BY <1>2 DEF Ask
  <2>2. RowTypes'
    BY <2>1 DEF receiptVars, CycleInv, RowTypes
  <2> QED BY <2>1, <2>2, IdleKeepsCycle DEF receiptVars
<1>3. CASE Receive
  <2>1. PICK c \in batch[Cycle] : Polling!ObserveAs(Cycle, c, Report)
    BY <1>3 DEF Receive
  <2>2. pc' = "observed" /\ Report' = Report /\ faults' = faults
    BY <1>3 DEF Receive, vars, observerVars, Report, Observed
  <2>3. Report \in Polling!Observation /\ Report # ObserverError
    BY ReportIsTyped, ReceiptAssumption
  <2>4. faults' \in 0..MaxFaults
    BY <2>2 DEF CycleInv, RowTypes
  <2>5. CycleInv' /\ UNCHANGED row
    BY <2>1, <2>2, <2>3, <2>4, ObserveKeepsCycle
  <2> QED BY <2>5
<1>4. CASE GiveUp
  <2>1. PICK c \in batch[Cycle] : Polling!ObserveAs(Cycle, c, ObserverError)
    BY <1>4 DEF GiveUp
  <2>2. pc' = "idle"
    BY <1>4 DEF GiveUp, RequestFails
  <2>3. faults' \in 0..MaxFaults
    BY <1>4, ReceiptAssumption DEF GiveUp, CycleInv, RowTypes
  <2>4. CycleInv' /\ UNCHANGED row
    BY <2>1, <2>2, <2>3, ObserveKeepsCycle
  <2> QED BY <2>4
<1>5. CASE Save
  BY <1>5, SaveKeepsCycle
<1>6. CASE ChainMoves
  <2>1. UNCHANGED receiptVars /\ UNCHANGED faults /\ UNCHANGED <<pc, result>>
    BY <1>6 DEF ChainMoves, ChainStep, Broadcast, Mine, Reorganise, observerVars
  <2>2. RowTypes'
    BY <2>1 DEF receiptVars, CycleInv, RowTypes
  <2> QED BY <2>1, <2>2, IdleKeepsCycle DEF receiptVars
<1>7. CASE Tick
  <2>1. /\ UNCHANGED <<row, batch, work, pc, result, faults>>
        /\ due' = [a \in {Receiver} |-> Polling!CountDown(due[a])]
        /\ lease' = [a \in {Receiver} |-> Polling!CountDown(lease[a])]
        /\ window' = [a \in {Receiver} |-> Polling!CountDown(window[a])]
    BY <1>7 DEF Tick, Polling!Tick, vars, observerVars
  <2>2. age' = [w \in {Cycle} |->
          IF Polling!Busy(w) /\ age[w] < Polling!MaxAge THEN age[w] + 1 ELSE age[w]]
    BY <1>7 DEF Tick, Polling!Tick
  <2>3. Polling!MaxAge = 2
    BY DEF Polling!MaxAge
  <2>4. age' \in [{Cycle} -> 0..2]
    BY <2>2, <2>3 DEF CycleInv, RowTypes
  <2>5. due' \in [{Receiver} -> 0..1] /\ lease' \in [{Receiver} -> 0..2]
        /\ window' \in [{Receiver} -> 0..PaymentWindow]
    BY <2>1, ReceiptAssumption DEF Polling!CountDown, CycleInv, RowTypes
  <2>6. RowTypes'
    BY <2>1, <2>4, <2>5 DEF CycleInv, RowTypes
  <2> QED BY <2>1, <2>6, IdleKeepsCycle
<1>8. CASE UNCHANGED allVars
  <2>1. UNCHANGED receiptVars /\ UNCHANGED faults /\ UNCHANGED <<pc, result>>
    BY <1>8 DEF allVars, vars, observerVars
  <2>2. RowTypes'
    BY <2>1 DEF receiptVars, CycleInv, RowTypes
  <2> QED BY <2>1, <2>2, IdleKeepsCycle DEF receiptVars
<1> QED BY <1>1, <1>2, <1>3, <1>4, <1>5, <1>6, <1>7, <1>8 DEF Next, CycleStep

LEMMA CycleHolds == Spec => []CycleInv
<1>1. ObserverInv /\ CycleInv /\ [Next]_allVars => CycleInv'
  BY CycleStepInv
<1> QED BY <1>1, CycleInit, ReceiptKnows, PTL DEF Spec

\* Every variable of the receipt keeps its type, for any amount due, any payment
\* window and any number of failed observations.
THEOREM TypeCorrect == Spec => []TypeOK
<1>1. ObserverInv /\ CycleInv => TypeOK
  BY DEF ObserverInv, CycleInv, RowTypes, TypeOK, Receipt
<1> QED BY <1>1, CycleHolds, ReceiptKnows, PTL

-----------------------------------------------------------------------------
(* What is saved. *)

\* Only what is buried in the chain has been saved as confirmed.
SavedInv == Receipt.confirmed <= Total(Buried)

LEMMA SavedInit == Init => SavedInv
<1> SUFFICES ASSUME Init PROVE SavedInv
  OBVIOUS
<1>1. Receipt.confirmed = 0
  BY DEF Init, Receipt, Polling!NewTracking
<1>2. Buried \in SUBSET Tx
  BY DEF Buried
<1>3. Total(Buried) \in Nat
  BY <1>2, TotalAddsUp
<1> QED BY <1>1, <1>3 DEF SavedInv

LEMMA SavedStep ==
  ASSUME ReorgsAreShallow, ObserverInv, CycleInv, DeepInv, SavedInv, [Next]_allVars
  PROVE  SavedInv'
<1>1. ChainStep \/ chain' = chain
  BY StepOfObserver
  DEF ObserverNext, ObserverStep, FetchTip, ReadPage, ReadMempool, RequestFails, Rest,
      vars, chainVars
<1>2. ChainTypes
  BY TypesSplit DEF ObserverInv
<1>3. Buried \subseteq Buried' /\ Buried \in SUBSET Tx /\ Buried' \in SUBSET Tx
  BY <1>1, <1>2, BuriedStaysPut DEF Buried
<1>4. Total(Buried) <= Total(Buried') /\ Total(Buried) \in Nat /\ Total(Buried') \in Nat
  BY <1>3, TotalAddsUp
<1>5. Receipt.confirmed \in Nat /\ result.confirmed \in Nat
  BY DEF CycleInv, RowTypes, Receipt, Polling!Tracking, ObserverInv, ObservationTypeOK
<1>6. Receipt'.confirmed \in {Receipt.confirmed, result.confirmed}
  <2>1. CASE row' = row
    BY <2>1 DEF Receipt
  <2>2. CASE Save
    BY <2>2, SaveKeepsCycle DEF Receipt
  <2> QED BY <2>1, <2>2, CycleStepInv
<1> QED BY <1>4, <1>5, <1>6 DEF SavedInv, DeepInv

\* While no reorganisation goes as deep as the confirmations asked for, what a
\* receipt calls confirmed is in the chain, then and ever after: whatever is
\* mined, replaced or reorganised between the requests of an observation, and
\* however long it waits to be saved.
THEOREM ConfirmedIsMined ==
  ASSUME ReorgsAreShallow
  PROVE  Spec => []ConfirmedStaysMined
<1>1. Spec => []DeepInv
  BY ReceiptObserves, ConfirmationsAreTrue, PTL
<1>2. ObserverInv /\ CycleInv /\ DeepInv /\ SavedInv /\ [Next]_allVars => SavedInv'
  BY SavedStep
<1>3. ASSUME ObserverInv, CycleInv, SavedInv PROVE ConfirmedStaysMined
  <2> DEFINE P == {t \in Mined(chain) : ~InEarlyBlock(t)}
  <2>1. ObservationTypeOK
    BY <1>3 DEF ObserverInv
  <2>2. Buried \subseteq P /\ Buried \in SUBSET Tx
    BY <2>1, BuriedCounts DEF Buried
  <2>3. P \in SUBSET Tx
    BY <2>1, ChainIndexes DEF Mined
  <2>4. Total(Buried) <= Total(P) /\ Total(Buried) \in Nat /\ Total(P) \in Nat
    <3> HIDE DEF P
    <3> QED BY <2>2, <2>3, TotalAddsUp
  <2>5. Receipt.confirmed \in Nat
    BY <1>3 DEF CycleInv, RowTypes, Receipt, Polling!Tracking
  <2>6. Receipt.confirmed <= Total(P)
    <3> HIDE DEF P
    <3> QED BY <1>3, <2>4, <2>5 DEF SavedInv
  <2> QED BY <2>6 DEF ConfirmedStaysMined, Counting
<1> QED BY <1>1, <1>2, <1>3, SavedInit, CycleHolds, ReceiptKnows, PTL DEF Spec

\* A payment that rests during its observation is paid once the cycle has saved,
\* for any amount due, any page size and any chain.
THEOREM RestingPaymentsArePaid == Spec => RestingPaymentIsPaid
<1>1. ASSUME ObserverInv, CycleInv, SteadyPaymentsAreCounted, [Next]_allVars
      PROVE  [work[Cycle] # Idle /\ work'[Cycle] = Idle =>
                (pc = "observed" /\ calm /\ Counting(steady) >= Expected
                   => row'[Receiver].status \in {Polling!PaidUnconfirmed, Polling!PaidConfirmed})]_allVars
  <2> SUFFICES ASSUME work[Cycle] # Idle, work'[Cycle] = Idle,
                      pc = "observed", calm, Counting(steady) >= Expected
               PROVE  row'[Receiver].status \in {Polling!PaidUnconfirmed, Polling!PaidConfirmed}
    OBVIOUS
  <2>1. Save
    BY <1>1 DEF Next, CycleStep, Claim, Polling!ClaimDue, Ask, Receive, GiveUp, ChainMoves, Tick,
                Polling!Tick, Polling!ObserveAs, Polling!StartWork, receiptVars, allVars
  <2>2. Observed >= Counting(steady)
    BY <1>1 DEF SteadyPaymentsAreCounted, Counting
  <2>3. Observed \in Nat
    BY <1>1 DEF ObserverInv, ObservationTypeOK, Observed
  <2>4. {t \in steady : ~InEarlyBlock(t)} \in SUBSET Tx
    BY <1>1 DEF ObserverInv, ObservationTypeOK
  <2>5. Counting(steady) \in Nat
    <3> DEFINE P == {t \in steady : ~InEarlyBlock(t)}
    <3>1. P \in SUBSET Tx
      BY <2>4
    <3>2. Total(P) \in Nat
      <4> HIDE DEF P
      <4> QED BY <3>1, TotalAddsUp
    <3> QED BY <3>2 DEF Counting
  <2>6. Observed >= Expected
    BY <2>2, <2>3, <2>5, ReceiptAssumption
  <2> QED BY <1>1, <2>1, <2>6, SaveKeepsCycle
<1> QED BY <1>1, CycleHolds, ReceiptKnows, SteadyAreCounted, PTL DEF Spec, RestingPaymentIsPaid
=============================================================================
