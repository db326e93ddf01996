------------------------- MODULE ClientPagesProofs -------------------------
(***************************************************************************)
(* Theorems about ClientPages, for any clients, ids, filters, page sizes   *)
(* and starting queries.                                                   *)
(***************************************************************************)
EXTENDS ClientPages, FiniteSetTheorems, TLAPS

TypeOK ==
    /\ clients \in SUBSET Ids
    /\ query = [p \in Params |-> query[p]]
    /\ seen \in [Ids -> Nat]
    /\ walk \in {"on", "ended", "refused"}
    /\ come \in SUBSET Ids
    /\ gone \in SUBSET Ids

(* No id is used twice, and only clients that have existed were shown.     *)
History ==
    /\ clients \subseteq Seed \cup come
    /\ Seed \ gone \subseteq clients
    /\ clients \cap gone = {}
    /\ gone \subseteq Seed \cup come
    /\ \A i \in Ids \ (Seed \cup come) : seen[i] = 0

(* Clients that were there all along and that the walk has passed by.      *)
Passed == {i \in Stayed : seen[i] = 0 /\ Rank(i, Listed(query)) <= Offset(query)}

(* Clients that were shown and that the walk will meet once more.          *)
Ahead == {i \in Listed(query) : seen[i] > 0 /\ Rank(i, Listed(query)) > Offset(query)}

(* A walk whose first query is refused.                                    *)
Unstarted ==
    /\ ~ValidFilter(query)
    /\ walk \in {"on", "refused"}
    /\ Again = {}

(* A walk that is under way, or was.                                       *)
Started ==
    /\ Offset(query) \in Nat
    /\ walk = "on" =>
        /\ Cardinality(Passed) <= Cardinality(Matching(gone))
        /\ Cardinality(Again) + Cardinality(Ahead) <= Cardinality(Matching(come))

Inv ==
    /\ TypeOK
    /\ History
    /\ IsFiniteSet(Again)
    /\ Unstarted \/ Started
    /\ MissedAreDeletions
    /\ RepeatsAreCreations

-----------------------------------------------------------------------------
(* Counting.                                                               *)

(* Sets of ids are finite.                                                 *)
LEMMA FiniteIds ==
    ASSUME NEW S \in SUBSET Ids
    PROVE  IsFiniteSet(S) /\ Cardinality(S) \in Nat
BY IdsAssumption, FS_Subset, FS_CardinalityType

(* A part has no more elements.                                            *)
LEMMA FewerIds ==
    ASSUME NEW T \in SUBSET Ids, NEW S \in SUBSET T
    PROVE  Cardinality(S) <= Cardinality(T)
BY FiniteIds, FS_Subset

(* Sets that are apart add up.                                             *)
LEMMA CountApart ==
    ASSUME NEW S, NEW T, IsFiniteSet(S), IsFiniteSet(T), S \cap T = {}
    PROVE  /\ IsFiniteSet(S \cup T)
           /\ Cardinality(S \cup T) = Cardinality(S) + Cardinality(T)
<1>1. Cardinality(S \cap T) = 0
  BY FS_EmptySet
<1>2. Cardinality(S) \in Nat /\ Cardinality(T) \in Nat
  BY FS_CardinalityType
<1>3. /\ IsFiniteSet(S \cup T)
      /\ Cardinality(S \cup T) = Cardinality(S) + Cardinality(T) - Cardinality(S \cap T)
  BY FS_Union
<1> QED
  BY <1>1, <1>2, <1>3

(* One more element, at most.                                              *)
LEMMA OneMore ==
    ASSUME NEW T \in SUBSET Ids, NEW S \in SUBSET Ids, NEW x, S \subseteq T \cup {x}
    PROVE  Cardinality(S) <= Cardinality(T) + 1
<1>1. IsFiniteSet(T) /\ Cardinality(T) \in Nat
  BY FiniteIds
<1>2. /\ IsFiniteSet(T \cup {x})
      /\ Cardinality(T \cup {x}) \in {Cardinality(T), Cardinality(T) + 1}
  BY <1>1, FS_AddElement
<1>3. Cardinality(S) <= Cardinality(T \cup {x})
  BY <1>2, FS_Subset
<1>4. Cardinality(S) \in Nat
  BY FiniteIds
<1> QED
  BY <1>1, <1>2, <1>3, <1>4

(* One more element, exactly.                                              *)
LEMMA AddOne ==
    ASSUME NEW S \in SUBSET Ids, NEW x, x \notin S
    PROVE  Cardinality(S \cup {x}) = Cardinality(S) + 1
BY FiniteIds, FS_AddElement

-----------------------------------------------------------------------------
(* Ranks.                                                                  *)

(* The rank of a member is a place in the list.                            *)
LEMMA RankType ==
    ASSUME NEW S \in SUBSET Ids, NEW i
    PROVE  /\ Rank(i, S) \in 0..Cardinality(S)
           /\ i \in S => Rank(i, S) >= 1
<1> DEFINE Before == {j \in S : j <= i}
<1>1. IsFiniteSet(S) /\ IsFiniteSet(Before) /\ Cardinality(Before) <= Cardinality(S)
  BY FiniteIds, FewerIds
<1>2. Cardinality(S) \in Nat /\ Cardinality(Before) \in Nat
  BY FiniteIds
<1>3. ASSUME i \in S PROVE Cardinality(Before) # 0
  <2>1. i \in Before
    BY <1>3, IdsAssumption
  <2> QED
    BY <1>1, <2>1, FS_EmptySet
<1> QED
  BY <1>1, <1>2, <1>3 DEF Rank

(* No two members have the same rank.                                      *)
LEMMA RankInjective ==
    ASSUME NEW S \in SUBSET Ids, NEW i \in S, NEW j \in S, Rank(i, S) = Rank(j, S)
    PROVE  i = j
<1>1. ASSUME NEW a \in S, NEW b \in S, a < b, Rank(a, S) = Rank(b, S) PROVE FALSE
  <2> DEFINE Upto(x) == {y \in S : y <= x}
  <2>1. S \subseteq Nat /\ a \in Nat /\ b \in Nat
    BY IdsAssumption
  <2>2. Upto(a) \subseteq Upto(b) /\ b \in Upto(b) /\ b \notin Upto(a)
    <3>1. \A y \in S : y <= a => y <= b
      BY <1>1, <2>1
    <3>2. b <= b /\ ~(b <= a)
      BY <1>1, <2>1
    <3> QED
      BY <3>1, <3>2
  <2>3. IsFiniteSet(Upto(b))
    BY FiniteIds
  <2>4. Cardinality(Upto(b)) = Cardinality(Upto(a))
    BY <1>1 DEF Rank
  <2>5. Upto(a) \in SUBSET Upto(b) /\ Upto(a) # Upto(b)
    BY <2>2
  <2> HIDE DEF Upto
  <2> QED
    BY <2>3, <2>4, <2>5, FS_Subset
<1>2. i \in Nat /\ j \in Nat
  BY IdsAssumption
<1> QED
  BY <1>1, <1>2

(* A new member moves those after it one place back, ...                   *)
LEMMA RankAfterCreate ==
    ASSUME NEW S \in SUBSET Ids, NEW k \in Ids, NEW i
    PROVE  /\ Rank(i, S \cup {k}) >= Rank(i, S)
           /\ Rank(i, S \cup {k}) <= Rank(i, S) + 1
<1> DEFINE Old == {j \in S : j <= i}
           New == {j \in S \cup {k} : j <= i}
<1>1. Old \subseteq New /\ New \subseteq Old \cup {k}
  OBVIOUS
<1>2. Cardinality(Old) <= Cardinality(New)
  BY <1>1, FewerIds
<1>3. Cardinality(New) <= Cardinality(Old) + 1
  BY <1>1, OneMore
<1> QED
  BY <1>2, <1>3 DEF Rank

(* ... and a member that goes moves them one place forward.                *)
LEMMA RankAfterDelete ==
    ASSUME NEW S \in SUBSET Ids, NEW k \in Ids, NEW i
    PROVE  /\ Rank(i, S \ {k}) <= Rank(i, S)
           /\ Rank(i, S) <= Rank(i, S \ {k}) + 1
<1> DEFINE Old == {j \in S : j <= i}
           New == {j \in S \ {k} : j <= i}
<1>1. New \subseteq Old /\ Old \subseteq New \cup {k}
  OBVIOUS
<1>2. Cardinality(New) <= Cardinality(Old)
  BY <1>1, FewerIds
<1>3. Cardinality(Old) <= Cardinality(New) + 1
  BY <1>1, OneMore
<1> QED
  BY <1>2, <1>3 DEF Rank

(* Every place in the list is somebody's.                                  *)
LEMMA RankSurjective ==
    ASSUME NEW S \in SUBSET Ids, NEW n \in 1..Cardinality(S)
    PROVE  \E i \in S : Rank(i, S) = n
<1> DEFINE places == 1..Cardinality(S)
           f == [i \in S |-> Rank(i, S)]
<1>1. Cardinality(S) \in Nat
  BY FiniteIds
<1>2. \A i \in S : Rank(i, S) \in places
  BY <1>1, RankType
<1>3. f \in Injection(S, places)
  BY <1>2, RankInjective DEF Injection, IsInjective
<1>4. IsFiniteSet(places) /\ Cardinality(places) = Cardinality(S)
  BY <1>1, FS_Interval
<1>5. f \in Surjection(S, places)
  BY <1>3, <1>4, FS_Injection
<1> QED
  BY <1>5 DEF Surjection

(* A page that is not full ends the list.                                  *)
LEMMA ShortPage ==
    ASSUME NEW S \in SUBSET Ids, NEW from \in Nat, NEW limit \in Nat,
           NEW i \in S, Rank(i, S) > from + limit
    PROVE  Cardinality({j \in S : Rank(j, S) > from /\ Rank(j, S) <= from + limit}) = limit
<1> DEFINE page == {j \in S : Rank(j, S) > from /\ Rank(j, S) <= from + limit}
           places == (from + 1)..(from + limit)
           f == [j \in page |-> Rank(j, S)]
<1>1. Cardinality(S) \in Nat /\ \A j \in S : Rank(j, S) \in 1..Cardinality(S)
  BY FiniteIds, RankType
<1>2. f \in Injection(page, places)
  <2>1. \A j \in page : Rank(j, S) \in places
    BY <1>1
  <2> QED
    BY <2>1, RankInjective DEF Injection, IsInjective
<1>3. f \in Surjection(page, places)
  <2>1. ASSUME NEW n \in places PROVE \E j \in page : f[j] = n
    <3>1. n \in 1..Cardinality(S)
      BY <1>1
    <3>2. PICK j \in S : Rank(j, S) = n
      BY <3>1, RankSurjective
    <3> QED
      BY <3>2
  <2> QED
    BY <1>2, <2>1 DEF Injection, Surjection
<1>4. IsFiniteSet(places) /\ Cardinality(places) = limit
  BY FS_Interval
<1>5. Cardinality(page) = Cardinality(places)
  BY <1>2, <1>3, <1>4, FS_Injection
<1> QED
  BY <1>4, <1>5

-----------------------------------------------------------------------------
(* The listing.                                                            *)

(* Only the filter decides who matches.                                    *)
LEMMA SameFilter ==
    ASSUME query'.name = query.name, query'.surname = query.surname
    PROVE  /\ \A i : Matches(i, query)' <=> Matches(i, query)
           /\ \A S : {i \in S : Matches(i, query)'} = {i \in S : Matches(i, query)}
BY DEF Matches

SetsOfIds ==
    /\ Listed(query) \in SUBSET Ids
    /\ Stayed \in SUBSET Ids /\ Passed \in SUBSET Ids /\ Ahead \in SUBSET Ids
    /\ Matching(gone) \in SUBSET Ids /\ Matching(come) \in SUBSET Ids

(* What is counted are ids.                                                *)
LEMMA Counted ==
    ASSUME TypeOK
    PROVE  /\ SetsOfIds
           /\ Cardinality(Passed) \in Nat /\ Cardinality(Ahead) \in Nat
           /\ Cardinality(Matching(gone)) \in Nat /\ Cardinality(Matching(come)) \in Nat
<1>1. SetsOfIds
  BY IdsAssumption DEF TypeOK, SetsOfIds, Stayed, Matching, Listed, Passed, Ahead
<1> QED
  BY <1>1, FiniteIds DEF SetsOfIds

(* So they are after a step.                                               *)
LEMMA CountedNext ==
    ASSUME TypeOK'
    PROVE  /\ SetsOfIds'
           /\ Cardinality(Passed') \in Nat /\ Cardinality(Ahead') \in Nat
           /\ Cardinality(Matching(gone)') \in Nat /\ Cardinality(Matching(come)') \in Nat
<1>1. SetsOfIds'
  BY IdsAssumption DEF TypeOK, SetsOfIds, Stayed, Matching, Listed, Passed, Ahead
<1> QED
  BY <1>1, FiniteIds DEF SetsOfIds

(* Those who stay are listed.                                              *)
LEMMA StayedListed ==
    ASSUME TypeOK, History
    PROVE  Stayed \subseteq Listed(query)
BY DEF TypeOK, History, Stayed, Matching, Listed

(* The walk meets nobody it has passed when it starts.                     *)
LEMMA InitInv == Init => Inv
<1> SUFFICES ASSUME Init PROVE Inv
  OBVIOUS
<1>1. TypeOK
  BY IdsAssumption, AskedAssumption DEF Init, TypeOK
<1>2. History
  BY DEF Init, History
<1>3. Again = {}
  BY DEF Init, Again
<1>4. IsFiniteSet(Again) /\ Cardinality(Again) = 0
  BY <1>3, FS_EmptySet
<1>5. /\ SetsOfIds
      /\ Cardinality(Matching(gone)) \in Nat /\ Cardinality(Matching(come)) \in Nat
  BY <1>1, Counted
<1>6. MissedAreDeletions /\ RepeatsAreCreations
  BY <1>4, <1>5 DEF Init, MissedAreDeletions, RepeatsAreCreations
<1>7. CASE ValidFilter(query)
  <2>1. Offset(query) = 0
    BY <1>7, AskedAssumption DEF Init
  <2>2. Passed = {}
    <3>1. \A i \in Stayed : Rank(i, Listed(query)) >= 1 /\ Rank(i, Listed(query)) \in Nat
      <4> SUFFICES ASSUME NEW i \in Stayed
                   PROVE  Rank(i, Listed(query)) >= 1 /\ Rank(i, Listed(query)) \in Nat
        OBVIOUS
      <4>1. i \in Listed(query) /\ Listed(query) \in SUBSET Ids
        BY <1>1, <1>2, <1>5, StayedListed DEF SetsOfIds
      <4> QED
        BY <4>1, RankType, FiniteIds
    <3> QED
      BY <2>1, <3>1 DEF Passed
  <2>3. Ahead = {}
    BY <1>5 DEF Init, Ahead, SetsOfIds
  <2>4. Cardinality(Passed) = 0 /\ Cardinality(Ahead) = 0
    BY <2>2, <2>3, FS_EmptySet
  <2> QED
    BY <1>1, <1>2, <1>4, <1>5, <1>6, <2>1, <2>4 DEF Inv, Started
<1>8. CASE ~ValidFilter(query)
  BY <1>1, <1>2, <1>3, <1>4, <1>6, <1>8 DEF Inv, Unstarted, Init
<1> QED
  BY <1>7, <1>8

-----------------------------------------------------------------------------
(* Clients come.                                                           *)

(* A creation hides nobody and pushes at most one client, the last of the  *)
(* page before the offset, to where the walk will meet it again.           *)
LEMMA CreateInv == ASSUME Inv, NEW k \in Ids, Create(k) PROVE Inv'
<1> USE DEF Create
<1>1. TypeOK /\ History
  BY DEF Inv
<1>2. TypeOK'
  BY <1>1 DEF TypeOK
<1>3. History'
  BY <1>1, IdsAssumption DEF TypeOK, History
<1>4. \A i : Matches(i, query)' <=> Matches(i, query)
  BY SameFilter
<1>5. Offset(query)' = Offset(query) /\ Again' = Again /\ Stayed' = Stayed
        /\ Matching(gone)' = Matching(gone)
  BY <1>4 DEF Offset, Again, Stayed, Matching
<1>6. /\ SetsOfIds
      /\ Cardinality(Passed) \in Nat /\ Cardinality(Ahead) \in Nat
      /\ Cardinality(Matching(gone)) \in Nat /\ Cardinality(Matching(come)) \in Nat
  BY <1>1, Counted
<1>7. /\ SetsOfIds'
      /\ Cardinality(Passed') \in Nat /\ Cardinality(Ahead') \in Nat
      /\ Cardinality(Matching(come)') \in Nat
  BY <1>2, CountedNext
<1>8. Cardinality(Again) \in Nat
  BY FS_CardinalityType DEF Inv
<1>9. Cardinality(Matching(come)) <= Cardinality(Matching(come)')
  <2>1. Matching(come) \subseteq Matching(come)'
    BY <1>4 DEF Matching
  <2> QED
    BY <1>7, <2>1, FewerIds DEF SetsOfIds
<1>10. ASSUME Started PROVE Started'
  <2>1. Offset(query) \in Nat /\ walk = "on"
    BY <1>10 DEF Started
  <2>2. CASE ~Matches(k, query)
    <3>1. Listed(query)' = Listed(query)
      BY <1>4, <2>2 DEF Listed
    <3>2. Passed' = Passed /\ Ahead' = Ahead
      BY <1>5, <3>1 DEF Passed, Ahead
    <3> QED
      BY <1>5, <1>6, <1>7, <1>8, <1>9, <1>10, <3>2 DEF Started
  <2>3. CASE Matches(k, query)
    <3> DEFINE L == Listed(query)
               off == Offset(query)
    <3>1. Listed(query)' = L \cup {k} /\ L \in SUBSET Ids
      BY <1>4, <1>6, <2>3 DEF Listed, SetsOfIds
    <3>2. \A i : /\ Rank(i, L) \in Nat /\ Rank(i, L \cup {k}) \in Nat
                 /\ Rank(i, L \cup {k}) >= Rank(i, L)
                 /\ Rank(i, L \cup {k}) <= Rank(i, L) + 1
      <4> SUFFICES ASSUME NEW i
                   PROVE  /\ Rank(i, L) \in Nat /\ Rank(i, L \cup {k}) \in Nat
                          /\ Rank(i, L \cup {k}) >= Rank(i, L)
                          /\ Rank(i, L \cup {k}) <= Rank(i, L) + 1
        OBVIOUS
      <4> HIDE DEF L
      <4> QED
        BY <3>1, RankType, RankAfterCreate
    <3>3. Passed' \subseteq Passed
      BY <1>5, <2>1, <3>1, <3>2 DEF Passed
    <3>4. Cardinality(Passed') <= Cardinality(Passed)
      BY <1>6, <3>3, FewerIds DEF SetsOfIds
    <3>5. seen[k] = 0
      BY <1>1 DEF History
    <3>6. \A i \in Ahead' : i \in L /\ (i \in Ahead \/ Rank(i, L) = off)
      BY <1>5, <2>1, <3>1, <3>2, <3>5 DEF Ahead
    <3>7. \E x : Ahead' \subseteq Ahead \cup {x}
      <4>1. CASE \E x \in L : Rank(x, L) = off
        <5>1. PICK x \in L : Rank(x, L) = off
          BY <4>1
        <5> QED
          BY <3>1, <3>6, <5>1, RankInjective
      <4>2. CASE ~\E x \in L : Rank(x, L) = off
        BY <3>6, <4>2
      <4> QED
        BY <4>1, <4>2
    <3>8. Cardinality(Ahead') <= Cardinality(Ahead) + 1
      <4>1. PICK x : Ahead' \subseteq Ahead \cup {x}
        BY <3>7
      <4>2. Ahead \in SUBSET Ids /\ Ahead' \in SUBSET Ids
        BY <1>6, <1>7 DEF SetsOfIds
      <4> QED
        BY <4>1, <4>2, OneMore
    <3>9. Matching(come)' = Matching(come) \cup {k} /\ k \notin Matching(come)
      BY <1>4, <2>3 DEF Matching
    <3>10. Cardinality(Matching(come)') = Cardinality(Matching(come)) + 1
      BY <1>6, <3>9, AddOne DEF SetsOfIds
    <3> QED
      BY <1>5, <1>6, <1>7, <1>8, <1>10, <2>1, <3>4, <3>8, <3>10 DEF Started
  <2> QED
    BY <2>2, <2>3
<1>11. ASSUME Unstarted PROVE Unstarted'
  BY <1>5, <1>11 DEF Unstarted, ValidFilter, ValidOptionalInt
<1>12. MissedAreDeletions'
  BY DEF MissedAreDeletions
<1>13. RepeatsAreCreations'
  BY <1>5, <1>6, <1>7, <1>8, <1>9 DEF Inv, RepeatsAreCreations
<1> QED
  BY <1>2, <1>3, <1>5, <1>10, <1>11, <1>12, <1>13 DEF Inv

-----------------------------------------------------------------------------
(* Clients go.                                                             *)

(* A deletion shows nobody twice and pulls at most one client, the first   *)
(* of the next page, to where the walk has been already.                   *)
LEMMA DeleteInv == ASSUME Inv, NEW k \in Ids, Delete(k) PROVE Inv'
<1> USE DEF Delete
<1>1. TypeOK /\ History
  BY DEF Inv
<1>2. TypeOK'
  BY <1>1 DEF TypeOK
<1>3. History'
  BY <1>1 DEF TypeOK, History
<1>4. \A i : Matches(i, query)' <=> Matches(i, query)
  BY SameFilter
<1>5. Offset(query)' = Offset(query) /\ Again' = Again /\ Matching(come)' = Matching(come)
  BY <1>4 DEF Offset, Again, Matching
<1>6. /\ SetsOfIds
      /\ Cardinality(Passed) \in Nat /\ Cardinality(Ahead) \in Nat
      /\ Cardinality(Matching(gone)) \in Nat /\ Cardinality(Matching(come)) \in Nat
  BY <1>1, Counted
<1>7. /\ SetsOfIds'
      /\ Cardinality(Passed') \in Nat /\ Cardinality(Ahead') \in Nat
      /\ Cardinality(Matching(gone)') \in Nat
  BY <1>2, CountedNext
<1>8. Cardinality(Again) \in Nat
  BY FS_CardinalityType DEF Inv
<1>9. ASSUME Started PROVE Started'
  <2>1. Offset(query) \in Nat /\ walk = "on"
    BY <1>9 DEF Started
  <2>2. CASE ~Matches(k, query)
    <3>1. Listed(query)' = Listed(query) /\ Stayed' = Stayed /\ Matching(gone)' = Matching(gone)
      BY <1>4, <2>2 DEF Listed, Stayed, Matching
    <3>2. Passed' = Passed /\ Ahead' = Ahead
      BY <1>5, <3>1 DEF Passed, Ahead
    <3> QED
      BY <1>5, <1>9, <3>1, <3>2 DEF Started
  <2>3. CASE Matches(k, query)
    <3> DEFINE L == Listed(query)
               off == Offset(query)
    <3>1. Listed(query)' = L \ {k} /\ L \in SUBSET Ids
      BY <1>4, <1>6, <2>3 DEF Listed, SetsOfIds
    <3>2. \A i : /\ Rank(i, L) \in Nat /\ Rank(i, L \ {k}) \in Nat
                 /\ Rank(i, L \ {k}) <= Rank(i, L)
                 /\ Rank(i, L) <= Rank(i, L \ {k}) + 1
      <4> SUFFICES ASSUME NEW i
                   PROVE  /\ Rank(i, L) \in Nat /\ Rank(i, L \ {k}) \in Nat
                          /\ Rank(i, L \ {k}) <= Rank(i, L)
                          /\ Rank(i, L) <= Rank(i, L \ {k}) + 1
        OBVIOUS
      <4> HIDE DEF L
      <4> QED
        BY <3>1, RankType, RankAfterDelete
    <3>3. Ahead' \subseteq Ahead
      BY <1>5, <2>1, <3>1, <3>2 DEF Ahead
    <3>4. Cardinality(Ahead') <= Cardinality(Ahead)
      BY <1>6, <3>3, FewerIds DEF SetsOfIds
    <3>5. Stayed' \subseteq Stayed
      BY <1>4 DEF Stayed, Matching
    <3>6. \A i \in Passed' : i \in L /\ (i \in Passed \/ Rank(i, L) = off + 1)
      <4>1. Stayed \subseteq L
        BY <1>1, StayedListed
      <4> QED
        BY <1>5, <2>1, <3>1, <3>2, <3>5, <4>1 DEF Passed
    <3>7. \E x : Passed' \subseteq Passed \cup {x}
      <4>1. CASE \E x \in L : Rank(x, L) = off + 1
        <5>1. PICK x \in L : Rank(x, L) = off + 1
          BY <4>1
        <5> QED
          BY <3>1, <3>6, <5>1, RankInjective
      <4>2. CASE ~\E x \in L : Rank(x, L) = off + 1
        BY <3>6, <4>2
      <4> QED
        BY <4>1, <4>2
    <3>8. Cardinality(Passed') <= Cardinality(Passed) + 1
      <4>1. PICK x : Passed' \subseteq Passed \cup {x}
        BY <3>7
      <4>2. Passed \in SUBSET Ids /\ Passed' \in SUBSET Ids
        BY <1>6, <1>7 DEF SetsOfIds
      <4> QED
        BY <4>1, <4>2, OneMore
    <3>9. Matching(gone)' = Matching(gone) \cup {k} /\ k \notin Matching(gone)
      BY <1>1, <1>4, <2>3 DEF Matching, History
    <3>10. Cardinality(Matching(gone)') = Cardinality(Matching(gone)) + 1
      BY <1>6, <3>9, AddOne DEF SetsOfIds
    <3> QED
      BY <1>5, <1>6, <1>7, <1>8, <1>9, <2>1, <3>4, <3>8, <3>10 DEF Started
  <2> QED
    BY <2>2, <2>3
<1>10. ASSUME Unstarted PROVE Unstarted'
  BY <1>5, <1>10 DEF Unstarted, ValidFilter, ValidOptionalInt
<1>11. MissedAreDeletions' /\ RepeatsAreCreations'
  BY <1>5 DEF Inv, MissedAreDeletions, RepeatsAreCreations
<1> QED
  BY <1>2, <1>3, <1>5, <1>9, <1>10, <1>11 DEF Inv

-----------------------------------------------------------------------------
(* The walk goes on.                                                       *)

(* A parameter that is accepted is absent or a number.                     *)
LEMMA ValidNumbers ==
    ASSUME ValidFilter(query)
    PROVE  /\ Offset(query) \in Nat
           /\ Limit(query) = None \/ Limit(query) \in Nat
BY IdsAssumption DEF ValidFilter, ValidOptionalInt, Offset, Limit

(* A page shows again exactly those of Ahead that are on it.               *)
LEMMA ShownAgain ==
    ASSUME TypeOK, IsFiniteSet(Again), Offset(query) \in Nat,
           seen' = [i \in Ids |-> seen[i] + IF i \in Page(query) THEN 1 ELSE 0]
    PROVE  /\ IsFiniteSet(Again')
           /\ Cardinality(Again') = Cardinality(Again) + Cardinality(Ahead \cap Page(query))
<1> DEFINE here == Ahead \cap Page(query)
           f == [i \in here |-> <<i, seen[i] + 1>>]
           new == {<<i, seen[i] + 1>> : i \in here}
<1>1. here \in SUBSET Ids /\ \A i \in here : seen[i] \in Nat /\ seen[i] > 0
  BY DEF TypeOK, Ahead, Listed
<1>2. f \in Bijection(here, new)
  BY DEF Bijection, Injection, Surjection, IsInjective
<1>3. IsFiniteSet(new) /\ Cardinality(new) = Cardinality(here)
  BY <1>1, <1>2, FiniteIds, FS_Bijection DEF ExistsBijection
<1>4. Again \cap new = {}
  BY <1>1 DEF Again
<1>5. \A i \in Ids : i \in here <=> i \in Page(query) /\ seen[i] > 0
  BY DEF Ahead, Page
<1>6. Again' = Again \cup new
  <2>1. \A i \in Ids : 2..seen'[i] =
            IF i \in here THEN (2..seen[i]) \cup {seen[i] + 1} ELSE 2..seen[i]
    <3> SUFFICES ASSUME NEW i \in Ids
                 PROVE  2..seen'[i] =
                            IF i \in here THEN (2..seen[i]) \cup {seen[i] + 1} ELSE 2..seen[i]
      OBVIOUS
    <3>1. seen[i] \in Nat
      BY DEF TypeOK
    <3>2. seen'[i] = IF i \in Page(query) THEN seen[i] + 1 ELSE seen[i]
      BY <3>1
    <3>3. CASE i \in here
      BY <1>5, <3>1, <3>2, <3>3
    <3>4. CASE i \notin here /\ i \notin Page(query)
      BY <3>1, <3>2, <3>4
    <3>5. CASE i \notin here /\ seen[i] = 0
      BY <3>1, <3>2, <3>5
    <3> QED
      BY <1>5, <3>1, <3>3, <3>4, <3>5
  <2>2. \A u : u \in Again' <=> \E i \in Ids : \E n \in 2..seen'[i] : u = <<i, n>>
    BY DEF Again
  <2>3. \A u : u \in Again <=> \E i \in Ids : \E n \in 2..seen[i] : u = <<i, n>>
    BY DEF Again
  <2>4. \A u : u \in new <=> \E i \in here : u = <<i, seen[i] + 1>>
    OBVIOUS
  <2> HIDE DEF here, new
  <2>5. ASSUME NEW u \in Again' PROVE u \in Again \cup new
    <3>1. PICK i \in Ids : \E n \in 2..seen'[i] : u = <<i, n>>
      BY <2>2
    <3>2. PICK n \in 2..seen'[i] : u = <<i, n>>
      BY <3>1
    <3>3. n \in 2..seen[i] \/ (i \in here /\ n = seen[i] + 1)
      BY <2>1
    <3> QED
      BY <2>3, <2>4, <3>2, <3>3
  <2>6. ASSUME NEW u \in Again PROVE u \in Again'
    <3>1. PICK i \in Ids : \E n \in 2..seen[i] : u = <<i, n>>
      BY <2>3
    <3>2. PICK n \in 2..seen[i] : u = <<i, n>>
      BY <3>1
    <3>3. n \in 2..seen'[i]
      BY <2>1
    <3> QED
      BY <2>2, <3>2, <3>3
  <2>7. ASSUME NEW u \in new PROVE u \in Again'
    <3>1. PICK i \in here : u = <<i, seen[i] + 1>>
      BY <2>4
    <3>2. i \in Ids /\ seen[i] + 1 \in 2..seen'[i]
      BY <1>1, <2>1
    <3> QED
      BY <2>2, <3>1, <3>2
  <2> QED
    BY <2>5, <2>6, <2>7
<1> HIDE DEF here, new
<1> QED
  BY <1>3, <1>4, <1>6, CountApart DEF here

(* A page that is not full has everybody the walk has not passed by.       *)
LEMMA LastPage ==
    ASSUME TypeOK, ValidFilter(query),
           ~(Limit(query) # None /\ Cardinality(Page(query)) = Limit(query)),
           NEW i \in Listed(query), Rank(i, Listed(query)) > Offset(query)
    PROVE  i \in Page(query)
<1> DEFINE L == Listed(query)
           off == Offset(query)
           limit == Limit(query)
<1>1. L \in SUBSET Ids /\ off \in Nat /\ (limit = None \/ limit \in Nat)
  BY Counted, ValidNumbers DEF SetsOfIds
<1>2. Rank(i, L) \in Nat
  BY <1>1, RankType, FiniteIds
<1>3. CASE limit = None
  BY <1>3 DEF Page
<1>4. CASE limit # None /\ Rank(i, L) <= off + limit
  BY <1>4 DEF Page
<1>5. CASE limit # None /\ Rank(i, L) > off + limit
  <2>1. Cardinality({j \in L : Rank(j, L) > off /\ Rank(j, L) <= off + limit}) = limit
    BY <1>1, <1>5, ShortPage
  <2>2. Page(query) = {j \in L : Rank(j, L) > off /\ Rank(j, L) <= off + limit}
    BY <1>5 DEF Page
  <2> QED
    BY <1>5, <2>1, <2>2
<1> QED
  BY <1>1, <1>2, <1>3, <1>4, <1>5

(* A page meets those ahead who are on it, and passes by nobody unseen.    *)
LEMMA GetAllInv == ASSUME Inv, GetAll PROVE Inv'
<1>1. TypeOK /\ History /\ IsFiniteSet(Again)
  BY DEF Inv
<1>2. UNCHANGED <<clients, come, gone>> /\ walk = "on"
  BY DEF GetAll
<1>3. CASE ~ValidFilter(query)
  <2>1. walk' = "refused" /\ query' = query /\ seen' = seen
    BY <1>3 DEF GetAll
  <2>2. Again' = Again /\ Matching(come)' = Matching(come) /\ Offset(query)' = Offset(query)
    BY <1>2, <2>1 DEF Again, Matching, Matches, Offset
  <2>3. TypeOK' /\ History'
    BY <1>1, <1>2, <2>1 DEF TypeOK, History
  <2>4. Unstarted' \/ Started'
    BY <1>3, <2>1, <2>2 DEF Inv, Unstarted, Started, ValidFilter, ValidOptionalInt
  <2>5. MissedAreDeletions' /\ RepeatsAreCreations'
    BY <2>1, <2>2 DEF Inv, MissedAreDeletions, RepeatsAreCreations
  <2> QED
    BY <1>1, <2>2, <2>3, <2>4, <2>5 DEF Inv
<1>4. CASE ValidFilter(query)
  <2> DEFINE L == Listed(query)
             off == Offset(query)
             P == Page(query)
             full == Limit(query) # None /\ Cardinality(P) = Limit(query)
  <2>1. seen' = [i \in Ids |-> seen[i] + IF i \in Page(query) THEN 1 ELSE 0]
    BY <1>4 DEF GetAll
  <2>2. IF full
        THEN /\ query' = [query EXCEPT !.offset = <<off + Limit(query)>>]
             /\ walk' = "on"
        ELSE query' = query /\ walk' = "ended"
    BY <1>2, <1>4 DEF GetAll
  <2>3. query'.name = query.name /\ query'.surname = query.surname
    BY <1>1, <2>2 DEF TypeOK, Params
  <2>4. off \in Nat /\ (full => Limit(query) \in Nat)
    BY <1>4, ValidNumbers
  <2>5. Offset(query)' = IF full THEN off + Limit(query) ELSE off
    BY <1>1, <2>2 DEF TypeOK, Params, Offset
  <2>6. /\ SetsOfIds
        /\ Cardinality(Passed) \in Nat /\ Cardinality(Ahead) \in Nat
        /\ Cardinality(Matching(gone)) \in Nat /\ Cardinality(Matching(come)) \in Nat
    BY <1>1, Counted
  <2>7. \A i \in Ids : seen[i] \in Nat /\ seen'[i] = IF i \in P THEN seen[i] + 1 ELSE seen[i]
    BY <1>1, <2>1 DEF TypeOK
  <2>8. TypeOK'
    BY <1>1, <1>2, <2>2, <2>7, <2>1 DEF TypeOK
  <2>9. History'
    BY <1>1, <1>2, <2>7 DEF TypeOK, History, Page, Listed
  <2>10. /\ Listed(query)' = L /\ Stayed' = Stayed
         /\ Matching(gone)' = Matching(gone) /\ Matching(come)' = Matching(come)
    BY <1>2, <2>3, SameFilter DEF Listed, Stayed, Matching
  <2>11. /\ IsFiniteSet(Again')
         /\ Cardinality(Again') = Cardinality(Again) + Cardinality(Ahead \cap P)
    BY <1>1, <2>1, <2>4, ShownAgain
  <2>12. /\ Cardinality(Passed) <= Cardinality(Matching(gone))
         /\ Cardinality(Again) + Cardinality(Ahead) <= Cardinality(Matching(come))
    BY <1>2, <1>4 DEF Inv, Unstarted, Started
  <2>13. /\ Cardinality(Again) \in Nat
         /\ Cardinality(Ahead \cap P) \in Nat /\ Cardinality(Ahead \ P) \in Nat
         /\ Cardinality(Ahead) = Cardinality(Ahead \cap P) + Cardinality(Ahead \ P)
    <3>1. Ahead \cap P \in SUBSET Ids /\ Ahead \ P \in SUBSET Ids
      BY <2>6 DEF SetsOfIds
    <3>2. Ahead = (Ahead \cap P) \cup (Ahead \ P) /\ (Ahead \cap P) \cap (Ahead \ P) = {}
      OBVIOUS
    <3> HIDE DEF P
    <3>3. Cardinality((Ahead \cap P) \cup (Ahead \ P))
            = Cardinality(Ahead \cap P) + Cardinality(Ahead \ P)
      BY <3>1, <3>2, FiniteIds, CountApart
    <3> QED
      BY <1>1, <3>1, <3>2, <3>3, FiniteIds, FS_CardinalityType
  <2>14. Stayed \subseteq L /\ \A i \in L : Rank(i, L) \in Nat
    BY <1>1, <2>6, StayedListed, RankType, FiniteIds DEF SetsOfIds
  <2>15. RepeatsAreCreations'
    BY <2>6, <2>10, <2>11, <2>12, <2>13 DEF RepeatsAreCreations
  <2>16. CASE full
    <3>1. Passed' \subseteq Passed
      BY <2>4, <2>5, <2>6, <2>7, <2>10, <2>14, <2>16 DEF Passed, Page, SetsOfIds
    <3>2. Ahead' \subseteq Ahead \ P
      BY <2>4, <2>5, <2>6, <2>7, <2>10, <2>14, <2>16 DEF Ahead, Page, SetsOfIds
    <3>3. Cardinality(Passed') <= Cardinality(Passed)
      BY <2>6, <3>1, FewerIds DEF SetsOfIds
    <3>4. Cardinality(Ahead') <= Cardinality(Ahead \ P)
      <4>1. Ahead \ P \in SUBSET Ids
        BY <2>6 DEF SetsOfIds
      <4> HIDE DEF P
      <4> QED
        BY <3>2, <4>1, FewerIds
    <3>5. Cardinality(Passed') \in Nat /\ Cardinality(Ahead') \in Nat
      BY <2>8, CountedNext
    <3>6. Started'
      BY <2>4, <2>5, <2>6, <2>10, <2>11, <2>12, <2>13, <2>16, <3>3, <3>4, <3>5 DEF Started
    <3>7. MissedAreDeletions'
      BY <2>2, <2>16 DEF MissedAreDeletions
    <3> QED
      BY <2>8, <2>9, <2>11, <2>15, <3>6, <3>7 DEF Inv
  <2>17. CASE ~full
    <3>1. Started'
      BY <2>2, <2>4, <2>5, <2>17 DEF Started
    <3>2. {i \in Stayed' : seen'[i] = 0} \subseteq Passed
      <4>1. \A i \in L : i \in P \/ Rank(i, L) <= off
        BY <1>1, <1>4, <2>4, <2>14, <2>17, LastPage
      <4> QED
        BY <2>6, <2>7, <2>10, <2>14, <4>1 DEF Passed, SetsOfIds
    <3>3. Cardinality({i \in Stayed' : seen'[i] = 0}) <= Cardinality(Passed)
      BY <2>6, <3>2, FewerIds DEF SetsOfIds
    <3>4. Cardinality({i \in Stayed' : seen'[i] = 0}) \in Nat
      BY <2>6, <3>2, FiniteIds DEF SetsOfIds
    <3>5. MissedAreDeletions'
      BY <2>6, <2>10, <2>12, <3>3, <3>4 DEF MissedAreDeletions
    <3> QED
      BY <2>8, <2>9, <2>11, <2>15, <3>1, <3>5 DEF Inv
  <2> QED
    BY <2>16, <2>17
<1> QED
  BY <1>3, <1>4

-----------------------------------------------------------------------------
(* The inductive invariant: what the walk has passed by unseen is paid for *)
(* by deletions, and what it will meet again by creations.                 *)
THEOREM InvHolds == Spec => []Inv
<1>1. Inv /\ [Next]_vars => Inv'
  <2>1. ASSUME Inv, UNCHANGED vars PROVE Inv'
    <3>1. /\ Again' = Again /\ Stayed' = Stayed /\ Passed' = Passed /\ Ahead' = Ahead
          /\ Matching(gone)' = Matching(gone) /\ Matching(come)' = Matching(come)
      BY <2>1 DEF vars, Again, Stayed, Passed, Ahead, Matching, Matches, Listed, Rank, Offset
    <3> QED
      BY <2>1, <3>1 DEF vars, Inv, TypeOK, History, Unstarted, Started, ValidFilter,
                        ValidOptionalInt, Offset, MissedAreDeletions, RepeatsAreCreations
  <2> QED
    BY <2>1, CreateInv, DeleteInv, GetAllInv DEF Next
<1> QED
  BY <1>1, InitInv, PTL DEF Spec

(* Whatever comes and goes under way: no more clients are missed than      *)
(* clients of the listing were deleted.                                    *)
THEOREM Missed == Spec => []MissedAreDeletions
BY InvHolds, PTL DEF Inv

(* ... and clients are shown again no more often than clients of the       *)
(* listing were created.                                                   *)
THEOREM Repeated == Spec => []RepeatsAreCreations
BY InvHolds, PTL DEF Inv

=============================================================================
