--------------------------- MODULE MemoDaoProofs ---------------------------
(***************************************************************************)
(* What getList and newId return, for every store and every Int.max.       *)
(*                                                                         *)
(* Rank is a bijection from a set of ids to the places 1 .. n: it is       *)
(* strictly increasing, hence injective, and the two sets have the same    *)
(* cardinality.  Everything about Sorted follows from that, without an     *)
(* induction over the set.                                                 *)
(***************************************************************************)
EXTENDS MemoDao, Sequences, TLAPS, FiniteSetTheorems, FunctionTheorems

(* Sets of ids are finite. *)
LEMMA IdsFinite ==
    ASSUME NEW S \in SUBSET Id
    PROVE  IsFiniteSet(S) /\ Cardinality(S) \in Nat
<1>1. IsFiniteSet(Id)
  BY FS_Interval, IntMaxAssumption DEF Id
<1>2. IsFiniteSet(S)
  BY <1>1, FS_Subset
<1> QED
  BY <1>2, FS_CardinalityType

(* The rank of a member is a place in the list. *)
LEMMA RankType ==
    ASSUME NEW S \in SUBSET Id, NEW id \in S
    PROVE  Rank(S, id) \in 1 .. Cardinality(S)
<1> DEFINE Below == {j \in S : j <= id}
<1>1. Below \in SUBSET S /\ Below \in SUBSET Id
  OBVIOUS
<1>2. /\ IsFiniteSet(S) /\ Cardinality(S) \in Nat
      /\ IsFiniteSet(Below) /\ Cardinality(Below) \in Nat
  BY <1>1, IdsFinite
<1>3. Cardinality(Below) <= Cardinality(S)
  BY <1>1, <1>2, FS_Subset
<1>4. id \in Below
  BY IntMaxAssumption DEF Id
<1>5. Cardinality(Below) # 0
  BY <1>2, <1>4, FS_EmptySet
<1> QED
  BY <1>2, <1>3, <1>5 DEF Rank

(* A greater id has a greater rank. *)
LEMMA RankIncreasing ==
    ASSUME NEW S \in SUBSET Id, NEW i \in S, NEW j \in S, i < j
    PROVE  Rank(S, i) < Rank(S, j)
<1> DEFINE Below(id) == {k \in S : k <= id}
<1>0. \A k \in S : k \in Int
  BY IntMaxAssumption DEF Id
<1>1. Below(i) \in SUBSET Below(j) /\ j \in Below(j) /\ j \notin Below(i)
  BY <1>0
<1>2. Below(i) # Below(j)
  BY <1>1
<1>3. /\ IsFiniteSet(Below(j)) /\ Cardinality(Below(j)) \in Nat
      /\ Cardinality(Below(i)) \in Nat
  <2>1. Below(i) \in SUBSET Id /\ Below(j) \in SUBSET Id
    OBVIOUS
  <2> QED
    BY <2>1, IdsFinite
<1>4. /\ Cardinality(Below(i)) <= Cardinality(Below(j))
      /\ Cardinality(Below(i)) # Cardinality(Below(j))
  BY <1>1, <1>2, <1>3, FS_Subset
<1>5. Cardinality(Below(i)) < Cardinality(Below(j))
  BY <1>3, <1>4
<1> QED
  BY <1>5 DEF Rank

(* No two ids have the same rank. *)
LEMMA RankInjective ==
    ASSUME NEW S \in SUBSET Id, NEW i \in S, NEW j \in S,
           Rank(S, i) = Rank(S, j)
    PROVE  i = j
<1>1. i \in Int /\ j \in Int
  BY IntMaxAssumption DEF Id
<1>2. Rank(S, i) \in Int /\ Rank(S, j) \in Int
  BY RankType, IdsFinite
<1>3. ~(i < j)
  BY <1>2, RankIncreasing
<1>4. ~(j < i)
  BY <1>2, RankIncreasing
<1> QED
  BY <1>1, <1>3, <1>4

(* Every place has an id: as many ids as places, and no rank twice. *)
LEMMA RankSurjective ==
    ASSUME NEW S \in SUBSET Id, NEW r \in 1 .. Cardinality(S)
    PROVE  \E id \in S : Rank(S, id) = r
<1> DEFINE f == [id \in S |-> Rank(S, id)]
           Places == 1 .. Cardinality(S)
<1>1. IsFiniteSet(S) /\ Cardinality(S) \in Nat
  BY IdsFinite
<1>2. IsFiniteSet(Places) /\ Cardinality(Places) = Cardinality(S)
  BY <1>1, FS_Interval
<1>3. f \in [S -> Places]
  BY RankType
<1>4. \A i, j \in S : f[i] = f[j] => i = j
  BY RankInjective
<1>5. f \in Injection(S, Places)
  <2> HIDE DEF f, Places
  <2> QED BY <1>3, <1>4, Fun_IsInj
<1>6. f \in Surjection(S, Places)
  <2> HIDE DEF f, Places
  <2> QED BY <1>2, <1>5, FS_Injection
<1>7. \A p \in Places : \E id \in S : f[id] = p
  <2> HIDE DEF f, Places
  <2> QED BY <1>6 DEF Surjection
<1> QED
  BY <1>7

(* getList puts at each place the id of that rank. *)
LEMMA SortedAtPlace ==
    ASSUME NEW S \in SUBSET Id, NEW r \in 1 .. Cardinality(S)
    PROVE  Sorted(S)[r] \in S /\ Rank(S, Sorted(S)[r]) = r
<1>1. \E id \in S : Rank(S, id) = r
  BY RankSurjective
<1>2. Sorted(S)[r] = CHOOSE id \in S : Rank(S, id) = r
  BY DEF Sorted
<1> QED
  BY <1>1, <1>2

LEMMA SortedAtRank ==
    ASSUME NEW S \in SUBSET Id, NEW id \in S
    PROVE  Sorted(S)[Rank(S, id)] = id
<1>1. Rank(S, id) \in 1 .. Cardinality(S)
  BY RankType
<1>2. /\ Sorted(S)[Rank(S, id)] \in S
      /\ Rank(S, Sorted(S)[Rank(S, id)]) = Rank(S, id)
  BY <1>1, SortedAtPlace
<1> QED
  BY <1>2, RankInjective

(* getList is a sequence of the ids, one place for each. *)
LEMMA SortedType ==
    ASSUME NEW S \in SUBSET Id
    PROVE  /\ Sorted(S) \in Seq(S)
           /\ Len(Sorted(S)) = Cardinality(S)
           /\ DOMAIN Sorted(S) = 1 .. Cardinality(S)
<1>1. Cardinality(S) \in Nat
  BY IdsFinite
<1>2. \A r \in 1 .. Cardinality(S) : Sorted(S)[r] \in S
  BY SortedAtPlace
<1>3. /\ Sorted(S) = [r \in 1 .. Cardinality(S) |-> Sorted(S)[r]]
      /\ DOMAIN Sorted(S) = 1 .. Cardinality(S)
  BY DEF Sorted
<1>4. Sorted(S) \in [1 .. Cardinality(S) -> S]
  BY <1>2, <1>3
<1>5. Sorted(S) \in Seq(S)
  BY <1>1, <1>4
<1> QED
  BY <1>1, <1>3, <1>5

(* getList is in ascending order of id, and has each id once. *)
THEOREM SortedAscends ==
    ASSUME NEW S \in SUBSET Id,
           NEW p \in 1 .. Cardinality(S), NEW q \in 1 .. Cardinality(S), p < q
    PROVE  Sorted(S)[p] < Sorted(S)[q]
<1> DEFINE i == Sorted(S)[p]
           j == Sorted(S)[q]
<1>1. /\ i \in S /\ j \in S /\ i \in Int /\ j \in Int
      /\ Rank(S, i) = p /\ Rank(S, j) = q
  <2>1. i \in S /\ j \in S /\ Rank(S, i) = p /\ Rank(S, j) = q
    BY SortedAtPlace
  <2> HIDE DEF i, j
  <2> QED
    BY <2>1, IntMaxAssumption DEF Id
<1>2. p \in Int /\ q \in Int
  BY IdsFinite
<1> HIDE DEF i, j
<1>3. i # j /\ ~(j < i)
  BY <1>1, <1>2, RankIncreasing
<1>4. i < j
  BY <1>1, <1>3
<1> QED
  BY <1>4 DEF i, j

(* The last place of getList has the greatest id. *)
LEMMA LastIsGreatest ==
    ASSUME NEW S \in SUBSET Id, S # {}
    PROVE  /\ Cardinality(S) \in 1 .. Cardinality(S)
           /\ Sorted(S)[Cardinality(S)] \in S
           /\ \A id \in S : id <= Sorted(S)[Cardinality(S)]
<1> DEFINE last == Sorted(S)[Cardinality(S)]
<1>1. Cardinality(S) \in Nat /\ Cardinality(S) # 0
  BY IdsFinite, FS_EmptySet
<1>2. Cardinality(S) \in 1 .. Cardinality(S)
  BY <1>1
<1>3. last \in S /\ Rank(S, last) = Cardinality(S)
  BY <1>2, SortedAtPlace
<1> HIDE DEF last
<1>4. ASSUME NEW id \in S
      PROVE  id <= last
  <2>1. id \in Int /\ last \in Int
    BY <1>3, IntMaxAssumption DEF Id
  <2>2. Rank(S, id) \in 1 .. Cardinality(S)
    BY RankType
  <2>3. ~(last < id)
    BY <1>1, <1>3, <2>2, RankIncreasing
  <2> QED
    BY <2>1, <2>3
<1> QED
  BY <1>2, <1>3, <1>4 DEF last

(* newId is above every id in use, so that insert, an upsert, makes a memo  *)
(* and replaces none; and it passes Int.max only if Int.max is in use.      *)
THEOREM NewIdIsFresh ==
    ASSUME NEW realm \in Store
    PROVE  /\ NewId(realm) \in 1 .. IntMax + 1
           /\ \A id \in Stored(realm) : id < NewId(realm)
           /\ NewId(realm) > IntMax => IntMax \in Stored(realm)
<1> DEFINE S    == Stored(realm)
           last == Sorted(S)[Cardinality(S)]
<1>1. S \in SUBSET Id
  BY DEF Stored
<1>2. CASE S = {}
  <2>1. NewId(realm) = 1
    BY <1>2 DEF NewId
  <2> QED
    BY <1>2, <2>1, IntMaxAssumption
<1>3. CASE S # {}
  <2>1. NewId(realm) = last + 1
    BY <1>3 DEF NewId, GetList
  <2>2. last \in S /\ \A id \in S : id <= last
    BY <1>1, <1>3, LastIsGreatest
  <2> HIDE DEF last
  <2>3. last \in 0 .. IntMax /\ \A id \in S : id \in 0 .. IntMax
    BY <1>1, <2>2 DEF Id
  <2>4. NewId(realm) \in 1 .. IntMax + 1 /\ \A id \in S : id < NewId(realm)
    BY <2>1, <2>2, <2>3, IntMaxAssumption
  <2>5. NewId(realm) > IntMax => last = IntMax
    BY <2>1, <2>3, IntMaxAssumption
  <2> QED
    BY <2>2, <2>4, <2>5
<1> QED
  BY <1>2, <1>3

(* A new greatest id goes to the end of getList: no other place changes. *)
THEOREM SortedAppends ==
    ASSUME NEW S \in SUBSET Id, NEW n \in Id, \A id \in S : id < n
    PROVE  /\ Cardinality(S \union {n}) = Cardinality(S) + 1
           /\ \A r \in 1 .. Cardinality(S) : Sorted(S \union {n})[r] = Sorted(S)[r]
<1> DEFINE T == S \union {n}
<1>1. /\ S \in SUBSET Id /\ T \in SUBSET Id
      /\ IsFiniteSet(S) /\ Cardinality(S) \in Nat
      /\ n \notin S
  <2>1. n \in Int
    BY IntMaxAssumption DEF Id
  <2> QED
    BY <2>1, IdsFinite
<1>2. Cardinality(T) = Cardinality(S) + 1
  BY <1>1, FS_AddElement
<1>3. ASSUME NEW r \in 1 .. Cardinality(S)
      PROVE  Sorted(T)[r] = Sorted(S)[r]
  <2> DEFINE id == Sorted(S)[r]
  <2>1. id \in S /\ Rank(S, id) = r
    BY SortedAtPlace
  <2> HIDE DEF id
  <2>2. {j \in T : j <= id} = {j \in S : j <= id}
    <3>1. id < n /\ id \in Int /\ n \in Int
      BY <2>1, IntMaxAssumption DEF Id
    <3> QED
      BY <3>1
  <2>3. Rank(T, id) = r
    BY <2>1, <2>2 DEF Rank
  <2>4. Sorted(T)[Rank(T, id)] = id
    BY <1>1, <2>1, SortedAtRank
  <2> QED
    BY <2>3, <2>4 DEF id
<1> QED
  BY <1>2, <1>3
=============================================================================
