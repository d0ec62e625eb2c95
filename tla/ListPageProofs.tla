--------------------------- MODULE ListPageProofs ---------------------------
(***************************************************************************)
(* What ListPage promises for all texts and their spellings, all rows to   *)
(* start with, any number of requests, failures and writes by others: a    *)
(* row is on screen once, no drag moves a checked row, a name the pile     *)
(* holds is not minted again, what could not be saved stays in the add     *)
(* box until a later failure takes its place, and only rows begun after it *)
(* are behind a new row.                                                   *)
(***************************************************************************)
EXTENDS ListPage, TLAPS, FiniteSetTheorems, SequenceTheorems

-----------------------------------------------------------------------------
(* Orders of finite sets.                                                    *)
StrictOrder(S, before) ==
  /\ \A x \in S : before[x] \subseteq S /\ x \notin before[x]
  /\ \A x \in S : \A y \in before[x] : before[y] \subseteq before[x]
  /\ \A x, y \in S : x = y \/ x \in before[y] \/ y \in before[x]

(* InOrder puts each member behind those before it, and at no other place.   *)
LEMMA Ranks ==
  ASSUME NEW S, IsFiniteSet(S), NEW before, StrictOrder(S, before)
  PROVE  /\ Cardinality(S) \in Nat
         /\ \A x \in S : Cardinality(before[x]) \in 0..(Cardinality(S) - 1)
         /\ \A x, y \in S : Cardinality(before[x]) = Cardinality(before[y]) => x = y
         /\ InOrder(S, before) \in [1..Cardinality(S) -> S]
         /\ \A k \in 1..Cardinality(S) : Cardinality(before[InOrder(S, before)[k]]) = k - 1
<1> DEFINE n == Cardinality(S)
           rank == [x \in S |-> Cardinality(before[x])]
           s == InOrder(S, before)
<1>1. n \in Nat
  BY FS_CardinalityType
<1>2. ASSUME NEW x \in S
      PROVE  IsFiniteSet(before[x]) /\ Cardinality(before[x]) \in 0..(n - 1)
  <2>1. before[x] \in SUBSET S /\ before[x] # S
    BY DEF StrictOrder
  <2>2. IsFiniteSet(before[x]) /\ Cardinality(before[x]) <= n /\ Cardinality(before[x]) # n
    BY <2>1, FS_Subset
  <2>3. Cardinality(before[x]) \in Nat
    BY <2>2, FS_CardinalityType
  <2>4. QED BY <1>1, <2>2, <2>3
<1>3. ASSUME NEW x \in S, NEW y \in before[x]
      PROVE  Cardinality(before[y]) < Cardinality(before[x])
  <2>1. y \in S /\ before[y] \in SUBSET before[x] /\ before[y] # before[x]
    BY DEF StrictOrder
  <2>2. Cardinality(before[y]) <= Cardinality(before[x])
        /\ Cardinality(before[y]) # Cardinality(before[x])
    BY <1>2, <2>1, FS_Subset
  <2>3. Cardinality(before[y]) \in Int /\ Cardinality(before[x]) \in Int
    BY <1>2, <2>1
  <2>4. QED BY <2>2, <2>3
<1>4. ASSUME NEW x \in S, NEW y \in S, Cardinality(before[x]) = Cardinality(before[y]) PROVE x = y
  <2>1. Cardinality(before[x]) \in Int /\ Cardinality(before[y]) \in Int
    BY <1>2
  <2>2. x \notin before[y] /\ y \notin before[x]
    BY <1>3, <1>4, <2>1
  <2>3. QED BY <2>2 DEF StrictOrder
<1>5. \A k \in 0..(n - 1) : \E x \in S : rank[x] = k
  <2>1. rank \in Injection(S, 0..(n - 1))
    BY <1>2, <1>4 DEF Injection, IsInjective
  <2>2. IsFiniteSet(0..(n - 1)) /\ Cardinality(0..(n - 1)) = n
    <3>1. \A a, b \in Int : IsFiniteSet(a..b) /\ Cardinality(a..b) = IF a > b THEN 0 ELSE b - a + 1
      BY FS_Interval
    <3> HIDE DEF n
    <3>2. QED BY <1>1, <3>1
  <2> HIDE DEF rank
  <2>3. rank \in Surjection(S, 0..(n - 1))
    BY <2>1, <2>2, FS_Injection
  <2> HIDE DEF n
  <2>4. QED BY <2>3 DEF Surjection
<1>6. ASSUME NEW k \in 1..n PROVE s[k] \in S /\ Cardinality(before[s[k]]) = k - 1
  <2>1. \E x \in S : Cardinality(before[x]) = k - 1
    BY <1>1, <1>5
  <2>2. s[k] = CHOOSE x \in S : Cardinality(before[x]) = k - 1
    BY DEF InOrder
  <2>3. QED BY <2>1, <2>2
<1>7. s \in [1..n -> S]
  <2>1. s = [k \in 1..n |-> CHOOSE x \in S : Cardinality(before[x]) = k - 1]
    BY DEF InOrder
  <2>2. \A k \in 1..n : s[k] \in S
    BY <1>6
  <2> HIDE DEF n
  <2>3. QED BY <2>1, <2>2
<1>8. QED BY <1>1, <1>2, <1>4, <1>6, <1>7

(* Positions are ordered by <.                                               *)
LEMMA PlacesOrdered ==
  ASSUME NEW n \in Nat, NEW at \in SUBSET (1..n)
  PROVE  IsFiniteSet(at) /\ StrictOrder(at, [k \in at |-> {j \in at : j < k}])
<1> DEFINE before == [k \in at |-> {j \in at : j < k}]
<1>1. IsFiniteSet(1..n)
  BY FS_Interval, 1 \in Int, n \in Int
<1>2. IsFiniteSet(at)
  BY <1>1, FS_Subset
<1>3. \A k \in at : before[k] = {j \in at : j < k}
  OBVIOUS
<1> HIDE DEF before
<1>4. \A x \in at : before[x] \subseteq at /\ x \notin before[x]
  BY <1>3
<1>5. \A x \in at : \A y \in before[x] : before[y] \subseteq before[x]
  <2>1. \A x, y, z \in at : x < y /\ y < z => x < z
    OBVIOUS
  <2>2. \A x \in at : \A y \in before[x] : y \in at /\ y < x
    BY <1>3
  <2>3. ASSUME NEW x \in at, NEW y \in before[x], NEW z \in before[y] PROVE z \in before[x]
    <3>1. y \in at /\ z \in at /\ z < y /\ y < x
      BY <2>2, <2>3
    <3>2. QED BY <1>3, <2>1, <3>1
  <2>4. QED BY <2>3
<1>6. \A x, y \in at : x = y \/ x \in before[y] \/ y \in before[x]
  <2>1. \A x, y \in at : x = y \/ x < y \/ y < x
    OBVIOUS
  <2>2. QED BY <1>3, <2>1
<1>7. StrictOrder(at, before)
  BY <1>4, <1>5, <1>6 DEF StrictOrder
<1>8. QED BY <1>2, <1>7 DEF before

(* Some member is first, and so a set of positions has both its ends.        *)
LEMMA FirstOf ==
  ASSUME NEW S, IsFiniteSet(S), S # {}, NEW before, StrictOrder(S, before)
  PROVE  \E x \in S : before[x] = {}
<1>1. Cardinality(S) \in Nat /\ Cardinality(S) # 0
  BY FS_CardinalityType, FS_EmptySet
<1>2. PICK x \in S : Cardinality(before[x]) = 0
  <2>1. 1 \in 1..Cardinality(S)
    BY <1>1
  <2>2. InOrder(S, before)[1] \in S /\ Cardinality(before[InOrder(S, before)[1]]) = 1 - 1
    BY <2>1, Ranks
  <2>3. QED BY <2>2
<1>3. IsFiniteSet(before[x])
  BY FS_Subset DEF StrictOrder
<1>4. QED BY <1>2, <1>3, FS_EmptySet

(* Positions have both ends, the first of which IndexOf takes.               *)
LEMMA EndsOf ==
  ASSUME NEW n \in Nat, NEW S \in SUBSET (1..n), S # {}
  PROVE  Min(S) \in S /\ Max(S) \in S /\ \A y \in S : y <= Max(S)
<1>1. IsFiniteSet(S)
  BY PlacesOrdered
<1>2. PICK a \in S : [k \in S |-> {j \in S : j < k}][a] = {}
  BY <1>1, PlacesOrdered, FirstOf
<1>3. \A y \in S : a <= y
  BY <1>2
<1> DEFINE after == [k \in S |-> {j \in S : j > k}]
<1>4. \A k \in S : after[k] = {j \in S : j > k}
  OBVIOUS
<1>5. PICK z \in S : after[z] = {}
  <2> HIDE DEF after
  <2>1. \A x \in S : after[x] \subseteq S /\ x \notin after[x]
    BY <1>4
  <2>2. \A x \in S : \A y \in after[x] : after[y] \subseteq after[x]
    <3>1. \A x, y, z \in S : x > y /\ y > z => x > z
      OBVIOUS
    <3>2. QED BY <1>4, <3>1
  <2>3. \A x, y \in S : x = y \/ x \in after[y] \/ y \in after[x]
    <3>1. \A x, y \in S : x = y \/ x > y \/ y > x
      OBVIOUS
    <3>2. QED BY <1>4, <3>1
  <2>4. StrictOrder(S, after)
    BY <2>1, <2>2, <2>3 DEF StrictOrder
  <2>5. QED BY <1>1, <2>4, FirstOf
<1>6. \A y \in S : z >= y
  BY <1>4, <1>5
<1>7. QED BY <1>3, <1>6 DEF Min, Max

Rank(at, k) == Cardinality({j \in at : j < k})

(* A filter keeps rows of the sequence, each at the place that the number of *)
(* kept ones before it gives.                                                *)
LEMMA KeptSound ==
  ASSUME NEW R, NEW s \in Seq(R), NEW at \in SUBSET (1..Len(s))
  PROVE  /\ Kept(s, at) \in Seq(R) /\ Cardinality(at) \in Nat /\ Len(Kept(s, at)) = Cardinality(at)
         /\ \A n \in 1..Cardinality(at) : \E k \in at : Rank(at, k) = n - 1 /\ Kept(s, at)[n] = s[k]
         /\ \A k \in at : /\ Rank(at, k) + 1 \in 1..Cardinality(at)
                          /\ Kept(s, at)[Rank(at, k) + 1] = s[k]
         /\ \A k, l \in at : Rank(at, k) = Rank(at, l) => k = l
<1> DEFINE before == [k \in at |-> {j \in at : j < k}]
           places == InOrder(at, before)
           n == Cardinality(at)
<1>1. /\ n \in Nat /\ places \in [1..n -> at]
      /\ \A k \in at : Cardinality(before[k]) \in 0..(n - 1)
      /\ \A k, l \in at : Cardinality(before[k]) = Cardinality(before[l]) => k = l
      /\ \A k \in 1..n : Cardinality(before[places[k]]) = k - 1
  <2>1. IsFiniteSet(at) /\ StrictOrder(at, before)
    BY PlacesOrdered, LenProperties
  <2> HIDE DEF before
  <2>2. QED BY <2>1, Ranks
<1>2. Kept(s, at) = [k \in 1..n |-> s[places[k]]]
  BY DEF Kept
<1>3. \A k \in at : Rank(at, k) = Cardinality(before[k])
  BY DEF Rank
<1> HIDE DEF n, places, before
<1>4. \A k \in 1..n : s[places[k]] \in R
  BY <1>1, ElementOfSeq
<1>5. Kept(s, at) \in Seq(R) /\ Len(Kept(s, at)) = n
  BY <1>1, <1>2, <1>4
<1>6. \A k, l \in at : Rank(at, k) = Rank(at, l) => k = l
  BY <1>1, <1>3
<1>7. ASSUME NEW k \in at PROVE Rank(at, k) + 1 \in 1..n /\ Kept(s, at)[Rank(at, k) + 1] = s[k]
  <2>1. Rank(at, k) + 1 \in 1..n /\ Rank(at, k) \in Int
    BY <1>1, <1>3
  <2>2. PICK p \in 1..n : p = Rank(at, k) + 1
    BY <2>1
  <2>3. places[p] \in at /\ Cardinality(before[places[p]]) = p - 1
    BY <1>1
  <2>4. p - 1 = Rank(at, k)
    BY <1>1, <2>1, <2>2
  <2>5. places[p] = k
    BY <1>3, <1>6, <2>3, <2>4
  <2>6. Kept(s, at)[p] = s[k]
    BY <1>2, <2>5
  <2>7. QED BY <2>2, <2>6
<1>8. ASSUME NEW m \in 1..n PROVE \E k \in at : Rank(at, k) = m - 1 /\ Kept(s, at)[m] = s[k]
  <2>1. places[m] \in at /\ Cardinality(before[places[m]]) = m - 1
    BY <1>1
  <2>2. Rank(at, places[m]) = m - 1
    BY <1>3, <2>1
  <2>3. Kept(s, at)[m] = s[places[m]]
    BY <1>2
  <2>4. QED BY <2>1, <2>2, <2>3
<1>9. QED BY <1>1, <1>5, <1>6, <1>7, <1>8 DEF n

(* The ids of items.                                                         *)
LEMMA IdsTyped ==
  ASSUME NEW s \in Seq(ItemType)
  PROVE  /\ Len(s) \in Nat /\ DOMAIN s = 1..Len(s) /\ \A k \in 1..Len(s) : s[k] \in ItemType
         /\ IdsOf(s) \in Seq(Ids) /\ Len(IdsOf(s)) = Len(s) /\ DOMAIN IdsOf(s) = 1..Len(s)
         /\ \A k \in 1..Len(s) : IdsOf(s)[k] = s[k].id /\ s[k].id \in Ids
         /\ Range(s) \subseteq ItemType
<1>1. Len(s) \in Nat /\ DOMAIN s = 1..Len(s) /\ \A k \in 1..Len(s) : s[k] \in ItemType
  BY LenProperties, ElementOfSeq
<1>2. \A k \in 1..Len(s) : s[k].id \in Ids
  BY <1>1 DEF ItemType
<1>3. /\ IdsOf(s) \in Seq(Ids) /\ Len(IdsOf(s)) = Len(s) /\ DOMAIN IdsOf(s) = 1..Len(s)
      /\ \A k \in 1..Len(s) : IdsOf(s)[k] = s[k].id
  BY <1>1, <1>2 DEF IdsOf
<1>4. QED BY <1>1, <1>2, <1>3 DEF Range

(* A filter doubles no row.                                                  *)
LEMMA KeptOnce ==
  ASSUME NEW s \in Seq(ItemType), NEW at \in SUBSET (1..Len(s)), IsInjective(IdsOf(s))
  PROVE  IsInjective(IdsOf(Kept(s, at)))
<1> DEFINE u == Kept(s, at)
<1>1. /\ u \in Seq(ItemType) /\ Len(u) = Cardinality(at) /\ Cardinality(at) \in Nat
      /\ \A n \in 1..Cardinality(at) : \E k \in at : Rank(at, k) = n - 1 /\ u[n] = s[k]
  BY KeptSound
<1> HIDE DEF u
<1>2. ASSUME NEW a \in 1..Len(u), NEW b \in 1..Len(u), u[a].id = u[b].id PROVE a = b
  <2>0. a \in 1..Cardinality(at) /\ b \in 1..Cardinality(at)
    BY <1>1
  <2>1. \A n \in 1..Cardinality(at) : \E k \in at : Rank(at, k) = n - 1 /\ u[n] = s[k]
    BY <1>1
  <2>2. PICK k \in at : Rank(at, k) = a - 1 /\ u[a] = s[k]
    BY <2>0, <2>1
  <2>3. PICK l \in at : Rank(at, l) = b - 1 /\ u[b] = s[l]
    BY <2>0, <2>1
  <2>4. s[k].id = s[l].id
    BY <1>2, <2>2, <2>3
  <2>5. k = l
    BY <2>4, IdsTyped DEF IsInjective
  <2>6. QED BY <1>1, <2>0, <2>2, <2>3, <2>5
<1>3. DOMAIN IdsOf(u) = 1..Len(u) /\ \A k \in 1..Len(u) : IdsOf(u)[k] = u[k].id
  BY <1>1, IdsTyped
<1>4. IsInjective(IdsOf(u))
  BY <1>2, <1>3 DEF IsInjective
<1>5. QED BY <1>4 DEF u

(* A filter that passes everything changes nothing.                          *)
LEMMA KeptAll ==
  ASSUME NEW R, NEW s \in Seq(R)
  PROVE  Kept(s, 1..Len(s)) = s
<1> DEFINE at == 1..Len(s)
           before == [k \in at |-> {j \in at : j < k}]
           places == InOrder(at, before)
<1>1. Len(s) \in Nat /\ at \in SUBSET (1..Len(s)) /\ s \in [at -> R]
  BY LenProperties
<1>2. Cardinality(at) = Len(s)
  BY <1>1, FS_Interval
<1>3. places \in [at -> at] /\ \A k \in at : Cardinality(before[places[k]]) = k - 1
  <2>1. IsFiniteSet(at) /\ StrictOrder(at, before)
    BY <1>1, PlacesOrdered
  <2> HIDE DEF before
  <2>2. /\ InOrder(at, before) \in [1..Cardinality(at) -> at]
        /\ \A k \in 1..Cardinality(at) : Cardinality(before[InOrder(at, before)[k]]) = k - 1
    BY <2>1, Ranks
  <2>3. QED BY <1>2, <2>2
<1>4. ASSUME NEW k \in at PROVE places[k] = k
  <2>0. \A j \in at : before[j] = {i \in at : i < j}
    OBVIOUS
  <2> HIDE DEF before, places
  <2>1. PICK p \in 1..Len(s) : p = places[k]
    BY <1>3
  <2>2. before[p] = 1..(p - 1)
    <3>1. before[p] = {i \in at : i < p}
      BY <2>0
    <3>2. QED BY <1>1, <3>1
  <2>3. Cardinality(1..(p - 1)) = p - 1
    <3>1. p \in Int /\ p - 1 \in Int /\ p >= 1
      BY <1>1
    <3>2. Cardinality(1..(p - 1)) = IF 1 > p - 1 THEN 0 ELSE (p - 1) - 1 + 1
      BY <3>1, FS_Interval
    <3>3. QED BY <3>1, <3>2
  <2>4. p - 1 = k - 1
    BY <1>3, <2>1, <2>2, <2>3
  <2>5. QED BY <1>1, <2>1, <2>4
<1>5. Kept(s, at) = [k \in at |-> s[places[k]]]
  BY <1>2 DEF Kept
<1>6. QED BY <1>1, <1>4, <1>5

-----------------------------------------------------------------------------
(* Sequences: removal, insertion, and the move that a drag is.               *)
LEMMA RemovedSound ==
  ASSUME NEW T, NEW s \in Seq(T), NEW p \in 1..Len(s)
  PROVE  /\ RemoveAt(s, p) \in Seq(T) /\ Len(RemoveAt(s, p)) = Len(s) - 1
         /\ \A j \in 1..(Len(s) - 1) : RemoveAt(s, p)[j] = IF j < p THEN s[j] ELSE s[j + 1]
<1> DEFINE u == SubSeq(s, 1, p - 1)
           w == SubSeq(s, p + 1, Len(s))
<1>1. Len(s) \in Nat /\ p \in 1..Len(s) /\ \A j \in 1..Len(s) : s[j] \in T
  BY LenProperties, ElementOfSeq
<1>2. /\ u \in Seq(T) /\ Len(u) = p - 1
      /\ \A j \in 1..(p - 1) : u[j] = s[j]
  <2>1. 1 \in Int /\ p - 1 \in Int /\ \A j \in 1..(p - 1) : s[j] \in T
    BY <1>1
  <2>2. /\ u \in Seq(T) /\ Len(u) = IF 1 <= p - 1 THEN (p - 1) - 1 + 1 ELSE 0
        /\ \A j \in 1..((p - 1) - 1 + 1) : u[j] = s[1 + j - 1]
    BY <2>1, SubSeqProperties
  <2> HIDE DEF u
  <2>3. QED BY <1>1, <2>2
<1>3. /\ w \in Seq(T) /\ Len(w) = Len(s) - p
      /\ \A j \in 1..(Len(s) - p) : w[j] = s[p + j]
  <2>1. p + 1 \in Int /\ Len(s) \in Int /\ \A j \in (p + 1)..Len(s) : s[j] \in T
    BY <1>1
  <2>2. /\ w \in Seq(T) /\ Len(w) = IF p + 1 <= Len(s) THEN Len(s) - (p + 1) + 1 ELSE 0
        /\ \A j \in 1..(Len(s) - (p + 1) + 1) : w[j] = s[(p + 1) + j - 1]
    BY <2>1, SubSeqProperties
  <2> HIDE DEF w
  <2>3. QED BY <1>1, <2>2
<1>4. /\ u \o w \in Seq(T) /\ Len(u \o w) = Len(u) + Len(w)
      /\ \A j \in 1..(Len(u) + Len(w)) : (u \o w)[j] = IF j <= Len(u) THEN u[j] ELSE w[j - Len(u)]
  BY <1>2, <1>3, ConcatProperties
<1>5. RemoveAt(s, p) = u \o w
  BY DEF RemoveAt
<1> HIDE DEF u, w
<1>6. ASSUME NEW j \in 1..(Len(s) - 1)
      PROVE  (u \o w)[j] = IF j < p THEN s[j] ELSE s[j + 1]
  <2>1. CASE j < p
    BY <1>1, <1>2, <1>3, <1>4, <2>1
  <2>2. CASE ~(j < p)
    <3>1. (u \o w)[j] = w[j - (p - 1)] /\ j - (p - 1) \in 1..(Len(s) - p)
      BY <1>1, <1>2, <1>3, <1>4, <2>2
    <3>2. w[j - (p - 1)] = s[p + (j - (p - 1))] /\ p + (j - (p - 1)) = j + 1
      BY <1>1, <1>3, <3>1
    <3>3. QED BY <2>2, <3>1, <3>2
  <2>3. QED BY <2>1, <2>2
<1>7. Len(u \o w) = Len(s) - 1
  BY <1>1, <1>2, <1>3, <1>4
<1>8. QED BY <1>4, <1>5, <1>6, <1>7

(* An insertion.                                                             *)
LEMMA InsertedSound ==
  ASSUME NEW T, NEW s \in Seq(T), NEW q \in 1..(Len(s) + 1), NEW e \in T
  PROVE  /\ InsertAt(s, q, e) \in Seq(T) /\ Len(InsertAt(s, q, e)) = Len(s) + 1
         /\ \A j \in 1..(Len(s) + 1) :
              InsertAt(s, q, e)[j] = IF j < q THEN s[j] ELSE IF j = q THEN e ELSE s[j - 1]
<1> DEFINE u == SubSeq(s, 1, q - 1)
           w == SubSeq(s, q, Len(s))
           x == u \o <<e>>
<1>1. Len(s) \in Nat /\ q \in 1..(Len(s) + 1) /\ \A j \in 1..Len(s) : s[j] \in T
  BY LenProperties, ElementOfSeq
<1>2. /\ u \in Seq(T) /\ Len(u) = q - 1
      /\ \A j \in 1..(q - 1) : u[j] = s[j]
  <2>1. 1 \in Int /\ q - 1 \in Int /\ \A j \in 1..(q - 1) : s[j] \in T
    BY <1>1
  <2>2. /\ u \in Seq(T) /\ Len(u) = IF 1 <= q - 1 THEN (q - 1) - 1 + 1 ELSE 0
        /\ \A j \in 1..((q - 1) - 1 + 1) : u[j] = s[1 + j - 1]
    BY <2>1, SubSeqProperties
  <2> HIDE DEF u
  <2>3. QED BY <1>1, <2>2
<1>3. /\ w \in Seq(T) /\ Len(w) = Len(s) - q + 1
      /\ \A j \in 1..(Len(s) - q + 1) : w[j] = s[q + j - 1]
  <2>1. q \in Int /\ Len(s) \in Int /\ \A j \in q..Len(s) : s[j] \in T
    BY <1>1
  <2>2. /\ w \in Seq(T) /\ Len(w) = IF q <= Len(s) THEN Len(s) - q + 1 ELSE 0
        /\ \A j \in 1..(Len(s) - q + 1) : w[j] = s[q + j - 1]
    BY <2>1, SubSeqProperties
  <2> HIDE DEF w
  <2>3. QED BY <1>1, <2>2
<1>4. /\ x \in Seq(T) /\ Len(x) = q
      /\ \A j \in 1..q : x[j] = IF j < q THEN s[j] ELSE e
  <2>1. <<e>> \in Seq(T) /\ Len(<<e>>) = 1 /\ <<e>>[1] = e
    OBVIOUS
  <2>2. /\ x \in Seq(T) /\ Len(x) = Len(u) + 1
        /\ \A j \in 1..(Len(u) + 1) : x[j] = IF j <= Len(u) THEN u[j] ELSE <<e>>[j - Len(u)]
    BY <1>2, <2>1, ConcatProperties
  <2> HIDE DEF u, x
  <2>3. QED BY <1>1, <1>2, <2>1, <2>2
<1>5. InsertAt(s, q, e) = x \o w
  BY DEF InsertAt
<1> HIDE DEF u, w, x
<1>6. /\ x \o w \in Seq(T) /\ Len(x \o w) = Len(x) + Len(w)
      /\ \A j \in 1..(Len(x) + Len(w)) : (x \o w)[j] = IF j <= Len(x) THEN x[j] ELSE w[j - Len(x)]
  BY <1>3, <1>4, ConcatProperties
<1>7. \A j \in 1..(Len(s) + 1) :
        (x \o w)[j] = IF j < q THEN s[j] ELSE IF j = q THEN e ELSE s[j - 1]
  BY <1>1, <1>3, <1>4, <1>6
<1>8. QED BY <1>1, <1>3, <1>4, <1>5, <1>6, <1>7

(* A drag keeps every element, and doubles none.                             *)
LEMMA MovedSound ==
  ASSUME NEW T, NEW s \in Seq(T), NEW p \in 1..Len(s), NEW q \in 1..Len(s)
  PROVE  LET v == InsertAt(RemoveAt(s, p), q, s[p])
         IN /\ v \in Seq(T) /\ Len(v) = Len(s) /\ Range(v) = Range(s)
            /\ IsInjective(s) => IsInjective(v)
<1> DEFINE r == RemoveAt(s, p)
           v == InsertAt(r, q, s[p])
           from(j) == IF j = q THEN p
                      ELSE IF j < q THEN (IF j < p THEN j ELSE j + 1)
                      ELSE (IF j - 1 < p THEN j - 1 ELSE j)
           to(i) == IF i = p THEN q
                    ELSE IF i < p THEN (IF i < q THEN i ELSE i + 1)
                    ELSE (IF i - 1 < q THEN i - 1 ELSE i)
<1>1. Len(s) \in Nat /\ p \in 1..Len(s) /\ q \in 1..Len(s) /\ s[p] \in T /\ DOMAIN s = 1..Len(s)
  BY LenProperties, ElementOfSeq
<1>2. /\ r \in Seq(T) /\ Len(r) = Len(s) - 1
      /\ \A j \in 1..(Len(s) - 1) : r[j] = IF j < p THEN s[j] ELSE s[j + 1]
  BY RemovedSound
<1> HIDE DEF r
<1>3. /\ v \in Seq(T) /\ Len(v) = Len(r) + 1
      /\ \A j \in 1..(Len(r) + 1) : v[j] = IF j < q THEN r[j] ELSE IF j = q THEN s[p] ELSE r[j - 1]
  <2>1. q \in 1..(Len(r) + 1)
    BY <1>1, <1>2
  <2>2. QED BY <1>1, <1>2, <2>1, InsertedSound
<1>4. DOMAIN v = 1..Len(s) /\ Len(v) = Len(s)
  BY <1>1, <1>2, <1>3, LenProperties
<1> HIDE DEF v
<1>5. ASSUME NEW j \in 1..Len(s)
      PROVE  from(j) \in 1..Len(s) /\ v[j] = s[from(j)] /\ to(from(j)) = j
  <2>1. from(j) \in 1..Len(s) /\ to(from(j)) = j
    BY <1>1
  <2>2. CASE j = q
    BY <1>1, <1>2, <1>3, <2>2
  <2>3. CASE j < q
    BY <1>1, <1>2, <1>3, <2>3
  <2>4. CASE j > q
    <3>1. v[j] = r[j - 1] /\ j - 1 \in 1..(Len(s) - 1)
      BY <1>1, <1>2, <1>3, <2>4
    <3>2. r[j - 1] = IF j - 1 < p THEN s[j - 1] ELSE s[j]
      BY <1>1, <1>2, <3>1
    <3>3. QED BY <2>4, <3>1, <3>2
  <2>5. QED BY <1>1, <2>1, <2>2, <2>3, <2>4
<1>6. \A i \in 1..Len(s) : to(i) \in 1..Len(s) /\ from(to(i)) = i
  BY <1>1
<1>7. \A i, j \in 1..Len(s) : from(i) = from(j) => i = j
  BY <1>5
<1> HIDE DEF from, to
<1>8. Range(v) = Range(s)
  <2>1. ASSUME NEW j \in 1..Len(s) PROVE v[j] \in {s[i] : i \in 1..Len(s)}
    BY <1>5
  <2>2. ASSUME NEW i \in 1..Len(s) PROVE s[i] \in {v[j] : j \in 1..Len(s)}
    <3>1. to(i) \in 1..Len(s) /\ v[to(i)] = s[from(to(i))] /\ from(to(i)) = i
      BY <1>5, <1>6
    <3>2. v[to(i)] = s[i]
      BY <3>1
    <3>3. QED BY <3>1, <3>2
  <2>3. QED BY <1>1, <1>4, <2>1, <2>2 DEF Range
<1>9. IsInjective(s) => IsInjective(v)
  BY <1>1, <1>4, <1>5, <1>7 DEF IsInjective
<1>10. QED BY <1>3, <1>4, <1>8, <1>9 DEF v, r

(* The first place of an element.                                            *)
LEMMA PlaceOf ==
  ASSUME NEW T, NEW s \in Seq(T), NEW i \in Range(s)
  PROVE  IndexOf(s, i) \in 1..Len(s) /\ s[IndexOf(s, i)] = i
<1> DEFINE places == {k \in 1..Len(s) : s[k] = i}
<1>1. places \in SUBSET (1..Len(s)) /\ places # {} /\ Len(s) \in Nat
  BY LenProperties DEF Range
<1>2. IndexOf(s, i) = Min(places)
  BY <1>1 DEF IndexOf
<1>3. Min(places) \in places
  <2> HIDE DEF places
  <2>1. QED BY <1>1, EndsOf
<1>4. QED BY <1>2, <1>3

-----------------------------------------------------------------------------
(* The inductive invariant.                                                  *)

(* The server has rows of ids that it hands out, and transactions that carry *)
(* what they are to write.                                                   *)
RowType == [text : Texts, checked : BOOLEAN, due : BOOLEAN, ord : Nat]
RowsUpTo(r, k) == DOMAIN r \subseteq 1..k /\ r \in [DOMAIN r -> RowType]
AnyText == Texts \cup {NoText}
SomeId == Ids \cup {None}
Kinds == Updates \cup {"create", "delete", "order"}
Values == Texts \cup BOOLEAN \cup Seq(Ids) \cup {None}
Fits(kind, value) == /\ kind \in {"toggle", "restore", "date"} => value \in BOOLEAN
                     /\ kind \in {"rename", "create"} => value \in Texts
                     /\ kind = "order" => value \in Seq(Ids)
ForeignKinds == {"rename", "toggle", "order", "create", "delete"}
TransactionType ==
  [c : Int, kind : ForeignKinds, id : SomeId, value : Values, same : BOOLEAN, status : {"loaded"}]
Transaction(t) ==
  t \in TransactionType /\ Fits(t.kind, t.value) /\ (t.kind = "create" => t.id \in Ids)
ServerSound == /\ log \in Seq(Nat) /\ begun \in 0..MaxItems
               /\ RowsUpTo(rows, MaxItems)
               /\ \A t \in others : Transaction(t)

(* What a GET has brought, or is bringing, holds no row twice, and the gaps  *)
(* say when what is on screen may.                                           *)
EntryType ==
  [has : BOOLEAN, items : Seq(ItemType), stale : BOOLEAN, error : BOOLEAN,
   get : {"none", "sent", "answered"}, got : Seq(ItemType), asOf : Nat]
GapNames == {"lateGet", "crossed", "doubled", "rolledback", "unanswered", "skipped"}
Excused(g) == g \cap {"doubled", "rolledback"} # {}
DetailSound == /\ detail \in EntryType /\ gaps \subseteq GapNames
               /\ IsInjective(IdsOf(detail.got))
               /\ Excused(gaps) \/ IsInjective(IdsOf(detail.items))

(* An open row control is on a row that is shown, and what a rename would    *)
(* send is a text.                                                           *)
BoxType == [text : AnyText, active : SomeId, dismissed : BOOLEAN]
ControlType == [mode : {"idle", "rename", "date", "delete"}, id : SomeId, draft : AnyText]
PileType == [on : BOOLEAN, open : BOOLEAN]
SpentType == [calls : Int, foreign : Int, faults : Int]
OwedType == [failed : SUBSET AnyText, over : SUBSET AnyText]
ShownIn(items, p, id) ==
  \E x \in Range(items) : x.id = id /\ (p.on /\ x.checked => p.open)
ControlSound(r, items, p) == /\ r \in ControlType
                             /\ r.mode = "rename" => r.draft \in Texts
                             /\ r # Idle => ShownIn(items, p, r.id)
ScreenSound == /\ box \in BoxType /\ pile \in PileType /\ spent \in SpentType
               /\ ControlSound(row, detail.items, pile)
               /\ owed \in OwedType /\ FailedTextKept

(* A request carries what its kind needs.  What an order would roll back to  *)
(* holds no row twice if what it put on screen does not.                     *)
Restored == [text : Texts]
Submitted == [text : Texts, dismissed : BOOLEAN, pile : Seq(ItemType)]
Dragged == [from : Seq(ItemType), to : Seq(ItemType), pile : BOOLEAN, seen : SUBSET Nat]
CallType ==
  [c : Int, kind : Kinds, id : SomeId, value : Values,
   held : Restored \cup Submitted \cup Dragged \cup {None}, row : BOOLEAN, over : BOOLEAN, same : BOOLEAN,
   n : Nat, status : {"sent", "loaded", "done", "refused", "broken"}, reply : ItemType \cup {None}]
OrderSound(value, held) ==
  /\ held \in Dragged
  /\ IsInjective(IdsOf(held.to)) => IsInjective(IdsOf(held.from))
  /\ IsInjective(IdsOf(held.from)) =>
       /\ SameIds(held.from, value)
       /\ held.pile => \A i \in 1..Len(value) : held.from[i].checked => value[i] = held.from[i].id
CreateSound(value, held) ==
  /\ held \in Submitted
  /\ ~held.dismissed => \A x \in Range(held.pile) : Norm[x.text] # Norm[value]
CallSound(m) == /\ m \in CallType /\ Fits(m.kind, m.value)
                /\ m.kind = "order" => m.id = None /\ OrderSound(m.value, m.held)
                /\ m.kind = "create" => CreateSound(m.value, m.held)
                /\ m.kind = "create" /\ m.status = "loaded" => m.id \in Ids
                /\ m.kind = "restore" => m.held \in Restored
                /\ m.kind \in Updates \cup {"create"} /\ m.status = "done" =>
                     m.reply \in ItemType /\ m.reply.id = m.id

FrameType == [n : Nat, kind : {"refetch", "order", "rename", "toggle"}, id : Nat, value : Values,
              skipped : BOOLEAN]
TrafficSound == /\ \A m \in calls : CallSound(m)
                /\ inbox \in Seq(FrameType)
                /\ \A k \in 1..Len(inbox) : Fits(inbox[k].kind, inbox[k].value)

PageInv == ServerSound /\ DetailSound /\ ScreenSound /\ TrafficSound

-----------------------------------------------------------------------------
(* What a GET returns.                                                       *)

(* The rows of a list are finitely many, ordered as get_list does.           *)
LEMMA RowsOrdered ==
  ASSUME NEW r, NEW k \in Nat, RowsUpTo(r, k)
  PROVE  /\ IsFiniteSet(DOMAIN r) /\ Cardinality(DOMAIN r) \in 0..k
         /\ StrictOrder(DOMAIN r, [i \in DOMAIN r |-> Before(r, i)])
<1> DEFINE D == DOMAIN r
           before == [i \in D |-> Before(r, i)]
<1>1. D \in SUBSET (1..k)
  BY DEF RowsUpTo
<1>2. IsFiniteSet(D) /\ Cardinality(D) \in 0..k
  <2>1. IsFiniteSet(1..k) /\ Cardinality(1..k) = k
    BY FS_Interval
  <2>2. IsFiniteSet(D) /\ Cardinality(D) <= Cardinality(1..k)
    BY <1>1, <2>1, FS_Subset
  <2>3. QED BY <2>1, <2>2, FS_CardinalityType
<1>3. \A i \in D : r[i].ord \in Int /\ i \in Int
  BY <1>1 DEF RowsUpTo, RowType
<1>4. \A i \in D : before[i] = {j \in D : \/ r[j].ord < r[i].ord
                                          \/ r[j].ord = r[i].ord /\ j < i}
  BY DEF Before
<1> HIDE DEF D, before
<1>5. \A x \in D : before[x] \subseteq D /\ x \notin before[x]
  BY <1>3, <1>4
<1>6. \A x \in D : \A y \in before[x] : before[y] \subseteq before[x]
  <2>1. ASSUME NEW x \in D, NEW y \in before[x], NEW z \in before[y] PROVE z \in before[x]
    <3>1. y \in D /\ z \in D
      BY <1>4, <2>1
    <3>2. /\ r[y].ord < r[x].ord \/ (r[y].ord = r[x].ord /\ y < x)
          /\ r[z].ord < r[y].ord \/ (r[z].ord = r[y].ord /\ z < y)
      BY <1>4, <2>1, <3>1
    <3>3. r[z].ord < r[x].ord \/ (r[z].ord = r[x].ord /\ z < x)
      BY <1>3, <3>1, <3>2
    <3>4. QED BY <1>4, <3>1, <3>3
  <2>2. QED BY <2>1
<1>7. \A x, y \in D : x = y \/ x \in before[y] \/ y \in before[x]
  <2>1. \A x, y \in D : \/ x = y
                        \/ r[x].ord < r[y].ord
                        \/ r[x].ord = r[y].ord /\ x < y
                        \/ r[y].ord < r[x].ord
                        \/ r[y].ord = r[x].ord /\ y < x
    BY <1>3
  <2>2. QED BY <1>4, <2>1
<1>8. StrictOrder(D, before)
  BY <1>5, <1>6, <1>7 DEF StrictOrder
<1>9. QED BY <1>2, <1>8 DEF D, before

(* A GET returns each row once, behind those that come before it.            *)
LEMMA ViewSound ==
  ASSUME NEW r, NEW k \in 0..MaxItems, RowsUpTo(r, k)
  PROVE  /\ View(r) \in Seq(ItemType) /\ Len(View(r)) \in 0..k
         /\ Range(IdsOf(View(r))) = DOMAIN r /\ IsInjective(IdsOf(View(r)))
         /\ \A n \in 1..Len(View(r)) : Cardinality(Before(r, View(r)[n].id)) = n - 1
         /\ Len(View(r)) = Cardinality(DOMAIN r)
<1> DEFINE D == DOMAIN r
           before == [i \in D |-> Before(r, i)]
           ids == InOrder(D, before)
           n == Cardinality(D)
           v == View(r)
<1>1. /\ IsFiniteSet(D) /\ n \in 0..k /\ k \in Nat
      /\ ids \in [1..n -> D]
      /\ \A x \in D : Cardinality(before[x]) \in 0..(n - 1)
      /\ \A x, y \in D : Cardinality(before[x]) = Cardinality(before[y]) => x = y
      /\ \A m \in 1..n : Cardinality(before[ids[m]]) = m - 1
  <2>0. k \in Nat
    BY ListPageAssumption
  <2>1. IsFiniteSet(D) /\ StrictOrder(D, before) /\ n \in 0..k
    BY <2>0, RowsOrdered
  <2> HIDE DEF D, before
  <2>2. QED BY <2>0, <2>1, Ranks
<1>2. \A i \in D : i \in Ids /\ Item(r, i) \in ItemType /\ Item(r, i).id = i
  BY ListPageAssumption DEF RowsUpTo, RowType, Item, ItemType, Ids
<1>3. v = [m \in 1..n |-> Item(r, ids[m])]
  BY DEF View
<1>4. \A x \in D : before[x] = Before(r, x)
  OBVIOUS
<1> HIDE DEF n, ids, v, before, D
<1>5. v \in Seq(ItemType) /\ Len(v) = n
  BY <1>1, <1>2, <1>3
<1>6. \A m \in 1..n : v[m].id = ids[m] /\ ids[m] \in D
  BY <1>1, <1>2, <1>3
<1>7. DOMAIN IdsOf(v) = 1..n /\ \A m \in 1..n : IdsOf(v)[m] = ids[m]
  BY <1>5, <1>6, IdsTyped
<1>8. Range(IdsOf(v)) = D
  <2>1. ASSUME NEW x \in D PROVE \E m \in 1..n : ids[m] = x
    <3>1. PICK m \in 1..n : m = Cardinality(before[x]) + 1
      BY <1>1
    <3>2. ids[m] \in D /\ Cardinality(before[ids[m]]) = Cardinality(before[x])
      BY <1>1, <3>1
    <3>3. QED BY <1>1, <3>2
  <2>2. QED BY <1>6, <1>7, <2>1 DEF Range
<1>9. ASSUME NEW a \in 1..n, NEW b \in 1..n, ids[a] = ids[b] PROVE a = b
  <2>1. a - 1 = b - 1
    BY <1>1, <1>9
  <2>2. QED BY <1>1, <2>1
<1>10. IsInjective(IdsOf(v))
  BY <1>7, <1>9 DEF IsInjective
<1>11. \A m \in 1..n : Cardinality(Before(r, v[m].id)) = m - 1
  BY <1>1, <1>4, <1>6
<1>12. QED BY <1>1, <1>5, <1>8, <1>10, <1>11 DEF v, D, n

(* Only younger rows are behind one that all older rows come before.         *)
LEMMA ViewBehind ==
  ASSUME NEW r, NEW n \in 0..MaxItems, RowsUpTo(r, n), NEW i \in DOMAIN r,
         \A j \in DOMAIN r : j < i => j \in Before(r, i),
         NEW k \in 1..Len(View(r)), NEW l \in 1..Len(View(r)), View(r)[k].id = i, l > k
  PROVE  View(r)[l].id > i
<1> DEFINE v == View(r)
           j == v[l].id
           D == DOMAIN r
           before == [x \in D |-> Before(r, x)]
<1>1. /\ v \in Seq(ItemType) /\ Len(v) \in 0..n /\ Range(IdsOf(v)) = D
      /\ \A m \in 1..Len(v) : Cardinality(Before(r, v[m].id)) = m - 1
  BY ViewSound
<1>2. /\ Len(v) \in Nat /\ k \in Nat /\ l \in Nat
      /\ Cardinality(Before(r, i)) = k - 1 /\ Cardinality(Before(r, j)) = l - 1
  BY <1>1
<1>3. j \in D
  <2>1. DOMAIN IdsOf(v) = 1..Len(v) /\ \A m \in 1..Len(v) : IdsOf(v)[m] = v[m].id
    BY <1>1, IdsTyped
  <2>2. l \in 1..Len(v) /\ j = v[l].id
    OBVIOUS
  <2> HIDE DEF v, j
  <2>3. QED BY <1>1, <2>1, <2>2 DEF Range
<1>4. i \in Int /\ j \in Int
  BY <1>3, ListPageAssumption DEF RowsUpTo
<1>5. j # i
  BY <1>2
<1>6. ~(j < i)
  <2> SUFFICES ASSUME j < i PROVE FALSE
    OBVIOUS
  <2>0. n \in Nat
    BY ListPageAssumption
  <2>1. IsFiniteSet(D) /\ StrictOrder(D, before)
    BY <2>0, RowsOrdered
  <2>2. \A x \in D : before[x] = Before(r, x)
    OBVIOUS
  <2> HIDE DEF j, v, D, before
  <2>3. Before(r, j) \subseteq Before(r, i) /\ Before(r, i) \subseteq D
    BY <1>3, <2>1, <2>2 DEF StrictOrder, D
  <2>4. Cardinality(Before(r, j)) <= Cardinality(Before(r, i))
    BY <2>1, <2>3, FS_Subset
  <2>5. QED BY <1>2, <2>4
<1> HIDE DEF j
<1>7. j > i
  BY <1>4, <1>5, <1>6
<1>8. QED BY <1>7 DEF j, v

-----------------------------------------------------------------------------
(* Rows in another order.                                                    *)

(* Ids that are those of the rows, and as many, show that no row is doubled. *)
LEMMA SameIdsOnce ==
  ASSUME NEW s \in Seq(ItemType), NEW ids \in Seq(Ids), SameIds(s, ids)
  PROVE  IsInjective(IdsOf(s))
<1> DEFINE f == IdsOf(s)
           S == 1..Len(s)
           T == Range(f)
<1>1. /\ Len(s) \in Nat /\ DOMAIN f = S
      /\ Len(ids) = Len(s) /\ IsInjective(ids) /\ Range(ids) = T /\ DOMAIN ids = S
  BY IdsTyped, LenProperties DEF SameIds
<1>2. IsFiniteSet(S) /\ Cardinality(S) = Len(s)
  <2>1. \A n \in Nat : IsFiniteSet(1..n) /\ Cardinality(1..n) = n
    BY FS_Interval
  <2>2. QED BY <1>1, <2>1
<1>3. ids \in Bijection(S, T)
  <2> HIDE DEF S, T
  <2>1. ids \in [S -> T] /\ \A y \in T : \E x \in S : ids[x] = y
    BY <1>1, IdsTyped DEF Range
  <2>2. QED BY <1>1, <2>1 DEF Bijection, Injection, Surjection, IsInjective
<1>4. IsFiniteSet(T) /\ Cardinality(T) = Cardinality(S)
  <2> HIDE DEF S, T
  <2>1. ExistsBijection(S, T)
    BY <1>3 DEF ExistsBijection
  <2>2. QED BY <1>2, <2>1, FS_Bijection
<1>5. f \in Surjection(S, T)
  <2>1. f \in [S -> T] /\ \A y \in T : \E x \in S : f[x] = y
    BY <1>1, IdsTyped DEF Range, IdsOf
  <2>2. QED BY <2>1 DEF Surjection
<1> HIDE DEF f, S, T
<1>6. f \in Injection(S, T)
  BY <1>2, <1>4, <1>5, FS_SurjSameCardinalityImpliesInj
<1>7. IsInjective(f)
  BY <1>6 DEF Injection
<1>8. QED BY <1>7 DEF f

(* orderByIds has the rows at the places of their ids, and no others.        *)
LEMMA OrderedSound ==
  ASSUME NEW s \in Seq(ItemType), NEW ids \in Seq(Ids), SameIds(s, ids)
  PROVE  /\ orderByIds(s, ids) \in Seq(ItemType) /\ IdsOf(orderByIds(s, ids)) = ids
         /\ Range(orderByIds(s, ids)) = Range(s)
<1> DEFINE u == orderByIds(s, ids)
<1>1. /\ Len(ids) \in Nat /\ DOMAIN ids = 1..Len(ids) /\ DOMAIN s = 1..Len(s) /\ Len(ids) = Len(s)
      /\ DOMAIN IdsOf(s) = 1..Len(s) /\ \A k \in 1..Len(s) : IdsOf(s)[k] = s[k].id
      /\ Range(ids) = Range(IdsOf(s)) /\ Range(s) \subseteq ItemType
  BY IdsTyped, LenProperties DEF SameIds
<1>2. \A x, y \in Range(s) : x.id = y.id => x = y
  BY <1>1, SameIdsOnce DEF Range, IsInjective
<1>3. ASSUME NEW k \in 1..Len(ids)
      PROVE  RowWith(s, ids[k]) \in Range(s) /\ RowWith(s, ids[k]).id = ids[k]
  <2>1. ids[k] \in Range(IdsOf(s))
    BY <1>1, <1>3 DEF Range
  <2>2. \E x \in Range(s) : x.id = ids[k]
    BY <1>1, <2>1 DEF Range
  <2>3. QED BY <2>2 DEF RowWith
<1>4. u = [k \in 1..Len(ids) |-> RowWith(s, ids[k])]
  BY DEF orderByIds
<1> HIDE DEF u
<1>5. u \in Seq(ItemType) /\ Len(u) = Len(ids) /\ DOMAIN u = 1..Len(ids)
  BY <1>1, <1>3, <1>4
<1>6. IdsOf(u) = ids
  <2>1. DOMAIN IdsOf(u) = 1..Len(ids) /\ \A k \in 1..Len(ids) : IdsOf(u)[k] = ids[k]
    BY <1>3, <1>4, <1>5, IdsTyped
  <2>2. IdsOf(u) \in Seq(Ids)
    BY <1>5, IdsTyped
  <2>3. QED BY <1>1, <1>5, <2>1, <2>2
<1>7. Range(u) = Range(s)
  <2>1. ASSUME NEW x \in Range(s) PROVE \E k \in 1..Len(ids) : u[k] = x
    <3>1. x.id \in Range(ids)
      BY <1>1 DEF Range
    <3>2. PICK k \in 1..Len(ids) : ids[k] = x.id
      BY <1>1, <3>1 DEF Range
    <3>3. QED BY <1>2, <1>3, <1>4, <3>2
  <2>2. \A k \in 1..Len(ids) : u[k] \in Range(s)
    BY <1>3, <1>4
  <2>3. QED BY <1>5, <2>1, <2>2 DEF Range
<1>8. QED BY <1>5, <1>6, <1>7 DEF u

Unchecked(s) == {k \in 1..Len(s) : ~s[k].checked}

(* An order of the unchecked rows, filled in between the checked ones, is an *)
(* order of all rows that moves no checked one.                              *)
LEMMA MergedSound ==
  ASSUME NEW s \in Seq(ItemType), NEW ids \in Seq(Ids),
         Len(ids) = Len(Kept(s, Unchecked(s))), Range(ids) = Range(IdsOf(Kept(s, Unchecked(s))))
  PROVE  /\ mergeActiveOrder(s, ids) \in Seq(Ids)
         /\ IsInjective(IdsOf(s)) /\ IsInjective(ids) => SameIds(s, mergeActiveOrder(s, ids))
         /\ \A i \in 1..Len(s) : s[i].checked => mergeActiveOrder(s, ids)[i] = s[i].id
<1> DEFINE at == Unchecked(s)
           u == Kept(s, at)
           n == Cardinality(at)
           v == mergeActiveOrder(s, ids)
           count(i) == Cardinality({j \in 1..i : ~s[j].checked})
<1>1. /\ Len(s) \in Nat /\ DOMAIN s = 1..Len(s) /\ \A k \in 1..Len(s) : s[k].id \in Ids
      /\ at \in SUBSET (1..Len(s)) /\ \A k \in 1..Len(s) : k \in at <=> ~s[k].checked
      /\ \A k \in 1..Len(s) : IdsOf(s)[k] = s[k].id
      /\ DOMAIN IdsOf(s) = 1..Len(s)
  BY IdsTyped DEF Unchecked
<1> HIDE DEF at
<1>2. /\ u \in Seq(ItemType) /\ Len(u) = n /\ n \in Nat
      /\ \A m \in 1..n : \E k \in at : Rank(at, k) = m - 1 /\ u[m] = s[k]
      /\ \A k \in at : Rank(at, k) + 1 \in 1..n /\ u[Rank(at, k) + 1] = s[k]
      /\ \A k, l \in at : Rank(at, k) = Rank(at, l) => k = l
  <2>1. at \in SUBSET (1..Len(s))
    BY <1>1
  <2>2. u \in Seq(ItemType) /\ n \in Nat /\ Len(u) = n
    BY <2>1, KeptSound
  <2>3. \A m \in 1..n : \E k \in at : Rank(at, k) = m - 1 /\ u[m] = s[k]
    BY <2>1, KeptSound
  <2>4. \A k \in at : Rank(at, k) + 1 \in 1..n /\ u[Rank(at, k) + 1] = s[k]
    BY <2>1, KeptSound
  <2>5. \A k, l \in at : Rank(at, k) = Rank(at, l) => k = l
    BY <2>1, KeptSound
  <2>6. QED BY <2>2, <2>3, <2>4, <2>5
<1>3. DOMAIN IdsOf(u) = 1..n /\ \A m \in 1..n : IdsOf(u)[m] = u[m].id
  <2> HIDE DEF u
  <2>1. QED BY <1>2, IdsTyped
<1>4. ASSUME NEW k \in at PROVE count(k) = Rank(at, k) + 1 /\ count(k) \in 1..n
  <2>0. Len(s) \in Nat /\ k \in 1..Len(s) /\ \A j \in 1..Len(s) : j \in at <=> ~s[j].checked
    BY <1>1
  <2>1. {j \in 1..k : ~s[j].checked} = {j \in at : j < k} \cup {k}
    <3>1. \A j : j \in 1..k <=> j \in 1..Len(s) /\ (j < k \/ j = k)
      BY <2>0
    <3>2. \A j \in at : j \in 1..Len(s)
      BY <1>1
    <3>3. QED BY <2>0, <3>1, <3>2
  <2>2. IsFiniteSet({j \in at : j < k})
    <3>1. IsFiniteSet(at)
      BY <1>1, PlacesOrdered
    <3>2. QED BY <3>1, FS_Subset
  <2>3. Cardinality({j \in at : j < k} \cup {k}) = Cardinality({j \in at : j < k}) + 1
    <3>1. k \notin {j \in at : j < k}
      BY <1>1
    <3>2. QED BY <2>2, <3>1, FS_AddElement
  <2>4. count(k) = Rank(at, k) + 1
    BY <2>1, <2>3 DEF Rank
  <2> HIDE DEF count
  <2>5. Rank(at, k) + 1 \in 1..n
    BY <1>2
  <2>6. QED BY <2>4, <2>5
<1>5. v = [i \in 1..Len(s) |-> IF s[i].checked THEN s[i].id ELSE ids[count(i)]]
  BY DEF mergeActiveOrder
<1> HIDE DEF u, n, v, count
<1>6. DOMAIN ids = 1..n /\ \A m \in 1..n : ids[m] \in Ids
  BY <1>2, LenProperties, ElementOfSeq DEF u, at
<1>7. \A i \in 1..Len(s) : v[i] \in Ids
  BY <1>1, <1>4, <1>5, <1>6
<1>8. v \in Seq(Ids) /\ Len(v) = Len(s) /\ DOMAIN v = 1..Len(s)
  BY <1>1, <1>5, <1>7
<1>9. ASSUME NEW m \in 1..n PROVE \E k \in at : ids[m] = s[k].id
  <2>1. ids[m] \in Range(IdsOf(u))
    BY <1>6 DEF Range, u, at
  <2>2. PICK l \in 1..n : ids[m] = u[l].id
    BY <1>3, <2>1 DEF Range
  <2>3. \A j \in 1..n : \E k \in at : Rank(at, k) = j - 1 /\ u[j] = s[k]
    BY <1>2
  <2>4. PICK k \in at : u[l] = s[k]
    BY <2>3
  <2>5. QED BY <2>2, <2>4
<1>10. ASSUME IsInjective(IdsOf(s)), IsInjective(ids),
              NEW i \in 1..Len(s), NEW j \in 1..Len(s), v[i] = v[j]
       PROVE  i = j
  <2>1. CASE s[i].checked /\ s[j].checked
    BY <1>1, <1>5, <1>10, <2>1 DEF IsInjective
  <2>2. CASE i \in at /\ j \in at
    <3>1. ids[count(i)] = ids[count(j)]
      BY <1>1, <1>5, <1>10, <2>2
    <3>2. count(i) = count(j)
      BY <1>4, <1>6, <1>10, <2>2, <3>1 DEF IsInjective
    <3>3. Rank(at, i) + 1 \in 1..n /\ Rank(at, j) + 1 \in 1..n /\ Rank(at, i) + 1 = Rank(at, j) + 1
      BY <1>4, <2>2, <3>2
    <3>4. Rank(at, i) = Rank(at, j)
      <4>1. Rank(at, i) \in Nat /\ Rank(at, j) \in Nat
        <5>1. IsFiniteSet(at)
          BY <1>1, PlacesOrdered
        <5>2. /\ IsFiniteSet({k \in at : k < i}) /\ IsFiniteSet({k \in at : k < j})
          BY <5>1, FS_Subset
        <5>3. QED BY <5>2, FS_CardinalityType DEF Rank
      <4>2. QED BY <3>3, <4>1
    <3>5. QED BY <1>2, <2>2, <3>4
  <2>3. CASE s[i].checked /\ j \in at
    <3>1. PICK k \in at : ids[count(j)] = s[k].id
      BY <1>4, <1>9, <2>3
    <3>2. s[i].id = s[k].id
      BY <1>1, <1>5, <1>10, <2>3, <3>1
    <3>3. i = k
      BY <1>1, <1>10, <3>2 DEF IsInjective
    <3>4. QED BY <1>1, <2>3, <3>3
  <2>4. CASE i \in at /\ s[j].checked
    <3>1. PICK k \in at : ids[count(i)] = s[k].id
      BY <1>4, <1>9, <2>4
    <3>2. s[j].id = s[k].id
      BY <1>1, <1>5, <1>10, <2>4, <3>1
    <3>3. j = k
      BY <1>1, <1>10, <3>2 DEF IsInjective
    <3>4. QED BY <1>1, <2>4, <3>3
  <2>5. QED BY <1>1, <2>1, <2>2, <2>3, <2>4
<1>11. IsInjective(IdsOf(s)) /\ IsInjective(ids) => IsInjective(v)
  BY <1>8, <1>10 DEF IsInjective
<1>12. Range(v) = Range(IdsOf(s))
  <2>1. ASSUME NEW i \in 1..Len(s) PROVE \E k \in 1..Len(s) : v[i] = s[k].id
    BY <1>1, <1>4, <1>5, <1>9
  <2>2. ASSUME NEW k \in 1..Len(s) PROVE \E i \in 1..Len(s) : v[i] = s[k].id
    <3>1. CASE s[k].checked
      BY <1>5, <3>1
    <3>2. CASE ~s[k].checked
      <4>0. k \in at
        BY <1>1, <3>2
      <4>1. PICK p \in 1..n : p = Rank(at, k) + 1
        BY <1>2, <4>0
      <4>2. u[p].id = s[k].id
        BY <1>2, <4>0, <4>1
      <4>3. s[k].id \in Range(ids)
        BY <1>3, <4>2 DEF Range, u, at
      <4>4. PICK m \in 1..n : ids[m] = s[k].id
        BY <1>6, <4>3 DEF Range
      <4>5. PICK l \in at : Rank(at, l) = m - 1
        BY <1>2
      <4>6. count(l) = m
        BY <1>4, <4>5
      <4>7. QED BY <1>1, <1>5, <4>4, <4>6
    <3>3. QED BY <3>1, <3>2
  <2>3. Range(v) = {v[i] : i \in 1..Len(s)} /\ Range(IdsOf(s)) = {s[k].id : k \in 1..Len(s)}
    BY <1>1, <1>8 DEF Range
  <2>4. ASSUME NEW x \in {v[i] : i \in 1..Len(s)} PROVE x \in {s[k].id : k \in 1..Len(s)}
    <3>1. PICK i \in 1..Len(s) : x = v[i]
      OBVIOUS
    <3>2. PICK k \in 1..Len(s) : v[i] = s[k].id
      BY <2>1
    <3>3. QED BY <3>1, <3>2
  <2>5. {s[k].id : k \in 1..Len(s)} \subseteq {v[i] : i \in 1..Len(s)}
    BY <2>2, Zenon
  <2>6. QED BY <2>3, <2>4, <2>5, Zenon
<1>13. IsInjective(IdsOf(s)) /\ IsInjective(ids) => SameIds(s, v)
  BY <1>8, <1>11, <1>12 DEF SameIds
<1>14. QED BY <1>5, <1>8, <1>13 DEF v

-----------------------------------------------------------------------------
(* What a drag sends and shows.                                              *)

(* Dragging one id to the place of another gives an order of the same ids.   *)
LEMMA MovedIds ==
  ASSUME NEW s \in Seq(ItemType), NEW a, NEW b, {a, b} \subseteq Range(IdsOf(s))
  PROVE  /\ reorderIds(IdsOf(s), a, b) \in Seq(Ids) /\ Len(reorderIds(IdsOf(s), a, b)) = Len(s)
         /\ Range(reorderIds(IdsOf(s), a, b)) = Range(IdsOf(s))
         /\ IsInjective(IdsOf(s)) => IsInjective(reorderIds(IdsOf(s), a, b))
<1> DEFINE ids == IdsOf(s)
<1>1. ids \in Seq(Ids) /\ Len(ids) = Len(s) /\ a \in Range(ids) /\ b \in Range(ids)
  BY IdsTyped
<1> HIDE DEF ids
<1>2. /\ IndexOf(ids, a) \in 1..Len(ids) /\ ids[IndexOf(ids, a)] = a
      /\ IndexOf(ids, b) \in 1..Len(ids)
  BY <1>1, PlaceOf
<1>3. /\ reorderIds(ids, a, b) \in Seq(Ids) /\ Len(reorderIds(ids, a, b)) = Len(ids)
      /\ Range(reorderIds(ids, a, b)) = Range(ids)
      /\ IsInjective(ids) => IsInjective(reorderIds(ids, a, b))
  <2>1. PICK p \in 1..Len(ids), q \in 1..Len(ids) :
          p = IndexOf(ids, a) /\ q = IndexOf(ids, b) /\ ids[p] = a
    BY <1>2
  <2> DEFINE v == InsertAt(RemoveAt(ids, p), q, ids[p])
  <2>2. /\ v \in Seq(Ids) /\ Len(v) = Len(ids) /\ Range(v) = Range(ids)
        /\ IsInjective(ids) => IsInjective(v)
    BY <1>1, MovedSound
  <2>3. reorderIds(ids, a, b) = v
    BY <2>1 DEF reorderIds
  <2> HIDE DEF v
  <2>4. QED BY <2>2, <2>3
<1>4. QED BY <1>1, <1>3 DEF ids

(* The rows that can be dragged: those not in the pile.                      *)
LEMMA ActiveSound ==
  ASSUME detail \in EntryType, pile \in PileType
  PROVE  /\ Active \in Seq(ItemType)
         /\ IsInjective(IdsOf(detail.items)) => IsInjective(IdsOf(Active))
         /\ pile.on => Active = Kept(detail.items, Unchecked(detail.items))
         /\ ~pile.on => Active = detail.items
<1> DEFINE s == detail.items
           at == ActiveAt
<1>1. s \in Seq(ItemType) /\ pile.on \in BOOLEAN
  BY DEF EntryType, PileType
<1>2. at \in SUBSET (1..Len(s)) /\ Active = Kept(s, at)
  BY DEF ActiveAt, Active
<1>3. pile.on => at = Unchecked(s)
  BY DEF ActiveAt, Unchecked, Piled
<1>4. ~pile.on => at = 1..Len(s)
  BY DEF ActiveAt, Piled
<1> HIDE DEF s, at
<1>5. Kept(s, at) \in Seq(ItemType)
  BY <1>1, <1>2, KeptSound
<1>6. IsInjective(IdsOf(s)) => IsInjective(IdsOf(Kept(s, at)))
  BY <1>1, <1>2, KeptOnce
<1>7. Kept(s, 1..Len(s)) = s
  BY <1>1, KeptAll
<1>8. QED BY <1>2, <1>3, <1>4, <1>5, <1>6, <1>7 DEF s

(* The order a drag sends: ids, and if no row is doubled, those of all rows, *)
(* with the checked ones where they were.                                    *)
LEMMA DraggedOrder ==
  ASSUME detail \in EntryType, pile \in PileType, NEW a, NEW b, {a, b} \subseteq Range(IdsOf(Active)),
         NEW order, order = IF pile.on
                            THEN mergeActiveOrder(detail.items, reorderIds(IdsOf(Active), a, b))
                            ELSE reorderIds(IdsOf(Active), a, b)
  PROVE  /\ order \in Seq(Ids)
         /\ IsInjective(IdsOf(detail.items)) =>
              /\ SameIds(detail.items, order)
              /\ pile.on => \A i \in 1..Len(order) :
                              detail.items[i].checked => order[i] = detail.items[i].id
<1> DEFINE s == detail.items
           ids == reorderIds(IdsOf(Active), a, b)
<1>1. /\ s \in Seq(ItemType) /\ Active \in Seq(ItemType)
      /\ IsInjective(IdsOf(s)) => IsInjective(IdsOf(Active))
      /\ pile.on => Active = Kept(s, Unchecked(s))
      /\ ~pile.on => Active = s
  BY ActiveSound DEF EntryType
<1>2. /\ ids \in Seq(Ids) /\ Len(ids) = Len(Active) /\ Range(ids) = Range(IdsOf(Active))
      /\ IsInjective(IdsOf(Active)) => IsInjective(ids)
  BY <1>1, MovedIds
<1> HIDE DEF s, ids
<1>3. CASE pile.on
  <2>1. order = mergeActiveOrder(s, ids)
    BY <1>3 DEF s, ids
  <2>2. /\ mergeActiveOrder(s, ids) \in Seq(Ids)
        /\ IsInjective(IdsOf(s)) /\ IsInjective(ids) => SameIds(s, mergeActiveOrder(s, ids))
        /\ \A i \in 1..Len(s) : s[i].checked => mergeActiveOrder(s, ids)[i] = s[i].id
    BY <1>1, <1>2, <1>3, MergedSound
  <2>3. SameIds(s, order) => Len(order) = Len(s)
    BY DEF SameIds
  <2>4. QED BY <1>1, <1>2, <2>1, <2>2, <2>3 DEF s
<1>4. CASE ~pile.on
  <2>1. order = ids /\ Active = s
    BY <1>1, <1>4 DEF ids
  <2>2. Len(ids) = Len(s) /\ Range(ids) = Range(IdsOf(s)) /\ (IsInjective(IdsOf(s)) => IsInjective(ids))
    BY <1>2, <2>1
  <2>3. IsInjective(IdsOf(s)) => SameIds(s, ids)
    BY <2>2 DEF SameIds
  <2>4. QED BY <1>2, <1>4, <2>1, <2>3 DEF s
<1>5. QED BY <1>3, <1>4

(* Seen are numbers of writes.                                               *)
LEMMA SeenTyped ==
  ASSUME ServerSound
  PROVE  Seen \in SUBSET Nat /\ Len(log) \in Nat
<1>1. Len(log) \in Nat
  BY LenProperties DEF ServerSound
<1>2. QED BY <1>1 DEF Seen

(* A drag shows the same rows, and what it holds to roll back to is as free  *)
(* of doubles as what it shows.                                              *)
LEMMA DragSound ==
  ASSUME PageInv, NEW a \in Ids, NEW b \in Ids, Drag(a, b)
  PROVE  \E order \in Seq(Ids), held \in Dragged :
           /\ Send(Call("order", 0, order, held))
           /\ detail' = Patch(detail, held.to)
           /\ Range(held.to) = Range(detail.items)
           /\ IsInjective(IdsOf(detail.items)) => IsInjective(IdsOf(held.to))
           /\ OrderSound(order, held)
<1> DEFINE s == detail.items
           ids == reorderIds(IdsOf(Active), a, b)
           order == IF pile.on THEN mergeActiveOrder(s, ids) ELSE ids
           after == IF SameIds(s, order) THEN orderByIds(s, order) ELSE s
           held == [from |-> s, to |-> after, pile |-> pile.on, seen |-> Seen]
<1>1. /\ detail \in EntryType /\ pile \in PileType /\ s \in Seq(ItemType)
      /\ pile.on \in BOOLEAN /\ Seen \in SUBSET Nat
  BY SeenTyped DEF PageInv, DetailSound, ScreenSound, EntryType, PileType
<1>2. /\ {a, b} \subseteq Range(IdsOf(Active))
      /\ Send(Call("order", 0, order, held)) /\ detail' = Patch(detail, after)
  BY DEF Drag
<1>3. /\ order \in Seq(Ids)
      /\ IsInjective(IdsOf(s)) =>
           /\ SameIds(s, order)
           /\ pile.on => \A i \in 1..Len(order) : s[i].checked => order[i] = s[i].id
  BY <1>1, <1>2, DraggedOrder
<1> HIDE DEF s, ids, order
<1>4. /\ after \in Seq(ItemType) /\ Range(after) = Range(s)
      /\ IsInjective(IdsOf(s)) => IsInjective(IdsOf(after))
      /\ IsInjective(IdsOf(after)) => IsInjective(IdsOf(s))
  <2>1. CASE SameIds(s, order)
    <3>1. after = orderByIds(s, order) /\ IsInjective(order)
      BY <2>1 DEF SameIds
    <3>2. QED BY <1>1, <1>3, <2>1, <3>1, OrderedSound, SameIdsOnce
  <2>2. CASE ~SameIds(s, order)
    BY <1>1, <2>2
  <2>3. QED BY <2>1, <2>2
<1> HIDE DEF after
<1>5. held \in Dragged /\ held.from = s /\ held.to = after /\ held.pile = pile.on
  BY <1>1, <1>4 DEF Dragged
<1> HIDE DEF held
<1>6. OrderSound(order, held)
  BY <1>3, <1>4, <1>5 DEF OrderSound
<1>7. QED BY <1>2, <1>3, <1>4, <1>5, <1>6 DEF s

-----------------------------------------------------------------------------
(* Parts of the invariant that a step leaves alone.                          *)

(* The server.                                                               *)
LEMMA QuietServer ==
  ASSUME ServerSound, UNCHANGED server PROVE ServerSound'
BY DEF ServerSound, server
(* The cache entry and the gaps.                                             *)
LEMMA QuietDetail ==
  ASSUME DetailSound, UNCHANGED <<detail, gaps>> PROVE DetailSound'
BY DEF DetailSound
(* What is on screen.                                                        *)
LEMMA QuietScreen ==
  ASSUME ScreenSound, UNCHANGED <<box, row, pile, owed, spent, detail>> PROVE ScreenSound'
BY DEF ScreenSound, FailedTextKept
(* Requests and frames.                                                      *)
LEMMA QuietTraffic ==
  ASSUME TrafficSound, UNCHANGED <<calls, inbox>> PROVE TrafficSound'
BY DEF TrafficSound

(* A control stays where it is while the rows of the list are the same ones. *)
LEMMA SameRowsScreen ==
  ASSUME ScreenSound, UNCHANGED <<box, row, pile, owed>>, spent' \in SpentType,
         Range(detail'.items) = Range(detail.items)
  PROVE  ScreenSound'
<1>1. ControlSound(row, detail.items, pile)
  BY DEF ScreenSound
<1>2. ControlSound(row', detail'.items, pile')
  BY <1>1 DEF ControlSound, ShownIn
<1>3. FailedTextKept'
  BY DEF ScreenSound, FailedTextKept
<1>4. QED BY <1>2, <1>3 DEF ScreenSound

(* Counting an event.                                                        *)
LEMMA SpentTyped ==
  ASSUME ScreenSound,
         \/ spent' = [spent EXCEPT !.calls = @ + 1]
         \/ spent' = [spent EXCEPT !.foreign = @ + 1]
         \/ spent' = [spent EXCEPT !.faults = @ + 1]
  PROVE  spent' \in SpentType
BY DEF ScreenSound, SpentType

(* A request that only took another mark, or another status than done.       *)
LEMMA CallKept ==
  ASSUME NEW m, CallSound(m), NEW n \in CallType,
         n.kind = m.kind, n.id = m.id, n.value = m.value, n.held = m.held, n.reply = m.reply,
         n.status = m.status \/ n.status \in {"refused", "broken"}
  PROVE  CallSound(n)
BY DEF CallSound

(* Its marks, and its end.                                                   *)
LEMMA MarksSound ==
  ASSUME NEW m, CallSound(m)
  PROVE  /\ CallSound([m EXCEPT !.row = FALSE])
         /\ CallSound([m EXCEPT !.over = TRUE])
         /\ \A s \in {"refused", "broken"} : CallSound([m EXCEPT !.status = s])
<1>1. m \in CallType
  BY DEF CallSound
<1>2. CallSound([m EXCEPT !.row = FALSE])
  <2> DEFINE n == [m EXCEPT !.row = FALSE]
  <2>1. /\ n \in CallType /\ n.kind = m.kind /\ n.id = m.id /\ n.value = m.value /\ n.held = m.held
        /\ n.reply = m.reply /\ n.status = m.status
    BY <1>1 DEF CallType
  <2> HIDE DEF n
  <2>2. CallSound(n)
    BY <2>1, CallKept
  <2>3. QED BY <2>2 DEF n
<1>3. CallSound([m EXCEPT !.over = TRUE])
  <2> DEFINE n == [m EXCEPT !.over = TRUE]
  <2>1. /\ n \in CallType /\ n.kind = m.kind /\ n.id = m.id /\ n.value = m.value /\ n.held = m.held
        /\ n.reply = m.reply /\ n.status = m.status
    BY <1>1 DEF CallType
  <2> HIDE DEF n
  <2>2. CallSound(n)
    BY <2>1, CallKept
  <2>3. QED BY <2>2 DEF n
<1>4. ASSUME NEW s \in {"refused", "broken"} PROVE CallSound([m EXCEPT !.status = s])
  <2> DEFINE n == [m EXCEPT !.status = s]
  <2>1. /\ n \in CallType /\ n.kind = m.kind /\ n.id = m.id /\ n.value = m.value /\ n.held = m.held
        /\ n.reply = m.reply /\ n.status \in {"refused", "broken"}
    BY <1>1 DEF CallType
  <2> HIDE DEF n
  <2>2. CallSound(n)
    BY <2>1, CallKept
  <2>3. QED BY <2>2 DEF n
<1>5. QED BY <1>2, <1>3, <1>4

(* Drawing the rows anew keeps an open control on a row that is shown; the   *)
(* handlers of rows that are gone hear no answer.                            *)
LEMMA RerenderSound ==
  ASSUME NEW cs, NEW r, Rerender(cs, r), \A c \in cs : CallSound(c),
         ControlSound(r, detail.items, pile), detail \in EntryType
  PROVE  ControlSound(row', detail'.items, pile') /\ \A c \in calls' : CallSound(c)
<1>1. Idle \in ControlType /\ Idle.mode # "rename"
  BY DEF Idle, ControlType, SomeId, AnyText
<1>2. ASSUME r.id \in Remounted PROVE ControlSound(row', detail'.items, pile')
  <2>1. row' = Idle
    BY <1>2 DEF Rerender
  <2>2. QED BY <1>1, <2>1 DEF ControlSound
<1>3. ASSUME r.id \notin Remounted PROVE ControlSound(row', detail'.items, pile')
  <2>1. row' = r
    BY <1>3 DEF Rerender
  <2>2. CASE r = Idle
    BY <1>1, <2>1, <2>2 DEF ControlSound
  <2>3. CASE r # Idle
    <3>1. ShownIn(detail.items, pile, r.id)
      BY <2>3 DEF ControlSound
    <3>2. r.id \in Ids
      <4>1. detail.items \in Seq(ItemType)
        BY DEF EntryType
      <4>2. \A x \in Range(detail.items) : x.id \in Ids
        BY <4>1, IdsTyped DEF ItemType
      <4>3. QED BY <3>1, <4>2 DEF ShownIn
    <3>3. Shown(r.id)
      BY <3>1 DEF Shown, ShownIn, Piled
    <3>4. \E x \in Range(detail'.items) : x.id = r.id /\ (pile'.on /\ x.checked => pile'.open)
      BY <1>3, <3>2, <3>3 DEF Remounted, Shown, Piled
    <3>5. ShownIn(detail'.items, pile', r.id)
      BY <3>4 DEF ShownIn
    <3>6. QED BY <2>1, <3>5 DEF ControlSound
  <2>4. QED BY <2>2, <2>3
<1>4. ASSUME NEW c \in calls' PROVE CallSound(c)
  <2>1. PICK d \in cs : c = d \/ c = [d EXCEPT !.row = FALSE]
    BY DEF Rerender
  <2>2. CallSound(d)
    BY <2>1
  <2>3. QED BY <2>1, <2>2, MarksSound
<1>5. QED BY <1>2, <1>3, <1>4

-----------------------------------------------------------------------------
(* The cache entry.                                                          *)

(* Asking for the list, or marking it stale, changes no rows.                *)
LEMMA FetchSound ==
  ASSUME NEW d \in EntryType
  PROVE  /\ Fetch(d) \in EntryType /\ Fetch(d).items = d.items /\ Fetch(d).got = d.got
         /\ Invalidate(d) \in EntryType /\ Invalidate(d).items = d.items /\ Invalidate(d).got = d.got
<1> DEFINE e == [d EXCEPT !.get = "sent", !.stale = FALSE, !.error = FALSE]
           f == [d EXCEPT !.stale = TRUE]
<1>1. e \in EntryType /\ e.items = d.items /\ e.got = d.got
  BY DEF EntryType
<1>2. f \in EntryType /\ f.items = d.items /\ f.got = d.got
  BY DEF EntryType
<1>3. Fetch(d) = IF d.get # "none" THEN d ELSE e
  BY DEF Fetch
<1>4. Invalidate(d) = IF d.get # "none" THEN f ELSE Fetch(d)
  BY DEF Invalidate
<1> HIDE DEF e, f
<1>5. QED BY <1>1, <1>2, <1>3, <1>4

(* A patch changes the rows if there are any.                                *)
LEMMA PatchSound ==
  ASSUME NEW d \in EntryType, NEW s \in Seq(ItemType)
  PROVE  /\ Patch(d, s) \in EntryType /\ Patch(d, s).got = d.got
         /\ Patch(d, s).items = IF d.has THEN s ELSE d.items
BY DEF Patch, EntryType

(* A cache entry with these rows, and gaps that only excuse more.            *)
LEMMA EntrySound ==
  ASSUME DetailSound, detail' \in EntryType, detail'.got = detail.got,
         NEW more \in SUBSET GapNames, gaps' = gaps \cup more,
         Excused(gaps') \/ (IsInjective(IdsOf(detail.items)) => IsInjective(IdsOf(detail'.items)))
  PROVE  DetailSound'
BY DEF DetailSound, Excused

(* The answer to a GET.                                                      *)
LEMMA AnswerGetStep ==
  ASSUME PageInv, AnswerGet
  PROVE  PageInv'
<1> DEFINE v == View(rows)
           e == [detail EXCEPT !.get = "answered", !.got = v, !.asOf = Len(log)]
<1>1. v \in Seq(ItemType) /\ IsInjective(IdsOf(v))
  <2>1. MaxItems \in 0..MaxItems /\ RowsUpTo(rows, MaxItems)
    BY ListPageAssumption DEF PageInv, ServerSound
  <2>2. QED BY <2>1, ViewSound
<1>2. detail \in EntryType /\ Len(log) \in Nat
  BY SeenTyped DEF PageInv, DetailSound
<1>3. detail' = e /\ gaps' = gaps
  BY DEF AnswerGet
<1> HIDE DEF v
<1>4. e \in EntryType /\ e.items = detail.items /\ e.got = v
  BY <1>1, <1>2 DEF EntryType
<1> HIDE DEF e
<1>5. DetailSound'
  BY <1>1, <1>3, <1>4 DEF PageInv, DetailSound
<1>6. ScreenSound'
  BY <1>3, <1>4, SameRowsScreen DEF PageInv, ScreenSound, AnswerGet, user
<1>7. QED BY <1>5, <1>6, QuietServer, QuietTraffic DEF PageInv, AnswerGet

(* It arrives: its rows are drawn, and the gaps are forgotten.               *)
LEMMA ResolveGetStep ==
  ASSUME PageInv, ResolveGet
  PROVE  PageInv'
<1> DEFINE e == [detail EXCEPT !.has = TRUE, !.items = detail.got, !.error = FALSE,
                               !.get = "none", !.got = <<>>, !.asOf = 0]
           cs == {[c EXCEPT !.over = TRUE] : c \in calls}
<1>1. /\ detail \in EntryType /\ IsInjective(IdsOf(detail.got)) /\ <<>> \in Seq(ItemType)
      /\ \A c \in calls : CallSound(c)
      /\ ControlSound(row, detail.items, pile)
  BY DEF PageInv, DetailSound, ScreenSound, TrafficSound
<1>2. detail' = e /\ (gaps' = {"lateGet"} \/ gaps' = {}) /\ Rerender(cs, row)
  BY DEF ResolveGet
<1>3. e \in EntryType /\ e.items = detail.got /\ e.got = <<>>
  BY <1>1 DEF EntryType
<1> HIDE DEF e
<1>4. IsInjective(IdsOf(<<>>))
  BY DEF IsInjective, IdsOf
<1>5. DetailSound'
  BY <1>1, <1>2, <1>3, <1>4 DEF DetailSound, GapNames
<1>6. \A c \in cs : CallSound(c)
  BY <1>1, MarksSound
<1> HIDE DEF cs
<1>7. ControlSound(row', detail'.items, pile') /\ \A c \in calls' : CallSound(c)
  BY <1>1, <1>2, <1>6, RerenderSound
<1>8. ScreenSound'
  BY <1>7 DEF PageInv, ScreenSound, ResolveGet, FailedTextKept
<1>9. TrafficSound'
  BY <1>7 DEF PageInv, TrafficSound, ResolveGet
<1>10. QED BY <1>5, <1>8, <1>9, QuietServer DEF PageInv, ResolveGet

(* Steps that only change the marks of the entry.                            *)
LEMMA EntryStep ==
  ASSUME PageInv, detail' \in EntryType, detail'.items = detail.items,
         detail'.got = detail.got \/ detail'.got = <<>>,
         spent' \in SpentType, UNCHANGED <<server, inbox, calls, box, row, pile, owed, gaps>>
  PROVE  PageInv'
<1>1. IsInjective(IdsOf(<<>>))
  BY DEF IsInjective, IdsOf
<1>2. DetailSound'
  BY <1>1 DEF PageInv, DetailSound
<1>3. ScreenSound'
  BY SameRowsScreen DEF PageInv
<1>4. QED BY <1>2, <1>3, QuietServer, QuietTraffic DEF PageInv

(* A GET that fails, a retry, and a resync of the stream.                    *)
LEMMA GetSteps ==
  ASSUME PageInv, FailGet \/ Retry \/ Resync
  PROVE  PageInv'
<1>1. detail \in EntryType /\ ScreenSound /\ spent \in SpentType
  BY DEF PageInv, DetailSound, ScreenSound
<1>2. CASE FailGet
  <2> DEFINE e == [detail EXCEPT !.error = TRUE, !.get = "none", !.got = <<>>, !.asOf = 0]
  <2>1. detail' = e
    BY <1>2 DEF FailGet
  <2>2. e \in EntryType /\ e.items = detail.items /\ e.got = <<>>
    BY <1>1, <<>> \in Seq(ItemType) DEF EntryType
  <2> HIDE DEF e
  <2>3. spent' \in SpentType
    BY <1>1, <1>2, SpentTyped DEF FailGet
  <2>4. QED BY <1>2, <2>1, <2>2, <2>3, EntryStep DEF FailGet, user
<1>3. CASE Retry
  BY <1>1, <1>3, FetchSound, EntryStep DEF Retry, user
<1>4. CASE Resync
  <2>1. spent' \in SpentType
    BY <1>1, <1>4, SpentTyped DEF Resync
  <2>2. QED BY <1>1, <1>4, <2>1, FetchSound, EntryStep DEF Resync, user
<1>5. QED BY <1>2, <1>3, <1>4

-----------------------------------------------------------------------------
(* The pile, the add box and the controls.                                   *)

(* The pile opens, closes, or is switched off.                               *)
LEMMA PileSteps ==
  ASSUME PageInv, togglePile \/ togglePileExpanded
  PROVE  PageInv'
<1>1. /\ detail \in EntryType /\ pile \in PileType /\ \A c \in calls : CallSound(c)
      /\ ControlSound(row, detail.items, pile)
  BY DEF PageInv, DetailSound, ScreenSound, TrafficSound
<1>2. pile' \in PileType
  BY <1>1 DEF togglePile, togglePileExpanded, PileType
<1>3. Rerender(calls, row) /\ UNCHANGED <<server, detail, inbox, box, gaps, owed, spent>>
  BY DEF togglePile, togglePileExpanded
<1>4. ControlSound(row', detail'.items, pile') /\ \A c \in calls' : CallSound(c)
  BY <1>1, <1>3, RerenderSound
<1>5. ScreenSound'
  BY <1>2, <1>3, <1>4 DEF PageInv, ScreenSound, FailedTextKept
<1>6. TrafficSound'
  BY <1>3, <1>4 DEF PageInv, TrafficSound
<1>7. QED BY <1>3, <1>5, <1>6, QuietServer, QuietDetail DEF PageInv

(* The pile and the two kinds of match are rows.                             *)
LEMMA MatchesTyped ==
  ASSUME detail \in EntryType, NEW t
  PROVE  /\ Pile \in Seq(ItemType) /\ Exact(t) \in Seq(ItemType) /\ Partial(t) \in Seq(ItemType)
         /\ Exact(t) = <<>> => \A x \in Range(Pile) : Norm[x.text] # Norm[t]
<1> DEFINE s == detail.items
           checked == {k \in 1..Len(s) : s[k].checked}
           p == Pile
           exact == {k \in 1..Len(p) : matchesItemText(p[k].text, t)}
           partial == {k \in 1..Len(p) : p[k].text \in Within[t]}
<1>1. s \in Seq(ItemType) /\ checked \in SUBSET (1..Len(s)) /\ p = Kept(s, checked)
  BY DEF EntryType, Pile, pileOf
<1> HIDE DEF s, checked, p
<1>2. p \in Seq(ItemType)
  BY <1>1, KeptSound
<1>3. exact \in SUBSET (1..Len(p)) /\ partial \in SUBSET (1..Len(p))
  OBVIOUS
<1>4. Exact(t) = Kept(p, exact) /\ Partial(t) = Kept(p, partial)
  BY DEF Exact, Partial, p
<1>5. Kept(p, exact) \in Seq(ItemType) /\ Len(Kept(p, exact)) = Cardinality(exact)
  <2> HIDE DEF exact
  <2>1. QED BY <1>2, <1>3, KeptSound
<1>6. Kept(p, partial) \in Seq(ItemType)
  <2> HIDE DEF partial
  <2>1. QED BY <1>2, <1>3, KeptSound
<1>7. ASSUME Exact(t) = <<>> PROVE \A x \in Range(p) : Norm[x.text] # Norm[t]
  <2>1. Cardinality(exact) = 0
    <3>1. Len(<<>>) = 0
      OBVIOUS
    <3>2. QED BY <1>4, <1>5, <1>7, <3>1
  <2>2. IsFiniteSet(exact)
    <3>1. Len(p) \in Nat
      BY <1>2, LenProperties
    <3> HIDE DEF exact
    <3>2. QED BY <1>3, <3>1, PlacesOrdered
  <2>3. exact = {}
    <3> HIDE DEF exact
    <3>1. QED BY <2>1, <2>2, FS_EmptySet
  <2>4. \A k \in 1..Len(p) : Norm[p[k].text] # Norm[t]
    BY <2>3 DEF matchesItemText
  <2>5. QED BY <1>2, <2>4, IdsTyped DEF Range
<1>8. QED BY <1>2, <1>4, <1>5, <1>6, <1>7 DEF p

(* The suggestions are ids.                                                  *)
LEMMA SuggestionsTyped ==
  ASSUME detail \in EntryType
  PROVE  suggestions \in Seq(Ids)
<1> DEFINE t == box.text
           s == Exact(t) \o Partial(t)
           n == IF Len(s) < MaxSuggestions THEN Len(s) ELSE MaxSuggestions
<1>1. s \in Seq(ItemType)
  BY MatchesTyped, ConcatProperties
<1>2. matchChecked(t) = [i \in 1..n |-> s[i].id]
  BY DEF matchChecked
<1>3. suggestions = <<>> \/ suggestions = matchChecked(t)
  BY DEF suggestions
<1> HIDE DEF s, t
<1>4. n \in Nat /\ \A i \in 1..n : s[i].id \in Ids
  BY <1>1, IdsTyped, ListPageAssumption
<1> HIDE DEF n
<1>5. [i \in 1..n |-> s[i].id] \in Seq(Ids)
  BY <1>4
<1>6. <<>> \in Seq(Ids)
  OBVIOUS
<1>7. QED BY <1>2, <1>3, <1>5, <1>6

(* Leaving the text of the box behind, nothing more is owed for it.          *)
LEMMA LeftSound ==
  ASSUME PageInv, owed' = LeftBox
  PROVE  owed' \in OwedType /\ FailedTextKept'
<1>1. owed \in OwedType /\ owed.failed \subseteq {box.text} \cup owed.over
  BY DEF PageInv, ScreenSound, FailedTextKept
<1>2. LeftBox \in OwedType /\ LeftBox.failed = owed.failed \ {box.text} /\ LeftBox.over = owed.over
  BY <1>1 DEF LeftBox, OwedType
<1>3. QED BY <1>1, <1>2 DEF FailedTextKept

(* Steps that only change the add box.                                       *)
LEMMA BoxOnly ==
  ASSUME PageInv, box' \in BoxType,
         owed' = LeftBox \/ (owed' = owed /\ box'.text = box.text),
         UNCHANGED <<server, detail, inbox, calls, row, pile, gaps, spent>>
  PROVE  PageInv'
<1>1. owed' \in OwedType /\ FailedTextKept'
  BY LeftSound DEF PageInv, ScreenSound, FailedTextKept
<1>2. ScreenSound'
  BY <1>1 DEF PageInv, ScreenSound
<1>3. QED BY <1>2, QuietServer, QuietDetail, QuietTraffic DEF PageInv

(* Typing, and moving the highlight.                                         *)
LEMMA BoxSteps ==
  ASSUME PageInv, (\E t \in Typed : Type(t)) \/ ArrowDown \/ ArrowUp \/ Escape
  PROVE  PageInv'
<1> DEFINE n == Len(suggestions)
           at == IndexOf(suggestions, box.active)
<1>1. box \in BoxType /\ detail \in EntryType
  BY DEF PageInv, ScreenSound, DetailSound
<1>2. /\ suggestions \in Seq(Ids) /\ n \in Nat /\ (suggestions # <<>> => n > 0)
      /\ \A k \in 1..n : suggestions[k] \in SomeId
  BY <1>1, SuggestionsTyped, LenProperties, ElementOfSeq, EmptySeq DEF SomeId
<1>3. at \in 0..n
  <2> DEFINE places == {k \in 1..n : suggestions[k] = box.active}
  <2>1. at = IF places # {} THEN Min(places) ELSE 0
    BY DEF IndexOf
  <2>2. places \in SUBSET (1..n)
    OBVIOUS
  <2> HIDE DEF places, n, at
  <2>3. places # {} => Min(places) \in places
    BY <1>2, <2>2, EndsOf
  <2>4. places # {} => Min(places) \in 1..n
    BY <2>2, <2>3
  <2>5. QED BY <1>2, <2>1, <2>4
<1>4. CASE \E t \in Typed : Type(t)
  <2>1. PICK t \in Typed : /\ box' = [text |-> t, active |-> None, dismissed |-> FALSE]
                           /\ owed' = LeftBox
    BY <1>4 DEF Type
  <2>2. box' \in BoxType
    BY <2>1, ListPageAssumption DEF BoxType, AnyText, SomeId
  <2>3. QED BY <1>4, <2>1, <2>2, BoxOnly DEF Type
<1>5. CASE ArrowDown
  <2>1. suggestions # <<>> /\ box' = [box EXCEPT !.active = suggestions[(at % n) + 1]]
    BY <1>5 DEF ArrowDown
  <2>2. (at % n) + 1 \in 1..n
    BY <1>2, <1>3, <2>1
  <2> HIDE DEF at, n
  <2>3. box' \in BoxType /\ box'.text = box.text
    BY <1>1, <1>2, <2>1, <2>2 DEF BoxType
  <2>4. QED BY <1>5, <2>3, BoxOnly DEF ArrowDown
<1>6. CASE ArrowUp
  <2>1. /\ suggestions # <<>>
        /\ box' = [box EXCEPT !.active = suggestions[IF at <= 1 THEN n ELSE at - 1]]
    BY <1>6 DEF ArrowUp
  <2>2. (IF at <= 1 THEN n ELSE at - 1) \in 1..n
    BY <1>2, <1>3, <2>1
  <2> HIDE DEF at, n
  <2>3. box' \in BoxType /\ box'.text = box.text
    BY <1>1, <1>2, <2>1, <2>2 DEF BoxType
  <2>4. QED BY <1>6, <2>3, BoxOnly DEF ArrowUp
<1>7. CASE Escape
  <2>1. box' \in BoxType /\ box'.text = box.text
    BY <1>1, <1>7 DEF Escape, BoxType, SomeId
  <2>2. QED BY <1>7, <2>1, BoxOnly DEF Escape
<1>8. QED BY <1>4, <1>5, <1>6, <1>7

(* Steps that only change the control.                                       *)
LEMMA ControlOnly ==
  ASSUME PageInv, ControlSound(row', detail.items, pile),
         UNCHANGED <<server, detail, inbox, calls, box, pile, gaps, owed, spent>>
  PROVE  PageInv'
<1>1. ScreenSound'
  BY DEF PageInv, ScreenSound, FailedTextKept
<1>2. QED BY <1>1, QuietServer, QuietDetail, QuietTraffic DEF PageInv

(* No control.                                                               *)
LEMMA IdleSound ==
  ASSUME NEW s, NEW p PROVE ControlSound(Idle, s, p)
BY DEF ControlSound, Idle, ControlType, SomeId, AnyText

(* The row of an id that is among the items.                                 *)
LEMMA RowWithSound ==
  ASSUME NEW s \in Seq(ItemType), NEW i, \E x \in Range(s) : x.id = i
  PROVE  RowWith(s, i) \in ItemType /\ RowWith(s, i).id = i /\ i \in Ids
<1>1. RowWith(s, i) \in Range(s) /\ RowWith(s, i).id = i
  BY DEF RowWith
<1>2. RowWith(s, i) \in ItemType
  BY <1>1, IdsTyped
<1>3. QED BY <1>1, <1>2 DEF ItemType

(* Controls open on rows that are shown, and their draft is a text.          *)
LEMMA ControlSteps ==
  ASSUME PageInv,
         \/ \E i \in Ids : \E mode \in {"rename", "date", "delete"} : OpenControl(i, mode)
         \/ CloseControl \/ \E t \in Typed : Draft(t)
  PROVE  PageInv'
<1>1. detail \in EntryType /\ detail.items \in Seq(ItemType) /\ ControlSound(row, detail.items, pile)
  BY DEF PageInv, ScreenSound, DetailSound, EntryType
<1>2. UNCHANGED <<server, detail, inbox, calls, box, pile, gaps, owed, spent>>
  BY DEF OpenControl, CloseControl, Draft, RowStep
<1>3. ASSUME NEW i \in Ids, NEW mode \in {"rename", "date", "delete"}, OpenControl(i, mode)
      PROVE  ControlSound(row', detail.items, pile)
  <2>1. Shown(i) /\ row' = [mode |-> mode, id |-> i, draft |-> RowWith(detail.items, i).text]
    BY <1>3 DEF OpenControl, RowStep
  <2>2. ShownIn(detail.items, pile, i)
    BY <2>1 DEF Shown, ShownIn, Piled
  <2>3. RowWith(detail.items, i) \in ItemType
    BY <1>1, <2>2, RowWithSound DEF ShownIn
  <2>4. RowWith(detail.items, i).text \in Texts
    BY <2>3 DEF ItemType
  <2>5. QED BY <2>1, <2>2, <2>4 DEF ControlSound, ControlType, SomeId, AnyText
<1>4. ASSUME CloseControl PROVE ControlSound(row', detail.items, pile)
  BY <1>4, IdleSound DEF CloseControl, RowStep
<1>5. ASSUME NEW t \in Typed, Draft(t) PROVE ControlSound(row', detail.items, pile)
  <2>1. row.mode = "rename" /\ row' = [row EXCEPT !.draft = t]
    BY <1>5 DEF Draft, RowStep
  <2>2. row \in ControlType /\ row # Idle
    BY <1>1, <2>1 DEF ControlSound, Idle
  <2>3. row' \in ControlType /\ row'.draft = t /\ row'.id = row.id /\ t \in Texts
    BY <2>1, <2>2, ListPageAssumption DEF ControlType, AnyText
  <2>4. QED BY <1>1, <2>2, <2>3 DEF ControlSound
<1>6. QED BY <1>2, <1>3, <1>4, <1>5, ControlOnly

-----------------------------------------------------------------------------
(* Requests that are sent.                                                   *)

(* A request carries what its kind needs.                                    *)
LEMMA CallTyped ==
  ASSUME PageInv, NEW kind \in Kinds, NEW i \in SomeId, NEW value \in Values,
         NEW held \in Restored \cup Submitted \cup Dragged \cup {None},
         Fits(kind, value), kind = "order" => i = None /\ OrderSound(value, held),
         kind = "create" => CreateSound(value, held), kind = "restore" => held \in Restored
  PROVE  CallSound(Call(kind, i, value, held))
<1> DEFINE m == Call(kind, i, value, held)
<1>1. spent.calls + 1 \in Int
  BY DEF PageInv, ScreenSound, SpentType
<1>2. /\ m \in CallType /\ m.kind = kind /\ m.value = value /\ m.held = held /\ m.status = "sent"
      /\ m.id = i
  BY <1>1 DEF Call, CallType
<1> HIDE DEF m
<1>3. CallSound(m)
  BY <1>2 DEF CallSound
<1>4. QED BY <1>3 DEF m

(* Sending one more.                                                         *)
LEMMA SentSound ==
  ASSUME PageInv, NEW m, CallSound(m), Send(m), inbox' = inbox
  PROVE  TrafficSound' /\ spent' \in SpentType
<1>1. spent' \in SpentType
  BY SpentTyped DEF PageInv, Send
<1>2. TrafficSound'
  BY DEF PageInv, TrafficSound, Send
<1>3. QED BY <1>1, <1>2

(* A suggestion is offered for a text, and is the id of a row.               *)
LEMMA TargetTyped ==
  ASSUME PageInv
  PROVE  /\ Range(suggestions) \subseteq Ids
         /\ Range(suggestions) # {} => box.text \in Texts
         /\ Target \in SomeId
         /\ Target = None => box.dismissed \/ Exact(box.text) = <<>>
<1>1. detail \in EntryType /\ box.text \in AnyText /\ None \notin Ids
  BY DEF PageInv, DetailSound, ScreenSound, BoxType, None, Ids
<1>2. Range(suggestions) \subseteq Ids
  <2>1. suggestions \in Seq(Ids)
    BY <1>1, SuggestionsTyped
  <2>2. QED BY <2>1, LenProperties, ElementOfSeq DEF Range
<1>3. Range(suggestions) # {} => box.text \in Texts
  <2>1. Range(<<>>) = {}
    BY DEF Range
  <2>2. QED BY <1>1, <2>1 DEF suggestions, AnyText
<1>4. Exact(box.text) # <<>> => Exact(box.text)[1].id \in Ids
  <2>1. Exact(box.text) \in Seq(ItemType)
    BY <1>1, MatchesTyped
  <2>2. Exact(box.text) # <<>> => 1 \in 1..Len(Exact(box.text))
    BY <2>1, EmptySeq, LenProperties
  <2>3. QED BY <2>1, <2>2, IdsTyped
<1>5. Target \in SomeId
  BY <1>2, <1>4 DEF Target, SomeId
<1>6. Target = None => box.dismissed \/ Exact(box.text) = <<>>
  BY <1>1, <1>2, <1>4 DEF Target
<1>7. QED BY <1>2, <1>3, <1>5, <1>6

(* A submit leaves the box empty, and its text is no longer owed.            *)
LEMMA EmptiedSound ==
  ASSUME PageInv, box' \in BoxType, owed' = LeftBox, spent' \in SpentType, TrafficSound',
         UNCHANGED <<server, detail, row, pile, gaps>>
  PROVE  PageInv'
<1>1. ScreenSound'
  BY LeftSound DEF PageInv, ScreenSound
<1>2. QED BY <1>1, QuietServer, QuietDetail DEF PageInv

(* A checked row is restored under the text that named it.                   *)
LEMMA RestoringStep ==
  ASSUME PageInv, NEW i \in SomeId, box.text \in Texts, Restoring(i)
  PROVE  PageInv'
<1> DEFINE m == Call("restore", i, FALSE, [text |-> box.text])
<1>1. CallSound(m)
  <2>1. [text |-> box.text] \in Restored
    BY DEF Restored
  <2>2. QED BY <2>1, CallTyped DEF Kinds, Updates, Values, Fits
<1> HIDE DEF m
<1>2. Send(m) /\ inbox' = inbox
  BY DEF Restoring, m
<1>3. box' \in BoxType
  <2>1. box \in BoxType
    BY DEF PageInv, ScreenSound
  <2>2. box' = [box EXCEPT !.text = NoText, !.active = None]
    BY DEF Restoring
  <2>3. QED BY <2>1, <2>2 DEF BoxType, AnyText, SomeId
<1>4. QED BY <1>1, <1>2, <1>3, SentSound, EmptiedSound DEF Restoring

(* The add box: a suggestion is picked, or the text is submitted.            *)
LEMMA SubmitSteps ==
  ASSUME PageInv, (\E i \in Ids : PickSuggestion(i)) \/ handleSubmit
  PROVE  PageInv'
<1>1. box \in BoxType /\ detail \in EntryType
  BY DEF PageInv, ScreenSound, DetailSound
<1>2. CASE \E i \in Ids : PickSuggestion(i)
  <2>1. PICK i \in Ids : i \in Range(suggestions) /\ Restoring(i)
    BY <1>2 DEF PickSuggestion
  <2>2. box.text \in Texts /\ i \in SomeId
    BY <2>1, TargetTyped DEF SomeId
  <2>3. QED BY <2>1, <2>2, RestoringStep
<1>3. CASE handleSubmit /\ Target # None
  <2>1. box.text \in Texts
    BY <1>1, <1>3 DEF handleSubmit, BoxType, AnyText
  <2>2. Restoring(Target)
    BY <1>3 DEF handleSubmit
  <2>3. QED BY <2>1, <2>2, TargetTyped, RestoringStep
<1>4. CASE handleSubmit /\ Target = None
  <2> DEFINE held == [text |-> box.text, dismissed |-> box.dismissed, pile |-> Pile]
             m == Call("create", None, box.text, held)
  <2>1. box.text \in Texts
    BY <1>1, <1>4 DEF handleSubmit, BoxType, AnyText
  <2>2. /\ Send(m) /\ box' = [box EXCEPT !.text = NoText] /\ owed' = LeftBox
        /\ UNCHANGED <<server, detail, inbox, row, pile, gaps>>
    BY <1>4 DEF handleSubmit
  <2>3. held \in Submitted /\ held.dismissed = box.dismissed /\ held.pile = Pile
    BY <1>1, <2>1, MatchesTyped DEF Submitted, BoxType
  <2>4. box.dismissed \/ \A x \in Range(Pile) : Norm[x.text] # Norm[box.text]
    BY <1>1, <1>4, TargetTyped, MatchesTyped
  <2> HIDE DEF held
  <2>5. CreateSound(box.text, held)
    BY <2>3, <2>4 DEF CreateSound
  <2>6. CallSound(m)
    BY <2>1, <2>3, <2>5, CallTyped DEF Kinds, Updates, Values, Fits, SomeId
  <2> HIDE DEF m
  <2>7. box' \in BoxType
    BY <1>1, <2>2 DEF BoxType, AnyText
  <2>8. QED BY <2>2, <2>6, <2>7, SentSound, EmptiedSound
<1>5. QED BY <1>2, <1>3, <1>4

(* A request of a row's control, or of its checkbox.                         *)
LEMMA RowSendStep ==
  ASSUME PageInv, NEW m, CallSound(m), Send(m), ControlSound(row', detail.items, pile),
         UNCHANGED <<server, detail, inbox, box, pile, gaps, owed>>
  PROVE  PageInv'
<1>1. TrafficSound' /\ spent' \in SpentType
  BY SentSound
<1>2. ScreenSound'
  BY <1>1 DEF PageInv, ScreenSound, FailedTextKept
<1>3. QED BY <1>1, <1>2, QuietServer, QuietDetail DEF PageInv

(* Checking a row, and the three controls.                                   *)
LEMMA RowSteps ==
  ASSUME PageInv,
         \/ \E i \in Ids : handleToggleItem(i) \/ handleToggle(i)
         \/ submitEdit \/ commitDueDate \/ ConfirmDelete
  PROVE  PageInv'
<1>1. /\ detail.items \in Seq(ItemType) /\ ControlSound(row, detail.items, pile)
      /\ row.id \in SomeId
  BY DEF PageInv, ScreenSound, DetailSound, EntryType, ControlSound, ControlType
<1>2. ASSUME NEW i \in Ids, Toggling(i) PROVE PageInv'
  <2> DEFINE m == Call("toggle", i, ~RowWith(detail.items, i).checked, None)
  <2>1. CallSound(m)
    BY CallTyped DEF Kinds, Updates, Values, Fits, SomeId
  <2> HIDE DEF m
  <2>2. Send(m) /\ UNCHANGED <<server, detail, inbox, box, row, pile, gaps, owed>>
    BY <1>2 DEF Toggling, user, m
  <2>3. QED BY <1>1, <2>1, <2>2, RowSendStep
<1>3. CASE submitEdit
  <2>1. CASE row' = Idle /\ UNCHANGED <<calls, spent>>
    <3>1. ControlSound(row', detail.items, pile)
      BY <2>1, IdleSound
    <3>2. QED BY <1>3, <2>1, <3>1, ControlOnly DEF submitEdit
  <2>2. CASE Send(Call("rename", row.id, row.draft, None)) /\ UNCHANGED row
    <3> DEFINE m == Call("rename", row.id, row.draft, None)
    <3>1. row.draft \in Texts
      BY <1>1, <1>3 DEF submitEdit, ControlSound
    <3>2. CallSound(m)
      BY <1>1, <3>1, CallTyped DEF Kinds, Updates, Values, Fits
    <3>3. Send(m)
      BY <2>2
    <3> HIDE DEF m
    <3>4. QED BY <1>1, <1>3, <2>2, <3>2, <3>3, RowSendStep DEF submitEdit
  <2>3. QED BY <1>3, <2>1, <2>2 DEF submitEdit
<1>4. CASE commitDueDate
  <2>1. PICK due \in BOOLEAN : Send(Call("date", row.id, due, None))
    BY <1>4 DEF commitDueDate
  <2> DEFINE m == Call("date", row.id, due, None)
  <2>2. CallSound(m)
    BY <1>1, CallTyped DEF Kinds, Updates, Values, Fits
  <2>3. Send(m)
    BY <2>1
  <2> HIDE DEF m
  <2>4. UNCHANGED <<server, detail, inbox, box, row, pile, gaps, owed>>
    BY <1>4 DEF commitDueDate, user
  <2>5. QED BY <1>1, <2>2, <2>3, <2>4, RowSendStep
<1>5. CASE ConfirmDelete
  <2> DEFINE m == Call("delete", row.id, None, None)
  <2>1. CallSound(m)
    BY <1>1, CallTyped DEF Kinds, Updates, Values, Fits
  <2>2. Send(m) /\ row' = Idle
    BY <1>5 DEF ConfirmDelete
  <2> HIDE DEF m
  <2>3. QED BY <1>5, <2>1, <2>2, IdleSound, RowSendStep DEF ConfirmDelete
<1>6. QED BY <1>2, <1>3, <1>4, <1>5 DEF handleToggleItem, handleToggle

(* A drag: the same rows in another order, and the request for it.           *)
LEMMA DragStep ==
  ASSUME PageInv, NEW a \in Ids, NEW b \in Ids, Drag(a, b)
  PROVE  PageInv'
<1>1. detail \in EntryType /\ ScreenSound
  BY DEF PageInv, DetailSound
<1>2. PICK order \in Seq(Ids), held \in Dragged :
        /\ Send(Call("order", 0, order, held))
        /\ detail' = Patch(detail, held.to)
        /\ Range(held.to) = Range(detail.items)
        /\ IsInjective(IdsOf(detail.items)) => IsInjective(IdsOf(held.to))
        /\ OrderSound(order, held)
  BY DragSound
<1> DEFINE m == Call("order", 0, order, held)
<1>3. CallSound(m)
  BY <1>2, CallTyped DEF Kinds, Values, Fits, SomeId, None
<1>4. Send(m)
  BY <1>2
<1> HIDE DEF m
<1>5. inbox' = inbox /\ UNCHANGED <<server, box, row, pile, gaps, owed>>
  BY DEF Drag, user
<1>6. TrafficSound' /\ spent' \in SpentType
  BY <1>3, <1>4, <1>5, SentSound
<1>7. held.to \in Seq(ItemType)
  BY DEF Dragged
<1>8. /\ detail' \in EntryType /\ detail'.got = detail.got
      /\ detail'.items = held.to \/ detail'.items = detail.items
  BY <1>1, <1>2, <1>7, PatchSound
<1>9. DetailSound'
  BY <1>2, <1>5, <1>8 DEF PageInv, DetailSound
<1>10. ScreenSound'
  BY <1>1, <1>2, <1>5, <1>6, <1>8, SameRowsScreen
<1>11. QED BY <1>5, <1>6, <1>9, <1>10, QuietServer DEF PageInv

-----------------------------------------------------------------------------
(* Writes that land at the server.                                           *)

(* A row of the server, as its answers give it.                              *)
LEMMA ItemTyped ==
  ASSUME NEW r, NEW k \in 0..MaxItems, RowsUpTo(r, k), NEW i \in DOMAIN r
  PROVE  i \in Ids /\ Item(r, i) \in ItemType /\ Item(r, i).id = i
BY ListPageAssumption DEF RowsUpTo, RowType, Item, ItemType, Ids

(* An update of one field.                                                   *)
LEMMA WithTyped ==
  ASSUME NEW kind \in Updates, NEW value, Fits(kind, value)
  PROVE  /\ \A x \in RowType : With(x, kind, value) \in RowType /\ With(x, kind, value).ord = x.ord
         /\ \A x \in ItemType : With(x, kind, value) \in ItemType /\ With(x, kind, value).id = x.id
<1>1. CASE kind \in {"toggle", "restore"}
  <2>1. value \in BOOLEAN /\ \A x : With(x, kind, value) = [x EXCEPT !.checked = value]
    BY <1>1 DEF Fits, With
  <2>2. QED BY <2>1 DEF RowType, ItemType
<1>2. CASE kind = "rename"
  <2>1. value \in Texts /\ \A x : With(x, kind, value) = [x EXCEPT !.text = value]
    BY <1>2 DEF Fits, With
  <2>2. QED BY <2>1 DEF RowType, ItemType
<1>3. CASE kind = "date"
  <2>1. value \in BOOLEAN /\ \A x : With(x, kind, value) = [x EXCEPT !.due = value]
    BY <1>3 DEF Fits, With
  <2>2. QED BY <2>1 DEF RowType, ItemType
<1>4. QED BY <1>1, <1>2, <1>3 DEF Updates

(* What a write may leave behind: rows of the ids there are.                 *)
RowsSoundNow == RowsUpTo(rows, MaxItems)

(* An update changes one row.                                                *)
LEMMA UpdateLands ==
  ASSUME RowsSoundNow, NEW i \in DOMAIN rows, NEW kind \in Updates, NEW value, Fits(kind, value)
  PROVE  /\ RowsUpTo(Written(kind, i, value), MaxItems)
         /\ DOMAIN Written(kind, i, value) = DOMAIN rows
<1> DEFINE y == With(rows[i], kind, value)
           r == Written(kind, i, value)
<1>1. rows[i] \in RowType /\ rows \in [DOMAIN rows -> RowType] /\ DOMAIN rows \subseteq 1..MaxItems
  BY DEF RowsSoundNow, RowsUpTo
<1>2. y \in RowType
  BY <1>1, WithTyped
<1>3. r = [rows EXCEPT ![i] = y]
  BY DEF Written
<1> HIDE DEF y, r
<1>4. DOMAIN r = DOMAIN rows /\ r \in [DOMAIN rows -> RowType]
  BY <1>1, <1>2, <1>3
<1>5. QED BY <1>1, <1>4 DEF RowsUpTo, r

(* A delete leaves the others.                                               *)
LEMMA DeleteLands ==
  ASSUME RowsSoundNow, NEW i
  PROVE  RowsUpTo(Without(i), MaxItems) /\ DOMAIN Without(i) \subseteq DOMAIN rows
<1> DEFINE r == Without(i)
<1>1. rows \in [DOMAIN rows -> RowType] /\ DOMAIN rows \subseteq 1..MaxItems
  BY DEF RowsSoundNow, RowsUpTo
<1>2. r = [j \in DOMAIN rows \ {i} |-> rows[j]]
  BY DEF Without
<1> HIDE DEF r
<1>3. DOMAIN r = DOMAIN rows \ {i} /\ r \in [DOMAIN r -> RowType]
  BY <1>1, <1>2
<1>4. QED BY <1>1, <1>3 DEF RowsUpTo, r

(* An order gives the rows it names their places.                            *)
LEMMA OrderLands ==
  ASSUME RowsSoundNow, NEW order \in Seq(Ids)
  PROVE  RowsUpTo(Reordered(order), MaxItems) /\ DOMAIN Reordered(order) = DOMAIN rows
<1> DEFINE place(j) == IF j \in Range(order) THEN IndexOf(order, j) - 1 ELSE rows[j].ord
           r == Reordered(order)
<1>1. /\ rows \in [DOMAIN rows -> RowType] /\ DOMAIN rows \subseteq 1..MaxItems
      /\ \A j \in DOMAIN rows : rows[j] \in RowType /\ rows[j].ord \in Nat
  BY DEF RowsSoundNow, RowsUpTo, RowType
<1>2. ASSUME NEW j \in DOMAIN rows PROVE [rows[j] EXCEPT !.ord = place(j)] \in RowType
  <2>1. place(j) \in Nat
    <3>1. CASE j \in Range(order)
      <4>1. IndexOf(order, j) \in 1..Len(order) /\ Len(order) \in Nat
        BY <3>1, PlaceOf, LenProperties
      <4>2. QED BY <3>1, <4>1
    <3>2. QED BY <1>1, <3>1
  <2> HIDE DEF place
  <2>2. QED BY <1>1, <2>1 DEF RowType
<1>3. r = [j \in DOMAIN rows |-> [rows[j] EXCEPT !.ord = place(j)]]
  BY DEF Reordered
<1> HIDE DEF r, place
<1>4. DOMAIN r = DOMAIN rows /\ r \in [DOMAIN rows -> RowType]
  BY <1>2, <1>3
<1>5. QED BY <1>1, <1>4 DEF RowsUpTo, r

(* The next sort_order is at least that of every row.                        *)
LEMMA NextOrderSound ==
  ASSUME RowsSoundNow
  PROVE  NextOrder \in Nat /\ \A i \in DOMAIN rows : rows[i].ord <= NextOrder
<1> DEFINE D == DOMAIN rows
           ords == {rows[i].ord : i \in D}
           above == [i \in D |-> {j \in D : \/ rows[j].ord > rows[i].ord
                                            \/ rows[j].ord = rows[i].ord /\ j > i}]
           top == CHOOSE m \in {0} \cup ords : \A i \in D : rows[i].ord <= m
<1>1. D \in SUBSET (1..MaxItems) /\ \A i \in D : rows[i].ord \in Nat /\ i \in Int
  BY ListPageAssumption DEF RowsSoundNow, RowsUpTo, RowType
<1>2. IsFiniteSet(D)
  BY RowsOrdered, ListPageAssumption DEF RowsSoundNow
<1>3. StrictOrder(D, above)
  <2>1. \A i \in D : above[i] = {j \in D : \/ rows[j].ord > rows[i].ord
                                           \/ rows[j].ord = rows[i].ord /\ j > i}
    OBVIOUS
  <2> HIDE DEF D, above
  <2>2. \A x \in D : above[x] \subseteq D /\ x \notin above[x]
    BY <1>1, <2>1
  <2>3. \A x \in D : \A y \in above[x] : above[y] \subseteq above[x]
    <3>1. ASSUME NEW x \in D, NEW y \in above[x], NEW z \in above[y] PROVE z \in above[x]
      <4>1. y \in D /\ z \in D
        BY <2>1, <3>1
      <4>2. /\ rows[y].ord > rows[x].ord \/ (rows[y].ord = rows[x].ord /\ y > x)
            /\ rows[z].ord > rows[y].ord \/ (rows[z].ord = rows[y].ord /\ z > y)
        BY <2>1, <3>1, <4>1
      <4>3. rows[z].ord > rows[x].ord \/ (rows[z].ord = rows[x].ord /\ z > x)
        BY <1>1, <4>1, <4>2
      <4>4. QED BY <2>1, <4>1, <4>3
    <3>2. QED BY <3>1
  <2>4. \A x, y \in D : x = y \/ x \in above[y] \/ y \in above[x]
    <3>1. \A x, y \in D : \/ x = y
                          \/ rows[x].ord > rows[y].ord
                          \/ rows[x].ord = rows[y].ord /\ x > y
                          \/ rows[y].ord > rows[x].ord
                          \/ rows[y].ord = rows[x].ord /\ y > x
      BY <1>1
    <3>2. QED BY <2>1, <3>1
  <2>5. QED BY <2>2, <2>3, <2>4 DEF StrictOrder
<1>4. \E m \in {0} \cup ords : \A i \in D : rows[i].ord <= m
  <2>1. CASE D = {}
    BY <2>1
  <2>2. CASE D # {}
    <3>1. \A i \in D : above[i] = {j \in D : \/ rows[j].ord > rows[i].ord
                                             \/ rows[j].ord = rows[i].ord /\ j > i}
      OBVIOUS
    <3>2. \A i \in D : rows[i].ord \in {0} \cup ords
      OBVIOUS
    <3> HIDE DEF D, above, ords
    <3>3. PICK x \in D : above[x] = {}
      BY <1>2, <1>3, <2>2, FirstOf
    <3>4. \A i \in D : rows[i].ord <= rows[x].ord
      BY <1>1, <3>1, <3>3
    <3>5. QED BY <3>2, <3>4
  <2>3. QED BY <2>1, <2>2
<1>5. top \in {0} \cup ords /\ \A i \in D : rows[i].ord <= top
  BY <1>4
<1>6. top \in Nat
  <2>1. {0} \cup ords \subseteq Nat
    BY <1>1
  <2> HIDE DEF top, ords
  <2>2. QED BY <1>5, <2>1
<1>7. NextOrder = IF top = 0 THEN 0 ELSE top + 1
  BY DEF NextOrder
<1> HIDE DEF top
<1>8. QED BY <1>1, <1>5, <1>6, <1>7

(* A created row is behind all those that were begun before it.              *)
LEMMA CreateLands ==
  ASSUME RowsSoundNow, NEW n \in Ids, NEW t \in Texts, n \notin DOMAIN rows
  PROVE  LET r == Appended(n, t)
         IN \A j \in DOMAIN r : j < n => j \in Before(r, n)
<1> DEFINE r == Appended(n, t)
           new == [text |-> t, checked |-> FALSE, due |-> FALSE, ord |-> NextOrder]
<1>1. /\ NextOrder \in Nat /\ \A j \in DOMAIN rows : rows[j].ord <= NextOrder /\ rows[j].ord \in Nat
  BY NextOrderSound DEF RowsSoundNow, RowsUpTo, RowType
<1>2. r = [j \in DOMAIN rows \cup {n} |-> IF j = n THEN new ELSE rows[j]] /\ new.ord = NextOrder
  BY DEF Appended
<1> HIDE DEF r, new
<1>3. /\ DOMAIN r = DOMAIN rows \cup {n} /\ r[n] = new
      /\ \A j \in DOMAIN rows : r[j] = rows[j]
  BY <1>2
<1>4. ASSUME NEW j \in DOMAIN r, j < n PROVE j \in Before(r, n)
  <2>1. j \in DOMAIN rows
    <3>1. j # n
      BY <1>4 DEF Ids
    <3>2. QED BY <1>3, <3>1
  <2>2. r[j].ord < r[n].ord \/ r[j].ord = r[n].ord
    BY <1>1, <1>2, <1>3, <2>1
  <2>3. QED BY <1>4, <2>2 DEF Before
<1>5. QED BY <1>4 DEF r

(* And it has an id of its own, or the rows are as many as before.           *)
LEMMA AppendedTyped ==
  ASSUME RowsSoundNow, NEW n \in Ids, NEW t \in Texts
  PROVE  RowsUpTo(Appended(n, t), MaxItems) /\ DOMAIN Appended(n, t) = DOMAIN rows \cup {n}
<1> DEFINE r == Appended(n, t)
           new == [text |-> t, checked |-> FALSE, due |-> FALSE, ord |-> NextOrder]
<1>1. /\ NextOrder \in Nat /\ rows \in [DOMAIN rows -> RowType] /\ DOMAIN rows \subseteq 1..MaxItems
      /\ n \in 1..MaxItems
  BY NextOrderSound DEF RowsSoundNow, RowsUpTo, Ids
<1>2. r = [j \in DOMAIN rows \cup {n} |-> IF j = n THEN new ELSE rows[j]] /\ new \in RowType
  BY <1>1 DEF Appended, RowType
<1> HIDE DEF r, new
<1>3. DOMAIN r = DOMAIN rows \cup {n} /\ r \in [DOMAIN r -> RowType]
  BY <1>1, <1>2
<1>4. QED BY <1>1, <1>3 DEF RowsUpTo, r

(* No write brings a row that an older one does not come before.             *)
NewBehindOlder ==
  \A i \in DOMAIN rows' \ DOMAIN rows : \A j \in DOMAIN rows' : j < i => j \in Before(rows', i)

(* A transaction begins: it has read, and may take the next id.              *)
LEMMA LoadsSound ==
  ASSUME ServerSound, NEW t, t.id \in SomeId, Loads(t)
  PROVE  /\ begun' \in 0..MaxItems /\ rows' = rows /\ log' = log
         /\ t.kind = "create" => begun + 1 \in Ids
         /\ (IF t.kind = "create" THEN begun + 1 ELSE t.id) \in SomeId
BY ListPageAssumption DEF ServerSound, Loads, Ids, SomeId

(* A transaction commits.                                                    *)
LEMMA LandsSound ==
  ASSUME ServerSound, NEW t, t.kind \in Kinds, t.id \in SomeId, Fits(t.kind, t.value),
         t.kind = "create" => t.id \in Ids,
         t.kind \in Updates => t.same \/ t.id \in DOMAIN rows,
         Lands(t), others' \subseteq others
  PROVE  /\ ServerSound' /\ NewBehindOlder
         /\ t.kind \in Updates => DOMAIN rows' = DOMAIN rows
         /\ t.kind = "create" => t.id \in DOMAIN rows'
<1>1. /\ RowsSoundNow /\ log \in Seq(Nat) /\ begun \in 0..MaxItems
      /\ \A x \in others' : Transaction(x)
  BY DEF ServerSound, RowsSoundNow
<1>2. /\ log' = Append(log, t.id) /\ begun' = begun
      /\ rows' = CASE t.kind \in Updates -> IF t.same THEN rows ELSE Written(t.kind, t.id, t.value)
                   [] t.kind = "delete" -> Without(t.id)
                   [] t.kind = "order" -> Reordered(t.value)
                   [] t.kind = "create" -> Appended(t.id, t.value)
  BY DEF Lands
<1>3. log' \in Seq(Nat)
  <2>1. t.id \in Nat
    BY ListPageAssumption DEF SomeId, Ids, None
  <2>2. QED BY <1>1, <1>2, <2>1, AppendProperties
<1>4. /\ RowsUpTo(rows', MaxItems) /\ NewBehindOlder
      /\ t.kind \in Updates => DOMAIN rows' = DOMAIN rows
      /\ t.kind = "create" => t.id \in DOMAIN rows'
  <2>1. CASE t.kind \in Updates
    <3>1. rows' = IF t.same THEN rows ELSE Written(t.kind, t.id, t.value)
      BY <1>2, <2>1 DEF Updates
    <3>2. RowsUpTo(rows', MaxItems) /\ DOMAIN rows' = DOMAIN rows
      BY <1>1, <2>1, <3>1, UpdateLands DEF RowsSoundNow
    <3>3. QED BY <2>1, <3>2 DEF NewBehindOlder, Updates
  <2>2. CASE t.kind = "delete"
    <3>1. rows' = Without(t.id)
      BY <1>2, <2>2 DEF Updates
    <3>2. RowsUpTo(rows', MaxItems) /\ DOMAIN rows' \subseteq DOMAIN rows
      BY <1>1, <3>1, DeleteLands
    <3>3. QED BY <2>2, <3>2 DEF NewBehindOlder, Updates
  <2>3. CASE t.kind = "order"
    <3>1. rows' = Reordered(t.value) /\ t.value \in Seq(Ids)
      BY <1>2, <2>3 DEF Updates, Fits
    <3>2. RowsUpTo(rows', MaxItems) /\ DOMAIN rows' = DOMAIN rows
      BY <1>1, <3>1, OrderLands
    <3>3. QED BY <2>3, <3>2 DEF NewBehindOlder, Updates
  <2>4. CASE t.kind = "create"
    <3>1. rows' = Appended(t.id, t.value) /\ t.value \in Texts /\ t.id \in Ids
      BY <1>2, <2>4 DEF Updates, Fits
    <3>2. RowsUpTo(rows', MaxItems) /\ DOMAIN rows' = DOMAIN rows \cup {t.id}
      BY <1>1, <3>1, AppendedTyped
    <3>3. NewBehindOlder
      <4>1. ASSUME NEW i \in DOMAIN rows' \ DOMAIN rows, NEW j \in DOMAIN rows', j < i
            PROVE  j \in Before(rows', i)
        <5>1. i = t.id
          BY <3>2
        <5>2. QED BY <1>1, <3>1, <4>1, <5>1, CreateLands
      <4>2. QED BY <4>1 DEF NewBehindOlder
    <3>4. QED BY <2>4, <3>2, <3>3 DEF Updates
  <2>5. QED BY <2>1, <2>2, <2>3, <2>4 DEF Kinds
<1>5. QED BY <1>1, <1>2, <1>3, <1>4 DEF ServerSound

(* An own transaction has read.                                              *)
LEMMA LoadStep ==
  ASSUME PageInv, NEW m \in calls, Load(m)
  PROVE  PageInv'
<1> DEFINE i == IF m.kind = "create" THEN begun + 1 ELSE m.id
           same == m.kind \in Updates /\ Written(m.kind, m.id, m.value) = rows
           n == [m EXCEPT !.status = "loaded", !.id = i, !.same = same]
<1>1. /\ CallSound(m) /\ m \in CallType /\ ServerSound /\ m.id \in SomeId /\ Loads(m)
      /\ calls' = (calls \ {m}) \cup {n}
      /\ UNCHANGED <<others, detail, inbox, box, row, pile, gaps, owed, spent>>
  BY DEF PageInv, TrafficSound, CallSound, CallType, Load, Read, user
<1>2. /\ begun' \in 0..MaxItems /\ rows' = rows /\ log' = log
      /\ i \in SomeId /\ (m.kind = "create" => i \in Ids) /\ (m.kind # "create" => i = m.id)
  BY <1>1, LoadsSound
<1>3. same \in BOOLEAN
  OBVIOUS
<1> HIDE DEF i, same
<1>4. /\ n \in CallType /\ n.kind = m.kind /\ n.id = i /\ n.value = m.value /\ n.held = m.held
      /\ n.status = "loaded"
  BY <1>1, <1>2, <1>3 DEF CallType
<1> HIDE DEF n
<1>5. CallSound(n)
  BY <1>1, <1>2, <1>4 DEF CallSound
<1>6. TrafficSound'
  BY <1>1, <1>5 DEF PageInv, TrafficSound
<1>7. ServerSound'
  BY <1>1, <1>2 DEF ServerSound
<1>8. QED BY <1>1, <1>6, <1>7, QuietDetail, QuietScreen DEF PageInv

(* An own write lands, and its answer is under way.                          *)
LEMMA CommitStep ==
  ASSUME PageInv, NEW m \in calls, Commit(m)
  PROVE  PageInv' /\ NewBehindOlder
<1> DEFINE reply == IF m.kind \in Updates \cup {"create"} THEN Item(rows', m.id) ELSE None
           n == [m EXCEPT !.n = Len(log) + 1, !.status = "done", !.reply = reply]
<1>1. /\ CallSound(m) /\ m \in CallType /\ ServerSound /\ Len(log) + 1 \in Nat
      /\ m.kind \in Kinds /\ m.id \in SomeId /\ Fits(m.kind, m.value) /\ m.status = "loaded"
      /\ m.kind = "create" => m.id \in Ids
      /\ m.kind \in Updates => m.id \in DOMAIN rows
      /\ Lands(m)
  BY SeenTyped DEF PageInv, TrafficSound, CallSound, CallType, Commit
<1>2. /\ calls' = (calls \ {m}) \cup {n}
      /\ UNCHANGED <<others, detail, inbox, box, row, pile, gaps, owed, spent>>
  BY DEF Commit, user
<1>3. /\ ServerSound' /\ NewBehindOlder
      /\ m.kind \in Updates \cup {"create"} => m.id \in DOMAIN rows'
  BY <1>1, <1>2, LandsSound
<1>4. /\ reply \in ItemType \cup {None}
      /\ m.kind \in Updates \cup {"create"} => reply \in ItemType /\ reply.id = m.id
  <2>1. RowsUpTo(rows', MaxItems) /\ MaxItems \in 0..MaxItems
    BY <1>3, ListPageAssumption DEF ServerSound
  <2>2. QED BY <1>3, <2>1, ItemTyped
<1> HIDE DEF reply
<1>5. /\ n \in CallType /\ n.kind = m.kind /\ n.id = m.id /\ n.value = m.value /\ n.held = m.held
      /\ n.reply = reply /\ n.status = "done"
  BY <1>1, <1>4 DEF CallType
<1> HIDE DEF n
<1>6. CallSound(n)
  BY <1>1, <1>4, <1>5 DEF CallSound
<1>7. TrafficSound'
  BY <1>2, <1>6 DEF PageInv, TrafficSound
<1>8. QED BY <1>2, <1>3, <1>7, QuietDetail, QuietScreen DEF PageInv

(* A request that comes to nothing.                                          *)
LEMMA LostSteps ==
  ASSUME PageInv, NEW m \in calls, Refuse(m) \/ Lose(m) \/ Break(m)
  PROVE  PageInv'
<1>1. /\ \A c \in calls : CallSound(c)
      /\ ScreenSound /\ inbox' = inbox /\ UNCHANGED <<server, detail, box, row, pile, gaps, owed>>
  BY DEF PageInv, TrafficSound, Refuse, Lose, Break, user
<1>2. PICK s \in {"refused", "broken"} : calls' = (calls \ {m}) \cup {[m EXCEPT !.status = s]}
  BY DEF Refuse, Lose, Break
<1>3. CallSound([m EXCEPT !.status = s])
  BY <1>1, MarksSound
<1>4. TrafficSound'
  BY <1>1, <1>2, <1>3 DEF PageInv, TrafficSound
<1>5. spent' \in SpentType
  BY <1>1, SpentTyped DEF Refuse, Lose, Break, ScreenSound
<1>6. ScreenSound'
  BY <1>1, <1>5, SameRowsScreen
<1>7. QED BY <1>1, <1>4, <1>6, QuietServer, QuietDetail DEF PageInv

-----------------------------------------------------------------------------
(* Other people's writes.                                                    *)

(* A transaction of somebody else has read.                                  *)
LEMMA ForeignStep ==
  ASSUME PageInv, NEW op, NEW kind \in ForeignKinds, NEW i \in SomeId, NEW value \in Values,
         Fits(kind, value), Foreign(op, kind, i, value)
  PROVE  PageInv' /\ UNCHANGED rows
<1> DEFINE t == [c |-> spent.foreign + 1, kind |-> kind, id |-> i, value |-> value,
                 same |-> FALSE, status |-> "sent"]
           x == Read(t)
<1>1. /\ Loads(t) /\ others' = others \cup {x}
      /\ spent' = [spent EXCEPT !.foreign = @ + 1]
      /\ UNCHANGED <<detail, inbox, calls, box, row, pile, gaps, owed>>
  BY DEF Foreign, user
<1>2. ServerSound /\ ScreenSound /\ spent.foreign + 1 \in Int
  BY DEF PageInv, ScreenSound, SpentType
<1>3. /\ begun' \in 0..MaxItems /\ rows' = rows /\ log' = log
      /\ kind = "create" => begun + 1 \in Ids
  <2>1. t.id \in SomeId /\ t.kind = kind
    OBVIOUS
  <2> HIDE DEF t
  <2>2. QED BY <1>1, <1>2, <2>1, LoadsSound
<1>4. Transaction(x)
  <2>1. x = [c |-> spent.foreign + 1, kind |-> kind,
             id |-> IF kind = "create" THEN begun + 1 ELSE i, value |-> value,
             same |-> kind \in Updates /\ Written(kind, i, value) = rows, status |-> "loaded"]
    <3>1. /\ t.c = spent.foreign + 1 /\ t.kind = kind /\ t.id = i /\ t.value = value
          /\ t = [c |-> t.c, kind |-> t.kind, id |-> t.id, value |-> t.value,
                  same |-> FALSE, status |-> "sent"]
      OBVIOUS
    <3> DEFINE same == t.kind \in Updates /\ Written(t.kind, t.id, t.value) = rows
               id == IF t.kind = "create" THEN begun + 1 ELSE t.id
    <3>2. x = [t EXCEPT !.status = "loaded", !.id = id, !.same = same]
      BY DEF Read
    <3> HIDE DEF t, same, id, x
    <3>3. x = [c |-> t.c, kind |-> t.kind, id |-> id, value |-> t.value,
               same |-> same, status |-> "loaded"]
      BY <3>1, <3>2
    <3>4. QED BY <3>1, <3>3 DEF same, id
  <2>2. (IF kind = "create" THEN begun + 1 ELSE i) \in SomeId
    BY <1>3 DEF SomeId
  <2> HIDE DEF x
  <2>3. x \in TransactionType
    BY <1>2, <2>1, <2>2 DEF TransactionType
  <2>4. x.kind = kind /\ x.value = value /\ (kind = "create" => x.id = begun + 1)
    BY <2>1
  <2>5. QED BY <1>3, <2>3, <2>4 DEF Transaction
<1> HIDE DEF x
<1>5. ServerSound'
  BY <1>1, <1>2, <1>3, <1>4 DEF ServerSound
<1>6. spent' \in SpentType
  BY <1>1, <1>2, SpentTyped
<1>7. ScreenSound'
  BY <1>1, <1>2, <1>6, SameRowsScreen
<1>8. QED BY <1>1, <1>3, <1>5, <1>7, QuietDetail, QuietTraffic DEF PageInv

(* An update, an order, a create, a delete by somebody else.                 *)
LEMMA ForeignSteps ==
  ASSUME PageInv,
         \/ \E i \in Ids : \/ \E t \in Theirs : ForeignUpdate(i, "rename", t)
                           \/ \E b \in BOOLEAN : ForeignUpdate(i, "toggle", b)
                           \/ ForeignDelete(i)
         \/ \E a, b \in Ids : ForeignOrder(a, b)
         \/ \E t \in Theirs : ForeignCreate(t)
  PROVE  PageInv' /\ UNCHANGED rows
<1>1. /\ MaxItems \in 0..MaxItems /\ RowsUpTo(rows, MaxItems) /\ Theirs \in SUBSET Texts
      /\ Ids \subseteq SomeId /\ None \in SomeId /\ None \in Values /\ 0 = None
  BY ListPageAssumption DEF PageInv, ServerSound, SomeId, Values, None
<1>2. ASSUME NEW i \in Ids, NEW t \in Theirs, ForeignUpdate(i, "rename", t)
      PROVE  PageInv' /\ UNCHANGED rows
  <2>1. Fits("rename", t) /\ t \in Values /\ "rename" \in ForeignKinds
    BY <1>1 DEF Fits, Values, ForeignKinds
  <2>2. QED BY <1>1, <1>2, <2>1, ForeignStep DEF ForeignUpdate
<1>3. ASSUME NEW i \in Ids, NEW b \in BOOLEAN, ForeignUpdate(i, "toggle", b)
      PROVE  PageInv' /\ UNCHANGED rows
  <2>1. Fits("toggle", b) /\ b \in Values /\ "toggle" \in ForeignKinds
    BY DEF Fits, Values, ForeignKinds
  <2>2. QED BY <1>1, <1>3, <2>1, ForeignStep DEF ForeignUpdate
<1>4. ASSUME NEW i \in Ids, ForeignDelete(i) PROVE PageInv' /\ UNCHANGED rows
  <2>1. Fits("delete", None) /\ "delete" \in ForeignKinds
    BY DEF Fits, ForeignKinds
  <2>2. QED BY <1>1, <1>4, <2>1, ForeignStep DEF ForeignDelete
<1>5. ASSUME NEW a \in Ids, NEW b \in Ids, ForeignOrder(a, b) PROVE PageInv' /\ UNCHANGED rows
  <2> DEFINE v == View(rows)
             order == reorderIds(IdsOf(v), a, b)
  <2>1. {a, b} \subseteq DOMAIN rows /\ Foreign("theirs", "order", 0, order)
    BY <1>5 DEF ForeignOrder
  <2>2. v \in Seq(ItemType) /\ Range(IdsOf(v)) = DOMAIN rows /\ IsInjective(IdsOf(v))
    BY <1>1, ViewSound
  <2> HIDE DEF v
  <2>3. order \in Seq(Ids)
    BY <2>1, <2>2, MovedIds
  <2> HIDE DEF order
  <2>4. Fits("order", order) /\ order \in Values /\ "order" \in ForeignKinds
    BY <2>3 DEF Fits, Values, ForeignKinds
  <2>5. QED BY <1>1, <2>1, <2>4, ForeignStep
<1>6. ASSUME NEW t \in Theirs, ForeignCreate(t) PROVE PageInv' /\ UNCHANGED rows
  <2>1. Fits("create", t) /\ t \in Values /\ "create" \in ForeignKinds
    BY <1>1 DEF Fits, Values, ForeignKinds
  <2>2. QED BY <1>1, <1>6, <2>1, ForeignStep DEF ForeignCreate
<1>7. QED BY <1>2, <1>3, <1>4, <1>5, <1>6

(* It commits, and its frame is on the stream.                               *)
LEMMA ForeignCommitStep ==
  ASSUME PageInv, NEW t \in others, ForeignCommit(t)
  PROVE  PageInv' /\ NewBehindOlder
<1> DEFINE f == Frame(t)
<1>1. /\ ServerSound /\ Transaction(t) /\ t \in TransactionType /\ Fits(t.kind, t.value)
      /\ Lands(t) /\ others' \subseteq others /\ inbox' = Append(inbox, f)
      /\ t.kind \in Updates => t.same \/ t.id \in DOMAIN rows
      /\ UNCHANGED <<detail, calls, box, row, pile, gaps, owed, spent>>
  BY DEF PageInv, ServerSound, Transaction, ForeignCommit, user
<1>2. /\ t.kind \in Kinds /\ t.id \in SomeId /\ t.value \in Values /\ t.same \in BOOLEAN
      /\ t.kind \in ForeignKinds /\ (t.kind = "create" => t.id \in Ids)
  BY <1>1 DEF Transaction, TransactionType, ForeignKinds, Kinds, Updates
<1>3. ServerSound' /\ NewBehindOlder
  BY <1>1, <1>2, LandsSound
<1>4. f \in FrameType /\ Fits(f.kind, f.value)
  <2>1. Len(log) + 1 \in Nat /\ t.id \in Nat
    BY <1>2, SeenTyped, ListPageAssumption DEF PageInv, SomeId, Ids, None
  <2> DEFINE kind == IF t.kind \in {"create", "delete"} THEN "refetch" ELSE t.kind
             skipped == /\ t.same /\ t.id \in DOMAIN rows
                        /\ Written(t.kind, t.id, t.value) # rows
  <2>2. kind \in {"refetch", "order", "rename", "toggle"} /\ skipped \in BOOLEAN
    BY <1>2 DEF ForeignKinds
  <2>3. Fits(kind, t.value)
    BY <1>1, <1>2 DEF Fits, ForeignKinds
  <2>4. f = [n |-> Len(log) + 1, kind |-> kind, id |-> t.id, value |-> t.value, skipped |-> skipped]
    BY DEF Frame
  <2> HIDE DEF kind, skipped, f
  <2>5. QED BY <1>2, <2>1, <2>2, <2>3, <2>4 DEF FrameType
<1> HIDE DEF f
<1>5. /\ inbox \in Seq(FrameType) /\ Len(inbox) \in Nat
      /\ \A k \in 1..Len(inbox) : Fits(inbox[k].kind, inbox[k].value)
  BY LenProperties DEF PageInv, TrafficSound
<1>6. inbox' \in Seq(FrameType) /\ \A k \in 1..Len(inbox') : Fits(inbox'[k].kind, inbox'[k].value)
  <2>1. /\ inbox' \in Seq(FrameType) /\ Len(inbox') = Len(inbox) + 1
        /\ \A k \in 1..Len(inbox) : inbox'[k] = inbox[k]
        /\ inbox'[Len(inbox) + 1] = f
    BY <1>1, <1>4, <1>5, AppendProperties
  <2>2. \A k \in 1..Len(inbox') : k \in 1..Len(inbox) \/ k = Len(inbox) + 1
    BY <1>5, <2>1
  <2>3. QED BY <1>4, <1>5, <2>1, <2>2
<1>7. TrafficSound'
  BY <1>1, <1>6 DEF PageInv, TrafficSound
<1>8. QED BY <1>1, <1>3, <1>7, QuietDetail, QuietScreen DEF PageInv

(* Or it fails, and is forgotten.                                            *)
LEMMA ForeignLoseStep ==
  ASSUME PageInv, NEW t \in others, ForeignLose(t)
  PROVE  PageInv'
<1>1. /\ others' \subseteq others
      /\ UNCHANGED <<rows, begun, log, detail, inbox, calls, box, row, pile, gaps, owed, spent>>
  BY DEF ForeignLose, user
<1>2. ServerSound'
  BY <1>1 DEF PageInv, ServerSound
<1>3. QED BY <1>1, <1>2, QuietDetail, QuietScreen, QuietTraffic DEF PageInv

-----------------------------------------------------------------------------
(* Answers and frames, which change the rows on screen and draw them anew.   *)

(* A row that is not there yet is appended without doubling one.             *)
LEMMA AppendedOnce ==
  ASSUME NEW s \in Seq(ItemType), NEW x \in ItemType
  PROVE  /\ Append(s, x) \in Seq(ItemType)
         /\ IsInjective(IdsOf(s)) /\ ~Holds(s, x.id) => IsInjective(IdsOf(Append(s, x)))
<1> DEFINE u == Append(s, x)
           n == Len(s)
<1>1. /\ u \in Seq(ItemType) /\ Len(u) = n + 1 /\ n \in Nat /\ u[n + 1] = x
      /\ \A k \in 1..n : u[k] = s[k]
  BY AppendProperties, LenProperties
<1>2. /\ DOMAIN IdsOf(s) = 1..n /\ \A k \in 1..n : IdsOf(s)[k] = s[k].id
  BY IdsTyped
<1> HIDE DEF u
<1>3. DOMAIN IdsOf(u) = 1..(n + 1) /\ \A k \in 1..(n + 1) : IdsOf(u)[k] = u[k].id
  BY <1>1, IdsTyped
<1>4. ~Holds(s, x.id) => \A k \in 1..n : s[k].id # x.id
  BY <1>2 DEF Holds, Range
<1> HIDE DEF n
<1>5. ASSUME IsInjective(IdsOf(s)), ~Holds(s, x.id),
             NEW a \in 1..(n + 1), NEW b \in 1..(n + 1), u[a].id = u[b].id
      PROVE  a = b
  <2>1. \A k \in 1..(n + 1) : k \in 1..n \/ k = n + 1
    BY <1>1
  <2>2. CASE a \in 1..n /\ b \in 1..n
    BY <1>1, <1>2, <1>5, <2>2 DEF IsInjective
  <2>3. CASE a = n + 1 /\ b \in 1..n
    BY <1>1, <1>4, <1>5, <2>3
  <2>4. CASE a \in 1..n /\ b = n + 1
    BY <1>1, <1>4, <1>5, <2>4
  <2>5. QED BY <2>1, <2>2, <2>3, <2>4
<1>6. IsInjective(IdsOf(s)) /\ ~Holds(s, x.id) => IsInjective(IdsOf(u))
  BY <1>3, <1>5 DEF IsInjective
<1>7. QED BY <1>1, <1>6 DEF u

(* Rows of the same ids in the same places.                                  *)
LEMMA ReplacedSound ==
  ASSUME NEW s \in Seq(ItemType), NEW y \in [1..Len(s) -> ItemType],
         \A k \in 1..Len(s) : y[k].id = s[k].id
  PROVE  y \in Seq(ItemType) /\ IdsOf(y) = IdsOf(s)
<1>1. Len(s) \in Nat
  BY LenProperties
<1>2. y \in Seq(ItemType) /\ Len(y) = Len(s)
  BY <1>1
<1>3. IdsOf(y) = [k \in 1..Len(s) |-> y[k].id] /\ IdsOf(s) = [k \in 1..Len(s) |-> s[k].id]
  BY <1>2 DEF IdsOf
<1>4. QED BY <1>2, <1>3

(* A step that changes rows and draws them, with a gap for what may be       *)
(* doubled.                                                                  *)
LEMMA DrawnStep ==
  ASSUME PageInv, NEW cs \in SUBSET calls, NEW r, ControlSound(r, detail.items, pile), Rerender(cs, r),
         detail' \in EntryType, detail'.got = detail.got,
         NEW more \in SUBSET GapNames, gaps' = gaps \cup more,
         Excused(gaps') \/ (IsInjective(IdsOf(detail.items)) => IsInjective(IdsOf(detail'.items))),
         inbox' \in Seq(FrameType), \A k \in 1..Len(inbox') : Fits(inbox'[k].kind, inbox'[k].value),
         box' \in BoxType, owed' \in OwedType, FailedTextKept', UNCHANGED <<server, pile, spent>>
  PROVE  PageInv'
<1>1. DetailSound'
  BY EntrySound DEF PageInv
<1>2. ControlSound(row', detail'.items, pile') /\ \A c \in calls' : CallSound(c)
  <2>1. detail \in EntryType /\ \A c \in cs : CallSound(c)
    BY DEF PageInv, DetailSound, TrafficSound
  <2>2. QED BY <2>1, RerenderSound
<1>3. ScreenSound'
  BY <1>2 DEF PageInv, ScreenSound
<1>4. TrafficSound'
  BY <1>2 DEF TrafficSound
<1>5. QED BY <1>1, <1>3, <1>4, QuietServer DEF PageInv

(* The rows after the answer to a write that the server took.                *)
LEMMA AnsweredRows ==
  ASSUME PageInv, NEW m \in calls, m.status = "done",
         addListItem(m) \/ updateListItem(m) \/ deleteListItem(m) \/ reorderListItems(m)
  PROVE  /\ detail' \in EntryType /\ detail'.got = detail.got
         /\ \E more \in SUBSET GapNames : gaps' = gaps \cup more
         /\ Excused(gaps') \/ (IsInjective(IdsOf(detail.items)) => IsInjective(IdsOf(detail'.items)))
<1> DEFINE s == detail.items
<1>1. /\ detail \in EntryType /\ s \in Seq(ItemType) /\ CallSound(m)
  BY DEF PageInv, DetailSound, EntryType, TrafficSound
<1>2. m.kind \in Updates \cup {"create"} => m.reply \in ItemType /\ m.reply.id = m.id
  BY <1>1 DEF CallSound
<1>3. ASSUME addListItem(m)
      PROVE  /\ detail' \in EntryType /\ detail'.got = detail.got
             /\ \E more \in SUBSET GapNames : gaps' = gaps \cup more
             /\ Excused(gaps') \/ (IsInjective(IdsOf(s)) => IsInjective(IdsOf(detail'.items)))
  <2>1. /\ m.reply \in ItemType /\ m.reply.id = m.id /\ detail' = Patch(detail, Append(s, m.reply))
        /\ gaps' = Gap("doubled", detail.has /\ Holds(s, m.id))
                   \cup Gap("crossed", Overtaken(m.n) \/ \E x \in Range(s) : x.id > m.id)
    BY <1>2, <1>3 DEF addListItem
  <2> HIDE DEF s
  <2>2. /\ Append(s, m.reply) \in Seq(ItemType)
        /\ IsInjective(IdsOf(s)) /\ ~Holds(s, m.id) => IsInjective(IdsOf(Append(s, m.reply)))
    BY <1>1, <2>1, AppendedOnce
  <2>3. /\ detail' \in EntryType /\ detail'.got = detail.got
        /\ detail'.items = IF detail.has THEN Append(s, m.reply) ELSE s
    BY <1>1, <2>1, <2>2, PatchSound DEF s
  <2>4. /\ gaps' = gaps \/ gaps' = gaps \cup {"doubled"} \/ gaps' = gaps \cup {"crossed"}
           \/ gaps' = gaps \cup {"doubled", "crossed"}
        /\ detail.has /\ Holds(s, m.id) => "doubled" \in gaps'
    BY <2>1 DEF Gap
  <2>5. \E more \in SUBSET GapNames : gaps' = gaps \cup more
    <3>1. {} \in SUBSET GapNames /\ gaps \cup {} = gaps
      OBVIOUS
    <3>2. /\ {"doubled"} \in SUBSET GapNames /\ {"crossed"} \in SUBSET GapNames
          /\ {"doubled", "crossed"} \in SUBSET GapNames
      BY DEF GapNames
    <3>3. QED BY <2>4, <3>1, <3>2
  <2>6. QED BY <2>2, <2>3, <2>4, <2>5 DEF Excused
<1>4. ASSUME updateListItem(m)
      PROVE  /\ detail' \in EntryType /\ detail'.got = detail.got
             /\ \E more \in SUBSET GapNames : gaps' = gaps \cup more
             /\ IsInjective(IdsOf(s)) => IsInjective(IdsOf(detail'.items))
  <2> DEFINE u == [k \in 1..Len(s) |-> IF s[k].id = m.id THEN m.reply ELSE s[k]]
  <2>1. /\ m.reply \in ItemType /\ m.reply.id = m.id /\ detail' = Patch(detail, u)
        /\ gaps' = Gap("crossed", Overtaken(m.n))
    BY <1>2, <1>4 DEF updateListItem
  <2> HIDE DEF s
  <2>2. u \in [1..Len(s) -> ItemType] /\ \A k \in 1..Len(s) : u[k].id = s[k].id
    BY <1>1, <2>1, IdsTyped
  <2> HIDE DEF u
  <2>3. u \in Seq(ItemType) /\ IdsOf(u) = IdsOf(s)
    BY <1>1, <2>2, ReplacedSound
  <2>4. /\ detail' \in EntryType /\ detail'.got = detail.got
        /\ detail'.items = IF detail.has THEN u ELSE s
    BY <1>1, <2>1, <2>3, PatchSound DEF s
  <2>5. \E more \in SUBSET GapNames : gaps' = gaps \cup more
    <3>1. /\ {} \in SUBSET GapNames /\ gaps \cup {} = gaps /\ {"crossed"} \in SUBSET GapNames
          /\ gaps' = gaps \/ gaps' = gaps \cup {"crossed"}
      BY <2>1 DEF GapNames, Gap
    <3>2. QED BY <3>1
  <2>6. QED BY <2>3, <2>4, <2>5
<1>5. ASSUME deleteListItem(m)
      PROVE  /\ detail' \in EntryType /\ detail'.got = detail.got
             /\ gaps' = gaps
             /\ IsInjective(IdsOf(s)) => IsInjective(IdsOf(detail'.items))
  <2> DEFINE at == {k \in 1..Len(s) : s[k].id # m.id}
  <2>1. at \in SUBSET (1..Len(s)) /\ detail' = Patch(detail, Kept(s, at)) /\ gaps' = gaps
    BY <1>5 DEF deleteListItem, Drop
  <2> HIDE DEF s, at
  <2>2. Kept(s, at) \in Seq(ItemType)
    BY <1>1, <2>1, KeptSound
  <2>3. IsInjective(IdsOf(s)) => IsInjective(IdsOf(Kept(s, at)))
    BY <1>1, <2>1, KeptOnce
  <2>4. /\ detail' \in EntryType /\ detail'.got = detail.got
        /\ detail'.items = IF detail.has THEN Kept(s, at) ELSE s
    BY <1>1, <2>1, <2>2, PatchSound DEF s
  <2>5. QED BY <2>1, <2>3, <2>4
<1>6. ASSUME reorderListItems(m)
      PROVE  detail' = detail /\ \E more \in SUBSET GapNames : gaps' = gaps \cup more
  <2>1. /\ {} \in SUBSET GapNames /\ gaps \cup {} = gaps /\ {"crossed"} \in SUBSET GapNames
        /\ gaps' = gaps \/ gaps' = gaps \cup {"crossed"}
    BY <1>6 DEF GapNames, Gap, reorderListItems
  <2>2. QED BY <1>6, <2>1 DEF reorderListItems
<1>7. gaps' = gaps => \E more \in SUBSET GapNames : gaps' = gaps \cup more
  <2>1. {} \in SUBSET GapNames /\ gaps \cup {} = gaps
    OBVIOUS
  <2>2. QED BY <2>1
<1>8. QED BY <1>1, <1>3, <1>4, <1>5, <1>6, <1>7

(* A write was taken.                                                        *)
LEMMA SucceedStep ==
  ASSUME PageInv, NEW m \in calls, Succeed(m)
  PROVE  PageInv'
<1>1. /\ detail' \in EntryType /\ detail'.got = detail.got
      /\ \E more \in SUBSET GapNames : gaps' = gaps \cup more
      /\ Excused(gaps') \/ (IsInjective(IdsOf(detail.items)) => IsInjective(IdsOf(detail'.items)))
  BY AnsweredRows DEF Succeed
<1>2. PICK more \in SUBSET GapNames : gaps' = gaps \cup more
  BY <1>1
<1>3. /\ UNCHANGED <<server, inbox, box, pile, owed, spent>> /\ Rerender(calls \ {m}, RowAfter(m))
      /\ calls \ {m} \in SUBSET calls
  BY DEF Succeed
<1>4. ControlSound(RowAfter(m), detail.items, pile)
  BY IdleSound DEF RowAfter, PageInv, ScreenSound
<1>5. /\ box' \in BoxType /\ owed' \in OwedType /\ FailedTextKept'
      /\ inbox' \in Seq(FrameType) /\ \A k \in 1..Len(inbox') : Fits(inbox'[k].kind, inbox'[k].value)
  BY <1>3 DEF PageInv, ScreenSound, FailedTextKept, TrafficSound
<1>6. QED BY <1>1, <1>2, <1>3, <1>4, <1>5, DrawnStep

(* A write failed: its text goes back to the box, its order is taken back.   *)
LEMMA FailStep ==
  ASSUME PageInv, NEW m \in calls, Fail(m)
  PROVE  PageInv'
<1>1. /\ detail \in EntryType /\ detail.items \in Seq(ItemType) /\ CallSound(m) /\ box \in BoxType
      /\ owed \in OwedType /\ owed.failed \subseteq {box.text} \cup owed.over
      /\ ControlSound(row, detail.items, pile)
  BY DEF PageInv, DetailSound, EntryType, TrafficSound, ScreenSound, FailedTextKept
<1>2. /\ UNCHANGED <<server, inbox, pile, spent>> /\ Rerender(calls \ {m}, row)
      /\ calls \ {m} \in SUBSET calls /\ detail' = RollBack(m)
      /\ gaps' = Gap("rolledback", /\ m.kind = "order"
                                   /\ m.over \/ Seen # m.held.seen \/ detail.items # m.held.to)
                 \cup Gap("unanswered", m.n # 0)
  BY DEF Fail
<1>3. /\ gaps' = gaps \/ gaps' = gaps \cup {"rolledback"} \/ gaps' = gaps \cup {"unanswered"}
         \/ gaps' = gaps \cup {"rolledback", "unanswered"}
      /\ m.kind = "order" /\ detail.items # m.held.to => "rolledback" \in gaps'
  BY <1>2 DEF Gap
<1>4. PICK more \in SUBSET GapNames : gaps' = gaps \cup more
  <2>1. {} \in SUBSET GapNames /\ gaps \cup {} = gaps
    OBVIOUS
  <2>2. /\ {"rolledback"} \in SUBSET GapNames /\ {"unanswered"} \in SUBSET GapNames
        /\ {"rolledback", "unanswered"} \in SUBSET GapNames
    BY DEF GapNames
  <2>3. QED BY <1>3, <2>1, <2>2
<1>5. /\ detail' \in EntryType /\ detail'.got = detail.got
      /\ Excused(gaps') \/ (IsInjective(IdsOf(detail.items)) => IsInjective(IdsOf(detail'.items)))
  <2>1. CASE m.kind # "order"
    BY <1>1, <1>2, <2>1 DEF RollBack
  <2>2. CASE m.kind = "order"
    <3> DEFINE d == Patch(detail, m.held.from)
    <3>1. /\ m.held \in Dragged /\ m.held.from \in Seq(ItemType)
          /\ IsInjective(IdsOf(m.held.to)) => IsInjective(IdsOf(m.held.from))
      BY <1>1, <2>2 DEF CallSound, OrderSound, Dragged
    <3>2. /\ d \in EntryType /\ d.got = detail.got
          /\ d.items = m.held.from \/ d.items = detail.items
      BY <1>1, <3>1, PatchSound
    <3>3. detail' = d \/ detail' = Invalidate(d)
      BY <1>2, <2>2 DEF RollBack
    <3> HIDE DEF d
    <3>4. detail' \in EntryType /\ detail'.got = detail.got /\ detail'.items = d.items
      BY <3>2, <3>3, FetchSound
    <3>5. QED BY <1>3, <2>2, <3>1, <3>2, <3>4 DEF Excused
  <2>3. QED BY <2>1, <2>2
<1>6. box' \in BoxType /\ owed' \in OwedType /\ FailedTextKept'
  <2>1. CASE m.kind \in {"create", "restore"}
    <3> DEFINE t == m.held.text
    <3>1. t \in Texts
      BY <1>1, <2>1 DEF CallSound, CreateSound, Submitted, Restored
    <3>2. /\ box' = [box EXCEPT !.text = t]
          /\ owed' = [failed |-> owed.failed \cup {t}, over |-> (owed.over \cup {box.text}) \ {t}]
      BY <2>1 DEF Fail, BoxAfter
    <3> HIDE DEF t
    <3>3. box' \in BoxType /\ box'.text = t /\ t \in AnyText /\ box.text \in AnyText
      BY <1>1, <3>1, <3>2 DEF BoxType, AnyText
    <3>4. owed' \in OwedType
      BY <1>1, <3>2, <3>3 DEF OwedType
    <3>5. FailedTextKept'
      BY <1>1, <3>2, <3>3 DEF FailedTextKept
    <3>6. QED BY <3>3, <3>4, <3>5
  <2>2. CASE m.kind \notin {"create", "restore"}
    BY <1>1, <2>2 DEF Fail, BoxAfter, FailedTextKept
  <2>3. QED BY <2>1, <2>2
<1>7. inbox' \in Seq(FrameType) /\ \A k \in 1..Len(inbox') : Fits(inbox'[k].kind, inbox'[k].value)
  BY <1>2 DEF PageInv, TrafficSound
<1>8. QED BY <1>1, <1>2, <1>4, <1>5, <1>6, <1>7, DrawnStep

(* The rows after a frame.                                                   *)
LEMMA PatchedSound ==
  ASSUME PageInv, NEW f \in FrameType, Fits(f.kind, f.value)
  PROVE  /\ Patched(f) \in EntryType /\ Patched(f).got = detail.got
         /\ IsInjective(IdsOf(detail.items)) => IsInjective(IdsOf(Patched(f).items))
<1> DEFINE s == detail.items
<1>1. detail \in EntryType /\ s \in Seq(ItemType)
  BY DEF PageInv, DetailSound, EntryType
<1>2. CASE Patched(f) = Invalidate(detail)
  BY <1>1, <1>2, FetchSound
<1>3. CASE f.kind = "order" /\ SameIds(s, f.value) /\ Patched(f) = Patch(detail, orderByIds(s, f.value))
  <2>1. f.value \in Seq(Ids)
    BY <1>3 DEF Fits
  <2> HIDE DEF s
  <2>2. orderByIds(s, f.value) \in Seq(ItemType) /\ IdsOf(orderByIds(s, f.value)) = f.value
    BY <1>1, <1>3, <2>1, OrderedSound
  <2>3. IsInjective(f.value)
    BY <1>3 DEF SameIds
  <2>4. QED BY <1>1, <1>3, <2>2, <2>3, PatchSound
<1>4. ASSUME f.kind \in {"rename", "toggle"},
             Patched(f) = Patch(detail, [k \in 1..Len(s) |->
                            IF s[k].id = f.id THEN With(s[k], f.kind, f.value) ELSE s[k]])
      PROVE  /\ Patched(f) \in EntryType /\ Patched(f).got = detail.got
             /\ IsInjective(IdsOf(s)) => IsInjective(IdsOf(Patched(f).items))
  <2> DEFINE u == [k \in 1..Len(s) |-> IF s[k].id = f.id THEN With(s[k], f.kind, f.value) ELSE s[k]]
  <2>1. \A x \in ItemType : With(x, f.kind, f.value) \in ItemType /\ With(x, f.kind, f.value).id = x.id
    BY <1>4, WithTyped DEF Updates
  <2>2. \A k \in 1..Len(s) : s[k] \in ItemType
    BY <1>1, IdsTyped
  <2> HIDE DEF s
  <2>3. u \in [1..Len(s) -> ItemType] /\ \A k \in 1..Len(s) : u[k].id = s[k].id
    BY <2>1, <2>2
  <2>4. Patched(f) = Patch(detail, u)
    BY <1>4
  <2> HIDE DEF u
  <2>5. u \in Seq(ItemType) /\ IdsOf(u) = IdsOf(s)
    BY <1>1, <2>3, ReplacedSound
  <2>6. Patched(f).items = u \/ Patched(f).items = s
    BY <1>1, <2>4, <2>5, PatchSound DEF s
  <2>7. QED BY <1>1, <2>4, <2>5, <2>6, PatchSound
<1>5. f.kind \in {"refetch", "order", "rename", "toggle"}
  BY DEF FrameType
<1>6. QED BY <1>2, <1>3, <1>4, <1>5 DEF Patched

(* A frame of somebody else's write.                                         *)
LEMMA FrameStep ==
  ASSUME PageInv, handleListResourceEvent
  PROVE  PageInv'
<1>1. /\ inbox \in Seq(FrameType) /\ inbox # <<>>
      /\ \A k \in 1..Len(inbox) : Fits(inbox[k].kind, inbox[k].value)
  BY DEF PageInv, TrafficSound, handleListResourceEvent
<1>2. /\ Len(inbox) \in Nat /\ 1 \in 1..Len(inbox)
      /\ Head(inbox) = inbox[1] /\ inbox[1] \in FrameType
      /\ Tail(inbox) \in Seq(FrameType) /\ Len(Tail(inbox)) = Len(inbox) - 1
      /\ \A k \in 1..(Len(inbox) - 1) : Tail(inbox)[k] = inbox[k + 1]
  BY <1>1, HeadTailProperties, LenProperties, EmptySeq, ElementOfSeq
<1>3. /\ inbox' = Tail(inbox) /\ detail' = Patched(Head(inbox))
      /\ UNCHANGED <<server, box, pile, owed, spent>> /\ Rerender(calls, row) /\ calls \in SUBSET calls
      /\ \/ gaps' = gaps \/ gaps' = gaps \cup {"crossed"} \/ gaps' = gaps \cup {"skipped"}
         \/ gaps' = gaps \cup {"crossed", "skipped"}
  BY DEF handleListResourceEvent, Gap
<1>4. PICK more \in SUBSET GapNames : gaps' = gaps \cup more
  <2>1. /\ {} \in SUBSET GapNames /\ gaps \cup {} = gaps /\ {"crossed"} \in SUBSET GapNames
        /\ {"skipped"} \in SUBSET GapNames /\ {"crossed", "skipped"} \in SUBSET GapNames
    BY DEF GapNames
  <2>2. QED BY <1>3, <2>1
<1>5. /\ detail' \in EntryType /\ detail'.got = detail.got
      /\ IsInjective(IdsOf(detail.items)) => IsInjective(IdsOf(detail'.items))
  BY <1>1, <1>2, <1>3, PatchedSound
<1>6. inbox' \in Seq(FrameType) /\ \A k \in 1..Len(inbox') : Fits(inbox'[k].kind, inbox'[k].value)
  <2>1. \A k \in 1..(Len(inbox) - 1) : k + 1 \in 1..Len(inbox)
    BY <1>2
  <2>2. QED BY <1>1, <1>2, <1>3, <2>1
<1>7. /\ box' \in BoxType /\ owed' \in OwedType /\ FailedTextKept'
      /\ ControlSound(row, detail.items, pile)
  BY <1>3 DEF PageInv, ScreenSound, FailedTextKept
<1>8. QED BY <1>3, <1>4, <1>5, <1>6, <1>7, DrawnStep

-----------------------------------------------------------------------------
(* The invariant holds at the start, and every step keeps it.                *)

(* The list as it is opened: the rows on the server, and nothing on screen.  *)
LEMMA InitSound ==
  ASSUME Init
  PROVE  PageInv
<1>1. /\ Start \in Seq([text : Texts, checked : BOOLEAN]) /\ Len(Start) \in Nat
      /\ MaxItems \in Nat /\ Len(Start) <= MaxItems
      /\ \A i \in 1..Len(Start) : Start[i] \in [text : Texts, checked : BOOLEAN]
  BY ListPageAssumption, LenProperties, ElementOfSeq
<1>2. <<>> \in Seq(ItemType) /\ <<>> \in Seq(FrameType) /\ <<>> \in Seq(Nat) /\ Len(<<>>) = 0
  OBVIOUS
<1>3. IsInjective(IdsOf(<<>>)) /\ Range(<<>>) = {}
  BY DEF IsInjective, IdsOf, Range
<1>4. ServerSound
  <2>1. rows = [i \in 1..Len(Start) |->
                  [text |-> Start[i].text, checked |-> Start[i].checked, due |-> FALSE, ord |-> 0]]
    BY DEF Init
  <2>2. DOMAIN rows = 1..Len(Start) /\ \A i \in 1..Len(Start) : rows[i] \in RowType
    BY <1>1, <2>1 DEF RowType
  <2>3. rows \in [DOMAIN rows -> RowType]
    BY <2>1, <2>2
  <2>4. RowsUpTo(rows, MaxItems)
    BY <1>1, <2>2, <2>3 DEF RowsUpTo
  <2>5. QED BY <1>1, <1>2, <2>4 DEF ServerSound, Init
<1>5. DetailSound
  BY <1>2, <1>3 DEF Init, DetailSound, EntryType
<1>6. ScreenSound
  BY IdleSound DEF Init, ScreenSound, BoxType, PileType, SpentType, AnyText, SomeId, OwedType,
                    FailedTextKept
<1>7. TrafficSound
  BY <1>2 DEF Init, TrafficSound
<1>8. QED BY <1>4, <1>5, <1>6, <1>7 DEF PageInv

(* Only commits bring rows, and each puts its row behind the older ones.      *)
LEMMA StepSound ==
  ASSUME PageInv, [Next]_vars
  PROVE  PageInv' /\ NewBehindOlder
<1>1. UNCHANGED rows => NewBehindOlder
  BY DEF NewBehindOlder
<1>2. CASE UNCHANGED vars
  BY <1>1, <1>2, QuietServer, QuietDetail, QuietScreen, QuietTraffic DEF PageInv, vars, server
<1>3. CASE AnswerGet \/ ResolveGet \/ FailGet \/ Retry \/ Resync
  <2>1. UNCHANGED rows
    BY <1>3 DEF AnswerGet, ResolveGet, FailGet, Retry, Resync, server
  <2>2. QED BY <1>1, <1>3, <2>1, AnswerGetStep, ResolveGetStep, GetSteps
<1>4. CASE togglePile \/ togglePileExpanded
  BY <1>1, <1>4, PileSteps DEF togglePile, togglePileExpanded, server
<1>5. CASE (\E t \in Typed : Type(t)) \/ ArrowDown \/ ArrowUp \/ Escape
  BY <1>1, <1>5, BoxSteps DEF Type, ArrowDown, ArrowUp, Escape, server
<1>6. CASE (\E i \in Ids : PickSuggestion(i)) \/ handleSubmit
  BY <1>1, <1>6, SubmitSteps DEF PickSuggestion, handleSubmit, Restoring, server
<1>7. CASE \/ \E i \in Ids : \E mode \in {"rename", "date", "delete"} : OpenControl(i, mode)
           \/ CloseControl \/ \E t \in Typed : Draft(t)
  BY <1>1, <1>7, ControlSteps DEF OpenControl, CloseControl, Draft, RowStep, server
<1>8. CASE \/ \E i \in Ids : handleToggleItem(i) \/ handleToggle(i)
           \/ submitEdit \/ commitDueDate \/ ConfirmDelete
  <2>1. UNCHANGED rows
    BY <1>8 DEF handleToggleItem, handleToggle, Toggling, submitEdit, commitDueDate,
                ConfirmDelete, server
  <2>2. QED BY <1>1, <1>8, <2>1, RowSteps
<1>9. CASE \E a, b \in Ids : Drag(a, b)
  BY <1>1, <1>9, DragStep DEF Drag, server
<1>10. CASE \E m \in calls : Commit(m)
  BY <1>10, CommitStep
<1>11. CASE \E m \in calls : Load(m) \/ Refuse(m) \/ Lose(m) \/ Break(m)
  <2>1. UNCHANGED rows
    BY <1>11 DEF Load, Loads, Refuse, Lose, Break, server
  <2>2. QED BY <1>1, <1>11, <2>1, LoadStep, LostSteps
<1>12. CASE \E m \in calls : Succeed(m) \/ Fail(m)
  BY <1>1, <1>12, SucceedStep, FailStep DEF Succeed, Fail, server
<1>13. CASE \/ \E i \in Ids : \/ \E t \in Theirs : ForeignUpdate(i, "rename", t)
                              \/ \E b \in BOOLEAN : ForeignUpdate(i, "toggle", b)
                              \/ ForeignDelete(i)
            \/ \E a, b \in Ids : ForeignOrder(a, b)
            \/ \E t \in Theirs : ForeignCreate(t)
  BY <1>1, <1>13, ForeignSteps
<1>14. CASE \E t \in others : ForeignCommit(t)
  BY <1>14, ForeignCommitStep
<1>15. CASE \E t \in others : ForeignLose(t)
  BY <1>1, <1>15, ForeignLoseStep DEF ForeignLose
<1>16. CASE handleListResourceEvent
  BY <1>1, <1>16, FrameStep DEF handleListResourceEvent, server
<1>17. QED BY <1>2, <1>3, <1>4, <1>5, <1>6, <1>7, <1>8, <1>9, <1>10, <1>11, <1>12, <1>13, <1>14,
              <1>15, <1>16 DEF Next

(* So it always holds: what GETs bring, what requests and frames carry and   *)
(* what a drag could roll back to are sound together with what is on screen. *)
THEOREM PageStaysSound == Spec => []PageInv
<1>1. Init => PageInv
  BY InitSound
<1>2. PageInv /\ [Next]_vars => PageInv'
  BY StepSound
<1>3. QED BY <1>1, <1>2, PTL DEF Spec

(* The invariant says of rows what RowsSound promises.                       *)
LEMMA InvRowsSound ==
  ASSUME PageInv
  PROVE  RowsSound
<1>1. RowsUpTo(rows, MaxItems)
  BY DEF PageInv, ServerSound
<1>2. DOMAIN rows \subseteq Ids /\ \A i \in DOMAIN rows : rows[i] \in RowType
  BY <1>1 DEF RowsUpTo, Ids
<1>3. /\ DOMAIN rows \subseteq Ids
      /\ \A i \in DOMAIN rows : /\ rows[i].text \in Texts
                                /\ rows[i].checked \in BOOLEAN /\ rows[i].due \in BOOLEAN
                                /\ rows[i].ord \in Nat
  BY <1>2 DEF RowType
<1>4. TypeOK
  <2>1. ASSUME row # Idle PROVE Shown(row.id)
    <3>1. ShownIn(detail.items, pile, row.id)
      BY <2>1 DEF PageInv, ScreenSound, ControlSound
    <3>2. QED BY <3>1 DEF ShownIn, Shown, Piled
  <2>2. /\ detail.items \in Seq(ItemType) /\ detail.got \in Seq(ItemType)
        /\ detail.get \in {"none", "sent", "answered"}
    BY DEF PageInv, DetailSound, EntryType
  <2>3. /\ box.text \in Texts \cup {NoText} /\ box.active \in Ids \cup {None}
        /\ row.mode \in {"idle", "rename", "date", "delete"} /\ row.id \in Ids \cup {None}
    BY DEF PageInv, ScreenSound, BoxType, ControlSound, ControlType, AnyText, SomeId
  <2>4. QED BY <1>3, <2>1, <2>2, <2>3 DEF TypeOK, PageInv, DetailSound, GapNames
<1>5. RowsOnce
  BY DEF PageInv, DetailSound, Excused, RowsOnce
<1>6. DragKeepsPile
  BY DEF PageInv, TrafficSound, CallSound, OrderSound, DragKeepsPile
<1>7. RetypedIsRevived
  BY DEF PageInv, TrafficSound, CallSound, CreateSound, RetypedIsRevived
<1>8. QED BY <1>4, <1>5, <1>6, <1>7 DEF RowsSound

(* However answers, frames, GETs and rollbacks race: no row is on screen     *)
(* twice but by the two named gaps, no drag moves a checked row, and a name  *)
(* that the pile holds is revived instead of created (listData.ts,           *)
(* checkedPile.ts, AddItemForm.tsx).                                         *)
THEOREM RowsStaySound == Spec => []RowsSound
<1>1. PageInv => RowsSound
  BY InvRowsSound
<1>2. QED BY <1>1, PageStaysSound, PTL

(* However many requests fail: a text that could not be saved stays in the   *)
(* add box until it is typed over or submitted again, or the text of a later *)
(* failure is put over it (the catches of handleSubmit and restore).         *)
THEOREM FailedTextStays == Spec => []FailedTextKept
<1>1. PageInv => FailedTextKept
  BY DEF PageInv, ScreenSound
<1>2. QED BY <1>1, PageStaysSound, PTL

(* Whoever creates a row, and in whatever order creates commit: every later  *)
(* GET has only rows begun later behind it (create_item, get_list), also     *)
(* while all rows share the sort_order 0.                                    *)
THEOREM CreatedRowIsBehindOlder == Spec => AppendsInOrder
<1> DEFINE Appends ==
      \A i \in DOMAIN rows' \ DOMAIN rows :
        \A k, l \in 1..Len(View(rows)') :
          View(rows)'[k].id = i /\ l > k => View(rows)'[l].id > i
<1>1. PageInv /\ [Next]_vars => [Appends]_vars
  <2> SUFFICES ASSUME PageInv, [Next]_vars PROVE Appends
    OBVIOUS
  <2>1. PageInv' /\ NewBehindOlder
    BY StepSound
  <2>2. RowsUpTo(rows', MaxItems) /\ MaxItems \in 0..MaxItems
    BY <2>1, ListPageAssumption DEF PageInv, ServerSound
  <2>3. QED BY <2>1, <2>2, ViewBehind DEF NewBehindOlder
<1>2. QED BY <1>1, PageStaysSound, PTL DEF Spec, AppendsInOrder
=============================================================================
